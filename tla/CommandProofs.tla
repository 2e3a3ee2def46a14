----------------------------- MODULE CommandProofs -----------------------------
(***************************************************************************)
(* The commands, one at a time, each interrupted, failed and taken up      *)
(* again wherever it may be.                                               *)
(*   - VaultKey: a rotation, a move or an init keeps the promise of        *)
(*     KeyCustody, and leaves a vault that opens wherever it leaves no     *)
(*     marker.  What each place of it knows of the keys is the invariant.  *)
(*   - VaultHistory: what a set or a restore writes over is the newest     *)
(*     version, and a prune drops what has enough newer ones.  What each   *)
(*     stage knows of the versions is the invariant.                       *)
(*   - Migration: the text a migrated file had last can be had again.      *)
(*     Where the text of each file is, at every step, is the invariant.    *)
(* For every set of envelopes, versions and paths, and any number of       *)
(* kills, failures and losses.                                             *)
(***************************************************************************)
EXTENDS VaultKey, VaultHistory, Migration, FiniteSetTheorems, WellFoundedInduction, TLAPS

(***************************************************************************)
(* VaultKey.                                                               *)
(***************************************************************************)

\* Commands that overlap break the promise (README): the marker is looked at
\* when one starts.
OneCommand == \A c, d \in Commands : c = d

\* Keys are 256 random bits, so a fresh one is always to be had.
KeysNeverRunOut == ~IsFiniteSet(Keys)

-------------------------------------------------------------------------------
(* What holds at every step, wherever the command is. *)

\* A staged key is there during a rotation only, ...
StagedInRotation == staged # NoKey => marker = "rotation"

\* ... and a staged sealed file during a move in only, of the keychain's key.
NextInMove ==
    next # NoSealedFile =>
        /\ marker = "in" /\ ~IsEnclaveVault
        /\ next.opens /\ next.key = primary /\ primary # NoKey

\* What is left in the keychain of an enclave vault is a copy; a move in never
\* goes on over a sealed file the enclave does not open.
SealedAndCopy ==
    IsEnclaveVault =>
        /\ sealed.key # NoKey /\ primary \in {NoKey, sealed.key}
        /\ marker # "rotation" /\ (marker = "in" => sealed.opens)

\* The envelopes no record gave up are under the vault's key, or in a rotation
\* under the old or the staged one.
EnvelopesOpen ==
    \A f \in Present \ listed :
        under[f] \in IF marker = "rotation" THEN {primary, staged} ELSE {ChosenKey}

\* What a record lists is under no key the vault still uses.
ListedAreLost ==
    \A f \in listed : under[f] \notin {NoKey, primary, staged, sealed.key}

Shape ==
    /\ StagedInRotation /\ NextInMove /\ SealedAndCopy
    /\ EnvelopesOpen /\ ListedAreLost
    /\ agentKey = NoKey

-------------------------------------------------------------------------------
(* What the places of a command know. *)

\* What is not to be walked any more is under the staged key.
Walked(todo) ==
    \A f \in Files \ todo : under[f] \in {NoKey, staged} \/ f \in listed

RekeyOk(c) ==
    LET p == at[c]
        m == mem[c]
    IN  /\ p \in {"rekey ask", "rekey mark"}
             => marker \in {"none", "rotation"} /\ ~IsEnclaveVault
        /\ p \in {"rekey stage", "rekey walk", "rekey write", "rekey delete",
                  "rekey add", "rekey verify", "rekey drop", "rekey unmark"}
             => marker = "rotation"
        /\ p \in {"rekey ask", "rekey mark", "rekey stage", "rekey walk",
                  "rekey write"} => m.old \in {NoKey, primary}
        /\ p \in {"rekey walk", "rekey write", "rekey delete", "rekey add",
                  "rekey verify"} => m.new = staged /\ staged # NoKey
        /\ p \in {"rekey walk", "rekey write"} => Walked(m.todo)
        /\ p = "rekey write" => m.file \in Files /\ m.file \in m.todo
        /\ p \in {"rekey delete", "rekey add", "rekey verify", "rekey drop"}
             => Walked({})
        /\ p = "rekey add" => primary = NoKey
        /\ p \in {"rekey verify", "rekey drop"}
             => primary = staged /\ staged # NoKey
        /\ p = "rekey unmark" => staged = NoKey

MoveInOk(c) ==
    LET p == at[c]
        m == mem[c]
    IN  /\ p = "in mark" => marker = "in" \/ (marker = "none" /\ ~IsEnclaveVault)
        /\ p \in {"in fetch", "in seal", "in check", "in promote"}
             => marker = "in" /\ ~IsEnclaveVault
        /\ p \in {"in seal", "in check"} => m.old = primary /\ primary # NoKey
        /\ p = "in seal" => next = NoSealedFile
        /\ p \in {"in check", "in promote"} => next # NoSealedFile
        /\ p \in {"in drop", "in finish"} => marker = "in" /\ IsEnclaveVault
        /\ p \in {"copy open", "copy match"} => marker = "none" /\ IsEnclaveVault
        /\ p = "copy match" => m.old = Opened(sealed)

MoveBackOk(c) ==
    LET p == at[c]
        m == mem[c]
    IN  /\ p = "back mark" => marker = "back" \/ (marker = "none" /\ IsEnclaveVault)
        /\ p \in {"back open", "back install", "back unfile"}
             => marker = "back" /\ IsEnclaveVault
        /\ p = "back install" => m.old = sealed.key
        /\ p = "back unfile" => primary = sealed.key
        /\ p \in {"back delete", "back finish"}
             => marker = "back" /\ ~IsEnclaveVault
        /\ p = "abort" => marker = "back" \/ (marker = "in" /\ ~IsEnclaveVault)

UseOk(c) ==
    LET p == at[c]
        m == mem[c]
    IN  /\ p \in {"write keychain", "write enclave", "write"} => marker = "none"
        /\ p = "write keychain" => ~IsEnclaveVault
        /\ p = "write enclave" => IsEnclaveVault
        /\ p = "write" => /\ m.old # NoKey /\ m.old = ChosenKey
                          /\ m.old \in Held
        /\ p = "init key" => ~IsEnclaveVault /\ primary = NoKey
        /\ p # "write agent"

PlaceOk(c) == RekeyOk(c) /\ MoveInOk(c) /\ MoveBackOk(c) /\ UseOk(c)

-------------------------------------------------------------------------------
(* The invariant. *)

Typed ==
    /\ primary \in KeyOrNone /\ staged \in KeyOrNone /\ agentKey \in KeyOrNone
    /\ sealed \in SealedFile /\ next \in SealedFile
    /\ marker \in Markers
    /\ under \in [Files -> KeyOrNone] /\ listed \subseteq Files /\ gone \subseteq Keys
    /\ at \in [Commands -> Places] /\ mem \in [Commands -> Memory]
    /\ crashes \in Nat /\ faults \in Nat /\ losses \in Nat

VaultInv ==
    /\ Typed /\ Shape
    /\ \A c \in Commands : PlaceOk(c)
    /\ InCustody /\ IsFiniteSet(gone)

\* Every step of VaultKey keeps this.
CustodyStep == [Custody!CustodyNext]_Custody!custody

\* The invariant holds in the initial states.
LEMMA InitVault == Init => VaultInv
  <1> SUFFICES ASSUME Init PROVE VaultInv
    OBVIOUS
  <1>1. Typed
    <2>1. "idle" \in Places
      BY DEF Places, OtherPlaces
    <2>2. Blank \in Memory
      BY DEF Blank, Memory, KeyOrNone
    <2>3. NoSealedFile \in SealedFile
      BY DEF NoSealedFile, SealedFile, KeyOrNone
    <2> QED
      BY <2>1, <2>2, <2>3 DEF Init, Typed, KeyOrNone, Markers
  <1>2. Shape
    BY DEF Init, Shape, StagedInRotation, NextInMove, SealedAndCopy,
           EnvelopesOpen, ListedAreLost, IsEnclaveVault, Present
  <1>3. \A c \in Commands : PlaceOk(c)
    BY DEF Init, PlaceOk, RekeyOk, MoveInOk, MoveBackOk, UseOk
  <1>4. InCustody
    BY DEF Init, InCustody, Custody!InCustody
  <1>5. IsFiniteSet(gone)
    BY FS_EmptySet DEF Init
  <1> QED
    BY <1>1, <1>2, <1>3, <1>4, <1>5 DEF VaultInv

-------------------------------------------------------------------------------
(* Steps of the command. *)

\* A step from one place to another.
LEMMA Goes ==
  ASSUME Typed, NEW c \in Commands, NEW from, NEW to \in Places, Go(c, from, to)
  PROVE  at[c] = from /\ at'[c] = to /\ at' \in [Commands -> Places]
  BY Zenon DEF Go, Typed

\* What a command has in memory after it took it in.
LEMMA Remembers ==
  ASSUME Typed, NEW c \in Commands, NEW m \in Memory, Remember(c, m)
  PROVE  mem'[c] = m /\ mem' \in [Commands -> Memory]
  BY Zenon DEF Remember, Typed

\* A command with an empty memory.
LEMMA BlankKept ==
  /\ Blank \in Memory
  /\ \A k \in KeyOrNone :
        /\ [Blank EXCEPT !.old = k] \in Memory
        /\ [Blank EXCEPT !.old = k].old = k
        /\ [Blank EXCEPT !.new = k] \in Memory
        /\ [Blank EXCEPT !.new = k].new = k
  /\ Blank.old = NoKey
  BY DEF Blank, Memory, KeyOrNone

\* A key nothing has: the keys in use are finitely many.
LEMMA FreshKey ==
  ASSUME OneCommand, KeysNeverRunOut, VaultInv
  PROVE  /\ NewKey \in Keys /\ NewKey \notin gone
         /\ NewKey \notin {primary, staged, sealed.key, next.key}
         /\ \A f \in Files : under[f] # NewKey
  <1>1. IsFiniteSet({primary, staged, sealed.key, next.key, agentKey, NoKey})
    <2>1. \A S, x : IsFiniteSet(S) => IsFiniteSet(S \cup {x})
      BY FS_AddElement
    <2>2. IsFiniteSet({})
      BY FS_EmptySet
    <2> DEFINE built == ((((({} \cup {primary}) \cup {staged})
                             \cup {sealed.key}) \cup {next.key})
                           \cup {agentKey}) \cup {NoKey}
    <2>3. IsFiniteSet(built)
      BY <2>1, <2>2, Zenon
    <2>4. {primary, staged, sealed.key, next.key, agentKey, NoKey} = built
      OBVIOUS
    <2> QED
      BY <2>3, <2>4, Zenon
  <1> DEFINE some == {primary, staged, sealed.key, next.key, agentKey, NoKey}
             olds == {mem[c].old : c \in Commands}
             news == {mem[c].new : c \in Commands}
  <1>2. IsFiniteSet(olds) /\ IsFiniteSet(news)
    <2>1. CASE Commands = {}
      BY <2>1, FS_EmptySet
    <2>2. CASE Commands # {}
      <3>1. PICK c \in Commands : TRUE
        BY <2>2
      <3>2. olds = {mem[c].old} /\ news = {mem[c].new}
        BY <3>1 DEF OneCommand
      <3> QED
        BY <3>2, FS_Singleton
    <2> QED
      BY <2>1, <2>2
  <1> DEFINE all == ((some \cup gone) \cup olds) \cup news
  <1>3. IsFiniteSet(all)
    <2>1. \A S, T : IsFiniteSet(S) /\ IsFiniteSet(T) => IsFiniteSet(S \cup T)
      BY FS_Union
    <2>2. IsFiniteSet(gone)
      BY DEF VaultInv
    <2> HIDE DEF some, olds, news
    <2> QED
      BY <1>1, <1>2, <2>1, <2>2 DEF some
  <1>4. \A f \in Files : under[f] \in all
    BY DEF VaultInv, InCustody, Custody!InCustody, Held, Opened
  <1>5. InUse \subseteq all
    BY <1>4, Zenon DEF InUse
  <1>6. \E k \in Keys : k \notin InUse
    <2> SUFFICES ASSUME Keys \subseteq InUse PROVE FALSE
      OBVIOUS
    <2>1. Keys \in SUBSET all
      BY <1>5
    <2> HIDE DEF all
    <2>2. IsFiniteSet(Keys)
      BY <1>3, <2>1, FS_Subset
    <2> QED
      BY <2>2 DEF KeysNeverRunOut
  <1>7. NewKey \in Keys /\ NewKey \notin InUse
    BY <1>6 DEF NewKey
  <1> QED
    BY <1>7 DEF InUse

-------------------------------------------------------------------------------
(* What each step has to leave true. *)

Good(c) ==
    /\ Typed' /\ Shape' /\ PlaceOk(c)'
    /\ CustodyStep /\ IsFiniteSet(gone)'

Counted == crashes' \in Nat /\ faults' \in Nat /\ losses' \in Nat

\* Crashes, faults and losses are counted in naturals.
LEMMA Counts ==
  ASSUME Typed, Works \/ Fails \/ UNCHANGED bounds
  PROVE  Counted
  BY DEF Typed, Works, Fails, bounds, Counted

\* Steps that change nothing outside the command.
LEMMA QuietGood ==
  ASSUME VaultInv, NEW c \in Commands,
         at' \in [Commands -> Places], mem' \in [Commands -> Memory], Counted,
         UNCHANGED <<places, marker, under, listed, agentKey, gone>>,
         PlaceOk(c)'
  PROVE  Good(c)
  <1>1. Typed'
    BY DEF VaultInv, Typed, Counted, places
  <1>2. Shape'
    BY DEF VaultInv, Shape, StagedInRotation, NextInMove, SealedAndCopy,
           EnvelopesOpen, ListedAreLost, IsEnclaveVault, Present, ChosenKey,
           places
  <1>3. CustodyStep
    BY DEF CustodyStep, Custody!custody, Held, Opened, places
  <1> QED
    BY <1>1, <1>2, <1>3 DEF Good, VaultInv

\* A command that stopped owes nothing.
LEMMA Stopped ==
  ASSUME NEW c \in Commands,
         at'[c] \in {"idle", "rekey return"}
  PROVE  PlaceOk(c)'
  BY DEF PlaceOk, RekeyOk, MoveInOk, MoveBackOk, UseOk

\* A rotation begins, or takes up one that stopped.
LEMMA RekeyBeginsGood ==
  ASSUME VaultInv, NEW c \in Commands,
         RekeyStart(c) \/ RekeyApprove(c)
  PROVE  Good(c)
  <1>0. Typed /\ Shape /\ PlaceOk(c) /\ primary \in KeyOrNone /\ NoKey \in KeyOrNone
    BY DEF VaultInv, Typed, KeyOrNone
  <1>1. UNCHANGED <<places, marker, under, listed, agentKey, gone>>
    BY Zenon DEF RekeyStart, RekeyApprove
  <1>2. Counted
    BY <1>0, Counts DEF RekeyStart, RekeyApprove
  <1>3. {"rekey ask", "rekey mark", "idle"} \subseteq Places
    BY DEF Places, RekeyPlaces, OtherPlaces
  <1>4. /\ mem' \in [Commands -> Memory]
        /\ mem'[c].old \in {NoKey, primary}
    <2>1. \E k \in {NoKey, primary} :
             Remember(c, [Blank EXCEPT !.old = k]) \/ Forget(c)
      BY <1>0 DEF RekeyStart, RekeyApprove
    <2>2. PICK k \in {NoKey, primary} :
             Remember(c, [Blank EXCEPT !.old = k]) \/ Remember(c, Blank)
      BY <2>1 DEF Forget
    <2>3. CASE Remember(c, [Blank EXCEPT !.old = k])
      BY <1>0, <2>3, BlankKept, Remembers
    <2>4. CASE Remember(c, Blank)
      BY <1>0, <2>4, BlankKept, Remembers
    <2> QED
      BY <2>2, <2>3, <2>4
  <1>5. CASE RekeyStart(c)
    <2>1. at'[c] = "rekey ask" /\ at' \in [Commands -> Places]
          /\ marker \in {"none", "rotation"} /\ ~IsEnclaveVault
      BY <1>0, <1>3, <1>5, Goes DEF RekeyStart
    <2>2. PlaceOk(c)'
      BY <1>1, <1>4, <2>1 DEF PlaceOk, RekeyOk, MoveInOk, MoveBackOk, UseOk,
                              places, IsEnclaveVault
    <2> QED
      BY <1>1, <1>2, <1>4, <2>1, <2>2, QuietGood
  <1>6. CASE RekeyApprove(c)
    <2>1. \E p \in {"rekey mark", "idle"} : Go(c, "rekey ask", p)
      BY <1>6 DEF RekeyApprove
    <2>2. /\ at[c] = "rekey ask" /\ at'[c] \in {"rekey mark", "idle"}
          /\ at' \in [Commands -> Places]
      BY <1>0, <1>3, <2>1, Goes
    <2>3. marker \in {"none", "rotation"} /\ ~IsEnclaveVault
      BY <1>0, <2>2 DEF PlaceOk, RekeyOk
    <2>4. PlaceOk(c)'
      BY <1>1, <1>4, <2>2, <2>3
      DEF PlaceOk, RekeyOk, MoveInOk, MoveBackOk, UseOk, places, IsEnclaveVault
    <2> QED
      BY <1>1, <1>2, <1>4, <2>2, <2>4, QuietGood
  <1> QED
    BY <1>5, <1>6

\* The marker is written before anything else changes.
LEMMA RekeyMarkGood ==
  ASSUME VaultInv, NEW c \in Commands, RekeyMark(c)
  PROVE  Good(c)
  <1>0. Typed /\ Shape /\ PlaceOk(c)
    BY DEF VaultInv
  <1>1. "rekey stage" \in Places
    BY DEF Places, RekeyPlaces
  <1>2. /\ at[c] = "rekey mark" /\ at'[c] = "rekey stage"
        /\ at' \in [Commands -> Places]
        /\ agentKey' = NoKey /\ marker' = "rotation"
        /\ UNCHANGED <<places, under, listed, gone, mem, bounds>>
    BY <1>0, <1>1, Goes DEF RekeyMark, LockAgent
  <1>3. marker \in {"none", "rotation"} /\ ~IsEnclaveVault
        /\ mem[c].old \in {NoKey, primary}
    BY <1>0, <1>2 DEF PlaceOk, RekeyOk
  <1>4. Typed'
    BY <1>0, <1>2 DEF Typed, Markers, KeyOrNone, places, bounds
  <1>5. Shape'
    BY <1>0, <1>2, <1>3
    DEF Shape, StagedInRotation, NextInMove, SealedAndCopy, EnvelopesOpen,
        ListedAreLost, IsEnclaveVault, Present, ChosenKey, places
  <1>6. PlaceOk(c)'
    BY <1>2, <1>3 DEF PlaceOk, RekeyOk, MoveInOk, MoveBackOk, UseOk, places
  <1>7. CustodyStep
    BY <1>2 DEF CustodyStep, Custody!custody, Held, Opened, places
  <1> QED
    BY <1>2, <1>4, <1>5, <1>6, <1>7 DEF Good, VaultInv

\* The new key is staged.
LEMMA RekeyStageGood ==
  ASSUME OneCommand, KeysNeverRunOut, VaultInv, NEW c \in Commands, RekeyStage(c)
  PROVE  Good(c)
  <1>0. Typed /\ Shape /\ PlaceOk(c)
    BY DEF VaultInv
  <1>1. "rekey walk" \in Places
    BY DEF Places, RekeyPlaces
  <1> DEFINE m == [mem[c] EXCEPT !.new = staged', !.todo = Present]
  <1>2. /\ at[c] = "rekey stage" /\ at'[c] = "rekey walk"
        /\ at' \in [Commands -> Places]
        /\ staged' = IF staged = NoKey THEN NewKey ELSE staged
        /\ UNCHANGED <<primary, sealed, next, marker, under, listed, agentKey,
                       gone, bounds>>
    BY <1>0, <1>1, Goes DEF RekeyStage
  <1>3. marker = "rotation" /\ mem[c].old \in {NoKey, primary}
    BY <1>0, <1>2 DEF PlaceOk, RekeyOk
  <1>4. /\ staged' \in Keys /\ staged' # NoKey
        /\ staged # NoKey => staged' = staged
        /\ \A f \in listed : under[f] # staged'
    BY <1>0, <1>2, FreshKey, NoneIsNone
    DEF Typed, KeyOrNone, Shape, ListedAreLost
  <1>5. m \in Memory /\ m.new = staged' /\ m.todo = Present /\ m.old = mem[c].old
    BY <1>0, <1>4 DEF Typed, Memory, KeyOrNone, Present
  <1>6. mem'[c] = m /\ mem' \in [Commands -> Memory]
    BY <1>0, <1>5, Remembers, Zenon DEF RekeyStage
  <1> HIDE DEF m
  <1>7. Typed'
    BY <1>0, <1>2, <1>4, <1>6 DEF Typed, KeyOrNone, bounds
  <1>8. Shape'
    BY <1>0, <1>2, <1>3, <1>4
    DEF Shape, StagedInRotation, NextInMove, SealedAndCopy, EnvelopesOpen,
        ListedAreLost, IsEnclaveVault, Present, ChosenKey
  <1>9. PlaceOk(c)'
    <2>1. Walked(mem[c].todo)'
      BY <1>2, <1>5, <1>6 DEF Walked, Present
    <2> QED
      BY <1>2, <1>3, <1>4, <1>5, <1>6, <2>1
      DEF PlaceOk, RekeyOk, MoveInOk, MoveBackOk, UseOk
  <1>10. CustodyStep
    <2>1. CASE staged' = staged
      BY <1>2, <2>1 DEF CustodyStep, Custody!custody, Held, Opened
    <2>2. CASE staged' # staged
      <3>1. staged = NoKey
        BY <1>4, <2>2
      <3>2. Held' = Held \cup {staged'}
        BY <1>2, <1>4, <3>1 DEF Held, Opened
      <3>3. Custody!Make(staged')
        BY <1>2, <3>2 DEF Custody!Make
      <3> QED
        BY <1>4, <3>3 DEF CustodyStep, Custody!CustodyNext
    <2> QED
      BY <2>1, <2>2
  <1> QED
    BY <1>2, <1>7, <1>8, <1>9, <1>10 DEF Good, VaultInv

\* An envelope is read, under the old key or the staged one.
LEMMA RekeyReadGood ==
  ASSUME VaultInv, NEW c \in Commands, NEW f \in Files, RekeyRead(c, f)
  PROVE  Good(c)
  <1>0. Typed /\ Shape /\ PlaceOk(c)
    BY DEF VaultInv
  <1>1. /\ UNCHANGED <<places, marker, under, listed, agentKey, gone, bounds>>
        /\ at[c] = "rekey walk" /\ f \in mem[c].todo
    BY Zenon DEF RekeyRead
  <1>2. Counted
    BY <1>0, <1>1, Counts
  <1>3. /\ marker = "rotation" /\ mem[c].old \in {NoKey, primary}
        /\ mem[c].new = staged /\ staged # NoKey /\ Walked(mem[c].todo)
    BY <1>0, <1>1 DEF PlaceOk, RekeyOk
  <1>4. mem[c] \in Memory /\ {"rekey walk", "rekey write", "rekey return"} \subseteq Places
    BY <1>0 DEF Typed, Places, RekeyPlaces
  <1>5. CASE /\ at' = [at EXCEPT ![c] = "rekey write"]
             /\ Remember(c, [mem[c] EXCEPT !.file = f])
    <2> DEFINE m == [mem[c] EXCEPT !.file = f]
    <2>1. /\ m \in Memory /\ m.file = f /\ m.todo = mem[c].todo
          /\ m.new = mem[c].new /\ m.old = mem[c].old
      BY <1>4 DEF Memory
    <2> HIDE DEF m
    <2>2. mem'[c] = m /\ mem' \in [Commands -> Memory]
      BY <1>0, <1>5, <2>1, Remembers DEF m
    <2>3. at'[c] = "rekey write" /\ at' \in [Commands -> Places]
      BY <1>0, <1>4, <1>5 DEF Typed
    <2>4. Walked(mem[c].todo)'
      BY <1>1, <1>3, <2>1, <2>2 DEF Walked, places
    <2>5. PlaceOk(c)'
      BY <1>1, <1>3, <2>1, <2>2, <2>3, <2>4
      DEF PlaceOk, RekeyOk, MoveInOk, MoveBackOk, UseOk, places
    <2> QED
      BY <1>1, <1>2, <2>2, <2>3, <2>5, QuietGood
  <1>6. CASE /\ under[f] = mem[c].new \/ f \in listed
             /\ at' = [at EXCEPT ![c] = "rekey walk"]
             /\ Remember(c, [mem[c] EXCEPT !.todo = @ \ {f}])
    <2> DEFINE m == [mem[c] EXCEPT !.todo = @ \ {f}]
    <2>1. /\ m \in Memory /\ m.todo = mem[c].todo \ {f}
          /\ m.new = mem[c].new /\ m.old = mem[c].old
      BY <1>4 DEF Memory
    <2> HIDE DEF m
    <2>2. mem'[c] = m /\ mem' \in [Commands -> Memory]
      BY <1>0, <1>6, <2>1, Remembers, Zenon DEF m
    <2>3. at'[c] = "rekey walk" /\ at' \in [Commands -> Places]
      BY <1>0, <1>4, <1>6 DEF Typed
    <2>4. Walked(mem[c].todo)'
      BY <1>1, <1>3, <1>6, <2>1, <2>2 DEF Walked, places
    <2>5. PlaceOk(c)'
      BY <1>1, <1>3, <2>1, <2>2, <2>3, <2>4
      DEF PlaceOk, RekeyOk, MoveInOk, MoveBackOk, UseOk, places
    <2> QED
      BY <1>1, <1>2, <2>2, <2>3, <2>5, QuietGood
  <1>7. CASE at' = [at EXCEPT ![c] = "rekey return"] /\ Forget(c)
    <2>1. at'[c] = "rekey return" /\ at' \in [Commands -> Places]
      BY <1>0, <1>4, <1>7 DEF Typed
    <2>2. mem' \in [Commands -> Memory]
      BY <1>0, <1>7, BlankKept, Remembers DEF Forget
    <2> QED
      BY <1>1, <1>2, <2>1, <2>2, Stopped, QuietGood
  <1> QED
    BY <1>5, <1>6, <1>7, Zenon DEF RekeyRead

\* It is written again under the staged key.
LEMMA RekeyWriteGood ==
  ASSUME VaultInv, NEW c \in Commands, RekeyWrite(c)
  PROVE  Good(c)
  <1> DEFINE g == mem[c].file
             m == [mem[c] EXCEPT !.todo = @ \ {g}, !.file = NoFile]
  <1>0. Typed /\ Shape /\ PlaceOk(c) /\ mem[c] \in Memory
    BY DEF VaultInv, Typed
  <1>1. "rekey walk" \in Places
    BY DEF Places, RekeyPlaces
  <1>2. /\ at[c] = "rekey write" /\ at'[c] = "rekey walk"
        /\ at' \in [Commands -> Places]
        /\ under' = [under EXCEPT ![g] = mem[c].new]
        /\ listed' = listed \ {g}
        /\ UNCHANGED <<places, marker, agentKey, gone, bounds>>
    BY <1>0, <1>1, Goes DEF RekeyWrite
  <1>3. /\ marker = "rotation" /\ mem[c].old \in {NoKey, primary}
        /\ mem[c].new = staged /\ staged # NoKey /\ Walked(mem[c].todo)
        /\ g \in Files
    BY <1>0, <1>2 DEF PlaceOk, RekeyOk
  <1>4. /\ m \in Memory /\ m.todo = mem[c].todo \ {g}
        /\ m.new = mem[c].new /\ m.old = mem[c].old
    BY <1>0 DEF Memory
  <1>5. mem'[c] = m /\ mem' \in [Commands -> Memory]
    BY <1>0, <1>4, Remembers, Zenon DEF RekeyWrite
  <1> HIDE DEF m
  <1>6. /\ under' \in [Files -> KeyOrNone] /\ under'[g] = staged
        /\ \A f \in Files \ {g} : under'[f] = under[f]
    BY <1>0, <1>2, <1>3 DEF Typed
  <1>7. Typed'
    BY <1>0, <1>2, <1>5, <1>6 DEF Typed, places, bounds
  <1>8. EnvelopesOpen'
    BY <1>0, <1>2, <1>3, <1>6
    DEF Shape, EnvelopesOpen, Present, places, Typed
  <1>9. ListedAreLost'
    BY <1>0, <1>2, <1>6 DEF Shape, ListedAreLost, places, Typed
  <1>10. Shape'
    BY <1>0, <1>2, <1>8, <1>9
    DEF Shape, StagedInRotation, NextInMove, SealedAndCopy, IsEnclaveVault,
        places
  <1>11. Walked(mem[c].todo)'
    BY <1>2, <1>3, <1>4, <1>5, <1>6 DEF Walked, places
  <1>12. PlaceOk(c)'
    BY <1>2, <1>3, <1>4, <1>5, <1>11
    DEF PlaceOk, RekeyOk, MoveInOk, MoveBackOk, UseOk, places
  <1>13. CustodyStep
    <2>1. Held' = Held /\ staged \in Held /\ staged \in Keys
      BY <1>0, <1>2, <1>3 DEF Held, Opened, places, Typed, KeyOrNone
    <2>2. Custody!Seal(g, staged)
      BY <1>2, <1>3, <2>1 DEF Custody!Seal
    <2> QED
      BY <1>3, <2>1, <2>2 DEF CustodyStep, Custody!CustodyNext
  <1> QED
    BY <1>2, <1>7, <1>10, <1>12, <1>13 DEF Good, VaultInv

\* The staged key becomes the primary.
LEMMA RekeyPromoteGood ==
  ASSUME VaultInv, NEW c \in Commands, RekeyPromote(c)
  PROVE  Good(c)
  <1>0. Typed /\ PlaceOk(c) /\ staged \in KeyOrNone
    BY DEF VaultInv, Typed
  <1>1. /\ UNCHANGED <<places, marker, under, listed, agentKey, gone, bounds>>
        /\ mem[c].todo = {} /\ at[c] = "rekey walk"
    BY Zenon DEF RekeyPromote, Go
  <1>2. /\ marker = "rotation" /\ staged # NoKey /\ Walked({})
    BY <1>0, <1>1 DEF PlaceOk, RekeyOk
  <1>3. Go(c, "rekey walk", "rekey delete")
    BY <1>2, Zenon DEF RekeyPromote
  <1>4. "rekey delete" \in Places
    BY DEF Places, RekeyPlaces
  <1>5. at'[c] = "rekey delete" /\ at' \in [Commands -> Places]
    BY <1>0, <1>3, <1>4, Goes
  <1>6. mem'[c].new = staged /\ mem' \in [Commands -> Memory]
    BY <1>0, BlankKept, Remembers DEF RekeyPromote
  <1>7. Walked({})'
    BY <1>1, <1>2 DEF Walked, places
  <1>8. PlaceOk(c)'
    BY <1>1, <1>2, <1>5, <1>6, <1>7
    DEF PlaceOk, RekeyOk, MoveInOk, MoveBackOk, UseOk, places
  <1>9. Counted
    BY <1>0, <1>1, Counts
  <1> QED
    BY <1>1, <1>5, <1>6, <1>8, <1>9, QuietGood

\* The old key goes when no envelope is under it.
LEMMA RekeyDeleteGood ==
  ASSUME VaultInv, NEW c \in Commands, RekeyDelete(c)
  PROVE  Good(c)
  <1>0. Typed /\ Shape /\ PlaceOk(c)
    BY DEF VaultInv
  <1>1. "rekey add" \in Places
    BY DEF Places, RekeyPlaces
  <1>2. /\ at[c] = "rekey delete" /\ at'[c] = "rekey add"
        /\ at' \in [Commands -> Places] /\ primary' = NoKey
        /\ UNCHANGED <<staged, sealed, next, marker, under, listed, agentKey,
                       gone, mem, bounds>>
    BY <1>0, <1>1, Goes DEF RekeyDelete
  <1>3. /\ marker = "rotation" /\ mem[c].new = staged /\ staged # NoKey
        /\ Walked({})
    BY <1>0, <1>2 DEF PlaceOk, RekeyOk
  <1>4. Typed'
    BY <1>0, <1>2 DEF Typed, KeyOrNone, bounds
  <1>5. Shape'
    BY <1>0, <1>2, <1>3
    DEF Shape, StagedInRotation, NextInMove, SealedAndCopy, EnvelopesOpen,
        ListedAreLost, IsEnclaveVault, Present, Walked
  <1>6. Walked({})'
    BY <1>2, <1>3 DEF Walked
  <1>7. PlaceOk(c)'
    BY <1>2, <1>3, <1>6 DEF PlaceOk, RekeyOk, MoveInOk, MoveBackOk, UseOk
  <1>8. CustodyStep
    <2>1. CASE primary \in {NoKey, staged}
      BY <1>2, <2>1 DEF CustodyStep, Custody!custody, Held, Opened
    <2>2. CASE primary \notin {NoKey, staged}
      <3>1. ~IsEnclaveVault /\ next = NoSealedFile
        BY <1>0, <1>3
        DEF Shape, SealedAndCopy, NextInMove
      <3>2. Held' = Held \ {primary}
        BY <1>2, <1>3, <2>2, <3>1
        DEF Held, Opened, IsEnclaveVault, NoSealedFile
      <3>3. \A f \in Files : under[f] # primary
        BY <1>0, <1>3, <2>2 DEF Walked, Shape, ListedAreLost
      <3>4. Custody!Destroy(primary) /\ primary \in Keys
        BY <1>0, <1>2, <2>2, <3>2, <3>3
        DEF Custody!Destroy, Typed, KeyOrNone
      <3> QED
        BY <3>4 DEF CustodyStep, Custody!CustodyNext
    <2> QED
      BY <2>1, <2>2
  <1> QED
    BY <1>2, <1>4, <1>5, <1>7, <1>8 DEF Good, VaultInv

\* The primary is added anew, with the staged key.
LEMMA RekeyAddGood ==
  ASSUME VaultInv, NEW c \in Commands, RekeyAdd(c)
  PROVE  Good(c)
  <1>0. Typed /\ Shape /\ PlaceOk(c)
    BY DEF VaultInv
  <1>1. at[c] = "rekey add"
    BY DEF RekeyAdd, Go
  <1>2. /\ marker = "rotation" /\ mem[c].new = staged /\ staged # NoKey
        /\ Walked({}) /\ primary = NoKey
    BY <1>0, <1>1 DEF PlaceOk, RekeyOk
  <1>3. "rekey verify" \in Places
    BY DEF Places, RekeyPlaces
  <1>4. Go(c, "rekey add", "rekey verify")
    BY <1>2, Zenon DEF RekeyAdd
  <1>5. /\ at'[c] = "rekey verify" /\ at' \in [Commands -> Places]
        /\ primary' = staged
        /\ UNCHANGED <<staged, sealed, next, marker, under, listed, agentKey,
                       gone, mem, bounds>>
    BY <1>0, <1>2, <1>3, <1>4, Goes DEF RekeyAdd
  <1>6. Typed'
    BY <1>0, <1>5 DEF Typed, bounds
  <1>7. Shape'
    BY <1>0, <1>2, <1>5
    DEF Shape, StagedInRotation, NextInMove, SealedAndCopy, EnvelopesOpen,
        ListedAreLost, IsEnclaveVault, Present
  <1>8. Walked({})'
    BY <1>2, <1>5 DEF Walked
  <1>9. PlaceOk(c)'
    BY <1>2, <1>5, <1>8 DEF PlaceOk, RekeyOk, MoveInOk, MoveBackOk, UseOk
  <1>10. CustodyStep
    BY <1>2, <1>5 DEF CustodyStep, Custody!custody, Held, Opened
  <1> QED
    BY <1>5, <1>6, <1>7, <1>9, <1>10 DEF Good, VaultInv

\* The primary is read back.
LEMMA RekeyVerifyGood ==
  ASSUME VaultInv, NEW c \in Commands, RekeyVerify(c)
  PROVE  Good(c)
  <1>0. Typed /\ PlaceOk(c)
    BY DEF VaultInv
  <1>1. /\ UNCHANGED <<places, marker, under, listed, agentKey, gone, bounds>>
        /\ at[c] = "rekey verify"
    BY Zenon DEF RekeyVerify, Go
  <1>2. /\ marker = "rotation" /\ mem[c].new = staged /\ staged # NoKey
        /\ Walked({}) /\ primary = staged
    BY <1>0, <1>1 DEF PlaceOk, RekeyOk
  <1>3. Go(c, "rekey verify", "rekey drop")
    BY <1>2, Zenon DEF RekeyVerify
  <1>4. "rekey drop" \in Places
    BY DEF Places, RekeyPlaces
  <1>5. at'[c] = "rekey drop" /\ at' \in [Commands -> Places]
    BY <1>0, <1>3, <1>4, Goes
  <1>6. mem' \in [Commands -> Memory]
    BY <1>0, BlankKept, Remembers DEF RekeyVerify, Forget
  <1>7. Walked({})'
    BY <1>1, <1>2 DEF Walked, places
  <1>8. PlaceOk(c)'
    BY <1>1, <1>2, <1>5, <1>7
    DEF PlaceOk, RekeyOk, MoveInOk, MoveBackOk, UseOk, places
  <1>9. Counted
    BY <1>0, <1>1, Counts
  <1> QED
    BY <1>1, <1>5, <1>6, <1>8, <1>9, QuietGood

\* The staged item goes when the primary has its key.
LEMMA RekeyDropGood ==
  ASSUME VaultInv, NEW c \in Commands, RekeyDrop(c)
  PROVE  Good(c)
  <1>0. Typed /\ Shape /\ PlaceOk(c)
    BY DEF VaultInv
  <1>1. "rekey unmark" \in Places
    BY DEF Places, RekeyPlaces
  <1>2. /\ at[c] = "rekey drop" /\ at'[c] = "rekey unmark"
        /\ at' \in [Commands -> Places] /\ staged' = NoKey
        /\ UNCHANGED <<primary, sealed, next, marker, under, listed, agentKey,
                       gone, mem, bounds>>
    BY <1>0, <1>1, Goes DEF RekeyDrop
  <1>3. marker = "rotation" /\ primary = staged
    BY <1>0, <1>2 DEF PlaceOk, RekeyOk
  <1>4. Typed'
    BY <1>0, <1>2 DEF Typed, KeyOrNone, bounds
  <1>5. Shape'
    BY <1>0, <1>2, <1>3
    DEF Shape, StagedInRotation, NextInMove, SealedAndCopy, EnvelopesOpen,
        ListedAreLost, IsEnclaveVault, Present
  <1>6. PlaceOk(c)'
    BY <1>2, <1>3 DEF PlaceOk, RekeyOk, MoveInOk, MoveBackOk, UseOk
  <1>7. CustodyStep
    BY <1>2, <1>3 DEF CustodyStep, Custody!custody, Held, Opened
  <1> QED
    BY <1>2, <1>4, <1>5, <1>6, <1>7 DEF Good, VaultInv

\* The marker goes at the end of a rotation.
LEMMA RekeyEndsGood ==
  ASSUME VaultInv, NEW c \in Commands, RekeyUnmark(c) \/ RekeyReturn(c)
  PROVE  Good(c)
  <1>0. Typed /\ Shape /\ PlaceOk(c)
    BY DEF VaultInv
  <1>1. {"rekey return", "idle"} \subseteq Places
    BY DEF Places, RekeyPlaces, OtherPlaces
  <1>2. CASE RekeyUnmark(c)
    <2>1. /\ at[c] = "rekey unmark" /\ at'[c] = "rekey return"
          /\ at' \in [Commands -> Places] /\ marker' = "none"
          /\ UNCHANGED <<places, under, listed, agentKey, gone, mem, bounds>>
      BY <1>0, <1>1, <1>2, Goes DEF RekeyUnmark
    <2>2. marker = "rotation" /\ staged = NoKey
      BY <1>0, <2>1 DEF PlaceOk, RekeyOk
    <2>3. Typed'
      BY <1>0, <2>1 DEF Typed, Markers, places, bounds
    <2>4. Shape'
      BY <1>0, <2>1, <2>2
      DEF Shape, StagedInRotation, NextInMove, SealedAndCopy, EnvelopesOpen,
          ListedAreLost, IsEnclaveVault, Present, ChosenKey, places
    <2>5. CustodyStep
      BY <2>1 DEF CustodyStep, Custody!custody, Held, Opened, places
    <2> QED
      BY <2>1, <2>3, <2>4, <2>5, Stopped DEF Good, VaultInv
  <1>3. CASE RekeyReturn(c)
    <2>1. /\ at'[c] = "idle" /\ at' \in [Commands -> Places]
          /\ agentKey' = NoKey
          /\ UNCHANGED <<places, marker, under, listed, gone, bounds>>
      BY <1>0, <1>1, <1>3, Goes DEF RekeyReturn, LockAgent
    <2>2. mem' \in [Commands -> Memory] /\ agentKey = NoKey
      BY <1>0, <1>3, BlankKept, Remembers DEF RekeyReturn, Forget, Shape
    <2>3. Counted
      BY <1>0, <2>1, Counts
    <2> QED
      BY <2>1, <2>2, <2>3, Stopped, QuietGood
  <1> QED
    BY <1>2, <1>3

\* A rotation that fails leaves what it did.
LEMMA RekeyFailsGood ==
  ASSUME VaultInv, NEW c \in Commands, RekeyFails(c)
  PROVE  Good(c)
  <1>0. Typed
    BY DEF VaultInv
  <1>1. {"rekey return", "idle"} \subseteq Places
    BY DEF Places, RekeyPlaces, OtherPlaces
  <1>2. /\ UNCHANGED <<places, marker, under, listed, agentKey, gone>>
        /\ Fails /\ Forget(c)
    BY Zenon DEF RekeyFails
  <1>3. at'[c] \in {"idle", "rekey return"} /\ at' \in [Commands -> Places]
    BY <1>0, <1>1 DEF RekeyFails, Go, Typed
  <1>4. mem' \in [Commands -> Memory]
    BY <1>0, <1>2, BlankKept, Remembers DEF Forget
  <1>5. Counted
    BY <1>0, <1>2, Counts
  <1> QED
    BY <1>2, <1>3, <1>4, <1>5, Stopped, QuietGood

\* Every step of a rotation.
LEMMA RekeyGood ==
  ASSUME OneCommand, KeysNeverRunOut, VaultInv, NEW c \in Commands, Rekey(c)
  PROVE  Good(c)
  BY RekeyBeginsGood, RekeyMarkGood, RekeyStageGood, RekeyReadGood,
     RekeyWriteGood, RekeyPromoteGood, RekeyDeleteGood, RekeyAddGood,
     RekeyVerifyGood, RekeyDropGood, RekeyEndsGood, RekeyFailsGood DEF Rekey

-------------------------------------------------------------------------------
(* The move into the enclave. *)

\* Steps of a move that change nothing outside the command, and its failures.
LEMMA InQuietGood ==
  ASSUME VaultInv, NEW c \in Commands,
         InStart(c) \/ InCheck(c) \/ CopyOpen(c) \/ InFails(c)
  PROVE  Good(c)
  <1>0. Typed /\ Shape /\ PlaceOk(c)
    BY DEF VaultInv
  <1>1. UNCHANGED <<places, marker, under, listed, agentKey, gone>>
    BY Zenon DEF InStart, InCheck, CopyOpen, InFails
  <1>2. Counted
    BY <1>0, Counts, Zenon DEF InStart, InCheck, CopyOpen, InFails
  <1>3. {"idle", "abort", "in mark", "in promote", "copy open", "copy match"}
          \subseteq Places
    BY DEF Places, InPlaces, OtherPlaces
  <1>4. Opened(sealed) \in KeyOrNone
    BY <1>0 DEF Typed, SealedFile, KeyOrNone, Opened
  <1>5. CASE InStart(c)
    <2>1. \/ /\ marker = "in" \/ (marker = "none" /\ ~IsEnclaveVault)
             /\ Go(c, "idle", "in mark")
          \/ /\ marker = "none" /\ IsEnclaveVault
             /\ Go(c, "idle", "copy open")
      BY <1>5, Zenon DEF InStart
    <2>2. \/ /\ marker = "in" \/ (marker = "none" /\ ~IsEnclaveVault)
             /\ at'[c] = "in mark"
          \/ /\ marker = "none" /\ IsEnclaveVault
             /\ at'[c] = "copy open"
      BY <1>0, <1>3, <2>1, Goes
    <2>3. at' \in [Commands -> Places] /\ mem' \in [Commands -> Memory]
      BY <1>0, <1>3, <1>5, <2>1, Goes DEF InStart, Typed
    <2>4. PlaceOk(c)'
      BY <1>1, <2>2
      DEF PlaceOk, RekeyOk, MoveInOk, MoveBackOk, UseOk, places, IsEnclaveVault
    <2> QED
      BY <1>1, <1>2, <2>3, <2>4, QuietGood
  <1>6. CASE InCheck(c)
    <2>1. at[c] = "in check"
      BY <1>6 DEF InCheck, Go
    <2>2. /\ marker = "in" /\ ~IsEnclaveVault /\ next # NoSealedFile
      BY <1>0, <2>1 DEF PlaceOk, MoveInOk
    <2>3. \E p \in {"in promote", "abort"} : Go(c, "in check", p)
      BY <1>6 DEF InCheck
    <2>4. at'[c] \in {"in promote", "abort"} /\ at' \in [Commands -> Places]
      BY <1>0, <1>3, <2>3, Goes
    <2>5. mem' \in [Commands -> Memory]
      BY <1>0, <1>6, BlankKept, Remembers DEF InCheck, Forget
    <2>6. PlaceOk(c)'
      BY <1>1, <2>2, <2>4
      DEF PlaceOk, RekeyOk, MoveInOk, MoveBackOk, UseOk, places, IsEnclaveVault
    <2> QED
      BY <1>1, <1>2, <2>4, <2>5, <2>6, QuietGood
  <1>7. CASE CopyOpen(c)
    <2>1. at[c] = "copy open"
      BY <1>7 DEF CopyOpen, Go
    <2>2. marker = "none" /\ IsEnclaveVault
      BY <1>0, <2>1 DEF PlaceOk, MoveInOk
    <2>3. \E p \in {"idle", "copy match"} : Go(c, "copy open", p)
      BY <1>7 DEF CopyOpen
    <2>4. at'[c] \in {"idle", "copy match"} /\ at' \in [Commands -> Places]
      BY <1>0, <1>3, <2>3, Goes
    <2>5. mem' \in [Commands -> Memory] /\ mem'[c].old = Opened(sealed)
      BY <1>0, <1>4, <1>7, BlankKept, Remembers DEF CopyOpen
    <2>6. PlaceOk(c)'
      BY <1>1, <2>2, <2>4, <2>5
      DEF PlaceOk, RekeyOk, MoveInOk, MoveBackOk, UseOk, places,
          IsEnclaveVault, Opened
    <2> QED
      BY <1>1, <1>2, <2>4, <2>5, <2>6, QuietGood
  <1>8. CASE InFails(c)
    <2>1. \/ at'[c] = "idle"
          \/ at'[c] = "abort" /\ at[c] \in {"in fetch", "in seal", "in check"}
      BY <1>0, <1>8 DEF InFails, Typed
    <2>2. at' \in [Commands -> Places]
      BY <1>0, <1>3, <1>8 DEF InFails, Typed
    <2>3. mem' \in [Commands -> Memory]
      BY <1>0, <1>8, BlankKept, Remembers DEF InFails, Forget
    <2>4. CASE at'[c] = "idle"
      BY <1>1, <1>2, <2>2, <2>3, <2>4, Stopped, QuietGood
    <2>5. CASE at'[c] = "abort" /\ at[c] \in {"in fetch", "in seal", "in check"}
      <3>1. marker = "in" /\ ~IsEnclaveVault
        BY <1>0, <2>5 DEF PlaceOk, MoveInOk
      <3>2. PlaceOk(c)'
        BY <1>1, <2>5, <3>1
        DEF PlaceOk, RekeyOk, MoveInOk, MoveBackOk, UseOk, places, IsEnclaveVault
      <3> QED
        BY <1>1, <1>2, <2>2, <2>3, <3>2, QuietGood
    <2> QED
      BY <2>1, <2>4, <2>5
  <1> QED
    BY <1>5, <1>6, <1>7, <1>8

\* A move in writes its marker.
LEMMA InMarkGood ==
  ASSUME VaultInv, NEW c \in Commands, InMark(c)
  PROVE  Good(c)
  <1> DEFINE p == IF IsEnclaveVault THEN "in drop" ELSE "in fetch"
  <1>0. Typed /\ Shape /\ PlaceOk(c) /\ p \in Places
    BY DEF VaultInv, Places, InPlaces
  <1>1. Go(c, "in mark", p)
    BY Zenon DEF InMark
  <1>2. /\ at[c] = "in mark" /\ at'[c] = p /\ at' \in [Commands -> Places]
        /\ marker' = "in" /\ agentKey' = NoKey
        /\ UNCHANGED <<places, under, listed, gone, mem, bounds>>
    BY <1>0, <1>1, Goes DEF InMark, LockAgent
  <1>3. marker = "in" \/ (marker = "none" /\ ~IsEnclaveVault)
    BY <1>0, <1>2 DEF PlaceOk, MoveInOk
  <1>4. Typed'
    BY <1>0, <1>2 DEF Typed, Markers, KeyOrNone, places, bounds
  <1>5. Shape'
    BY <1>0, <1>2, <1>3
    DEF Shape, StagedInRotation, NextInMove, SealedAndCopy, EnvelopesOpen,
        ListedAreLost, IsEnclaveVault, Present, ChosenKey, places
  <1>6. PlaceOk(c)'
    BY <1>2 DEF PlaceOk, RekeyOk, MoveInOk, MoveBackOk, UseOk, places,
                IsEnclaveVault
  <1>7. CustodyStep
    BY <1>2 DEF CustodyStep, Custody!custody, Held, Opened, places
  <1> QED
    BY <1>2, <1>4, <1>5, <1>6, <1>7 DEF Good, VaultInv

\* What a staged sealed file holds is the keychain's key.
LEMMA NextIsACopy ==
  ASSUME Shape
  PROVE  /\ Opened(next) \in {NoKey, primary}
         /\ next # NoSealedFile => Opened(next) = primary /\ primary # NoKey
         /\ next # NoSealedFile => sealed = NoSealedFile
         /\ Opened(NoSealedFile) = NoKey
  BY DEF Shape, NextInMove, Opened, NoSealedFile, IsEnclaveVault

\* A move in reads the key of the keychain.
LEMMA InFetchGood ==
  ASSUME VaultInv, NEW c \in Commands, InFetch(c)
  PROVE  Good(c)
  <1> DEFINE p == IF primary = NoKey THEN "abort" ELSE "in seal"
  <1>0. Typed /\ Shape /\ PlaceOk(c) /\ p \in Places /\ primary \in KeyOrNone
    BY DEF VaultInv, Typed, Places, InPlaces, OtherPlaces
  <1>1. Go(c, "in fetch", p)
    BY Zenon DEF InFetch
  <1>2. /\ at[c] = "in fetch" /\ at'[c] = p /\ at' \in [Commands -> Places]
        /\ next' = NoSealedFile
        /\ UNCHANGED <<primary, staged, sealed, marker, under, listed,
                       agentKey, gone, bounds>>
    BY <1>0, <1>1, Goes DEF InFetch
  <1>3. mem'[c].old = primary /\ mem' \in [Commands -> Memory]
    BY <1>0, BlankKept, Remembers DEF InFetch
  <1>4. marker = "in" /\ ~IsEnclaveVault
    BY <1>0, <1>2 DEF PlaceOk, MoveInOk
  <1>5. Typed'
    BY <1>0, <1>2, <1>3 DEF Typed, SealedFile, NoSealedFile, KeyOrNone, bounds
  <1>6. Shape'
    BY <1>0, <1>2
    DEF Shape, StagedInRotation, NextInMove, SealedAndCopy, EnvelopesOpen,
        ListedAreLost, IsEnclaveVault, Present, ChosenKey
  <1>7. PlaceOk(c)'
    BY <1>2, <1>3, <1>4 DEF PlaceOk, RekeyOk, MoveInOk, MoveBackOk, UseOk,
                            IsEnclaveVault
  <1>8. CustodyStep
    <2>1. Held' = Held
      BY <1>0, <1>2, NextIsACopy DEF Held, Opened
    <2> QED
      BY <1>2, <2>1 DEF CustodyStep, Custody!custody
  <1> QED
    BY <1>2, <1>5, <1>6, <1>7, <1>8 DEF Good, VaultInv

\* A move in stages the sealed file.
LEMMA InSealGood ==
  ASSUME VaultInv, NEW c \in Commands, InSeal(c)
  PROVE  Good(c)
  <1>0. Typed /\ Shape /\ PlaceOk(c)
    BY DEF VaultInv
  <1>1. "in check" \in Places
    BY DEF Places, InPlaces
  <1>2. /\ at[c] = "in seal" /\ at'[c] = "in check"
        /\ at' \in [Commands -> Places]
        /\ next' = [key |-> mem[c].old, opens |-> TRUE]
        /\ UNCHANGED <<primary, staged, sealed, marker, under, listed,
                       agentKey, gone, mem, bounds>>
    BY <1>0, <1>1, Goes DEF InSeal
  <1>3. /\ marker = "in" /\ ~IsEnclaveVault /\ next = NoSealedFile
        /\ mem[c].old = primary /\ primary # NoKey
    BY <1>0, <1>2 DEF PlaceOk, MoveInOk
  <1>4. /\ next'.key = primary /\ next'.opens = TRUE /\ next' # NoSealedFile
        /\ next' \in SealedFile
    BY <1>0, <1>2, <1>3 DEF NoSealedFile, SealedFile, Typed, KeyOrNone
  <1>5. Typed'
    BY <1>0, <1>2, <1>4 DEF Typed, bounds
  <1>6. Shape'
    BY <1>0, <1>2, <1>3, <1>4
    DEF Shape, StagedInRotation, NextInMove, SealedAndCopy, EnvelopesOpen,
        ListedAreLost, IsEnclaveVault, Present, ChosenKey
  <1>7. PlaceOk(c)'
    BY <1>2, <1>3, <1>4 DEF PlaceOk, RekeyOk, MoveInOk, MoveBackOk, UseOk,
                            IsEnclaveVault
  <1>8. CustodyStep
    <2>1. Held' = Held
      BY <1>0, <1>2, <1>3, <1>4, NextIsACopy DEF Held, Opened
    <2> QED
      BY <1>2, <2>1 DEF CustodyStep, Custody!custody
  <1> QED
    BY <1>2, <1>5, <1>6, <1>7, <1>8 DEF Good, VaultInv

\* The staged sealed file becomes the sealed file.
LEMMA InPromoteGood ==
  ASSUME VaultInv, NEW c \in Commands, InPromote(c)
  PROVE  Good(c)
  <1>0. Typed /\ Shape /\ PlaceOk(c)
    BY DEF VaultInv
  <1>1. at[c] = "in promote"
    BY DEF InPromote, Go
  <1>2. marker = "in" /\ ~IsEnclaveVault /\ next # NoSealedFile
    BY <1>0, <1>1 DEF PlaceOk, MoveInOk
  <1>3. "in drop" \in Places
    BY DEF Places, InPlaces
  <1>4. Go(c, "in promote", "in drop")
    BY <1>2, Zenon DEF InPromote
  <1>5. /\ at'[c] = "in drop" /\ at' \in [Commands -> Places]
        /\ sealed' = next /\ next' = NoSealedFile
        /\ UNCHANGED <<primary, staged, marker, under, listed, agentKey, gone,
                       mem, bounds>>
    BY <1>0, <1>2, <1>3, <1>4, Goes DEF InPromote
  <1>6. next.opens /\ next.key = primary /\ primary # NoKey
    BY <1>0, <1>2 DEF Shape, NextInMove
  <1>7. Typed'
    BY <1>0, <1>5 DEF Typed, SealedFile, NoSealedFile, KeyOrNone, bounds
  <1>8. Shape'
    BY <1>0, <1>2, <1>5, <1>6
    DEF Shape, StagedInRotation, NextInMove, SealedAndCopy, EnvelopesOpen,
        ListedAreLost, IsEnclaveVault, Present, ChosenKey
  <1>9. PlaceOk(c)'
    BY <1>2, <1>5 DEF PlaceOk, RekeyOk, MoveInOk, MoveBackOk, UseOk,
                      IsEnclaveVault
  <1>10. CustodyStep
    <2>1. Held' = Held
      BY <1>2, <1>5 DEF Held, Opened, IsEnclaveVault, NoSealedFile
    <2> QED
      BY <1>5, <2>1 DEF CustodyStep, Custody!custody
  <1> QED
    BY <1>5, <1>7, <1>8, <1>9, <1>10 DEF Good, VaultInv

\* The keychain's copy goes when the enclave opens the sealed file.
LEMMA InDropGood ==
  ASSUME VaultInv, NEW c \in Commands, InDrop(c)
  PROVE  Good(c)
  <1>0. Typed /\ Shape /\ PlaceOk(c)
    BY DEF VaultInv
  <1>1. "in finish" \in Places
    BY DEF Places, InPlaces
  <1>2. /\ at[c] = "in drop" /\ at'[c] = "in finish"
        /\ at' \in [Commands -> Places]
        /\ primary' \in {NoKey, primary}
        /\ UNCHANGED <<staged, sealed, next, marker, under, listed, agentKey,
                       gone, mem>>
    BY <1>0, <1>1, Goes DEF InDrop
  <1>3. marker = "in" /\ IsEnclaveVault
    BY <1>0, <1>2 DEF PlaceOk, MoveInOk
  <1>4. Counted
    BY <1>0, Counts, Zenon DEF InDrop
  <1>5. Typed'
    BY <1>0, <1>2, <1>4 DEF Typed, KeyOrNone, Counted
  <1>6. next = NoSealedFile /\ primary \in {NoKey, sealed.key} /\ sealed.opens
    BY <1>0, <1>3 DEF Shape, SealedAndCopy, NextInMove
  <1>7. Shape'
    BY <1>0, <1>2, <1>3, <1>6
    DEF Shape, StagedInRotation, NextInMove, SealedAndCopy, EnvelopesOpen,
        ListedAreLost, IsEnclaveVault, Present, ChosenKey
  <1>8. PlaceOk(c)'
    BY <1>2, <1>3 DEF PlaceOk, RekeyOk, MoveInOk, MoveBackOk, UseOk,
                      IsEnclaveVault
  <1>9. CustodyStep
    <2>1. Held' = Held
      BY <1>2, <1>6 DEF Held, Opened
    <2> QED
      BY <1>2, <2>1 DEF CustodyStep, Custody!custody
  <1> QED
    BY <1>2, <1>5, <1>7, <1>8, <1>9 DEF Good, VaultInv

\* The end of a move, either way, and the abort of one.
LEMMA MoveEndsGood ==
  ASSUME VaultInv, NEW c \in Commands,
         Finish(c, "in finish") \/ Finish(c, "back finish")
  PROVE  Good(c)
  <1>0. Typed /\ Shape /\ PlaceOk(c)
    BY DEF VaultInv
  <1>1. "idle" \in Places
    BY DEF Places, OtherPlaces
  <1>2. /\ at[c] \in {"in finish", "back finish"} /\ at'[c] = "idle"
        /\ at' \in [Commands -> Places] /\ marker' = "none"
        /\ agentKey' = NoKey
        /\ UNCHANGED <<places, under, listed, gone, mem, bounds>>
    BY <1>0, <1>1, Goes DEF Finish, LockAgent
  <1>3. \/ marker = "in" /\ IsEnclaveVault
        \/ marker = "back"
    BY <1>0, <1>2 DEF PlaceOk, MoveInOk, MoveBackOk
  <1>4. Typed'
    BY <1>0, <1>2 DEF Typed, Markers, KeyOrNone, places, bounds
  <1>5. Shape'
    BY <1>0, <1>2, <1>3
    DEF Shape, StagedInRotation, NextInMove, SealedAndCopy, EnvelopesOpen,
        ListedAreLost, IsEnclaveVault, Present, ChosenKey, places
  <1>6. CustodyStep
    BY <1>2 DEF CustodyStep, Custody!custody, Held, Opened, places
  <1> QED
    BY <1>2, <1>4, <1>5, <1>6, Stopped DEF Good, VaultInv

\* The abort of a move.
LEMMA AbortGood ==
  ASSUME VaultInv, NEW c \in Commands, Abort(c)
  PROVE  Good(c)
  <1>0. Typed /\ Shape /\ PlaceOk(c)
    BY DEF VaultInv
  <1>1. "idle" \in Places
    BY DEF Places, OtherPlaces
  <1>2. /\ at[c] = "abort" /\ at'[c] = "idle"
        /\ at' \in [Commands -> Places] /\ marker' = "none"
        /\ next' = NoSealedFile
        /\ UNCHANGED <<primary, staged, sealed, under, listed, agentKey, gone,
                       bounds>>
    BY <1>0, <1>1, Goes DEF Abort
  <1>3. mem' \in [Commands -> Memory]
    BY <1>0, BlankKept, Remembers DEF Abort, Forget
  <1>4. marker = "back" \/ (marker = "in" /\ ~IsEnclaveVault)
    BY <1>0, <1>2 DEF PlaceOk, MoveBackOk
  <1>5. Typed'
    BY <1>0, <1>2, <1>3
    DEF Typed, Markers, SealedFile, NoSealedFile, KeyOrNone, bounds
  <1>6. Shape'
    BY <1>0, <1>2, <1>4
    DEF Shape, StagedInRotation, NextInMove, SealedAndCopy, EnvelopesOpen,
        ListedAreLost, IsEnclaveVault, Present, ChosenKey
  <1>7. CustodyStep
    <2>1. Held' = Held
      BY <1>0, <1>2, NextIsACopy DEF Held, Opened
    <2> QED
      BY <1>2, <2>1 DEF CustodyStep, Custody!custody
  <1> QED
    BY <1>2, <1>5, <1>6, <1>7, Stopped DEF Good, VaultInv

\* removeKeychainCopy: only what the enclave just opened goes.
LEMMA CopyMatchGood ==
  ASSUME VaultInv, NEW c \in Commands, CopyMatch(c)
  PROVE  Good(c)
  <1>0. Typed /\ Shape /\ PlaceOk(c)
    BY DEF VaultInv
  <1>1. "idle" \in Places
    BY DEF Places, OtherPlaces
  <1>2. /\ at[c] = "copy match" /\ at'[c] = "idle"
        /\ at' \in [Commands -> Places]
        /\ primary' = primary \/ (primary' = NoKey /\ primary = mem[c].old)
        /\ UNCHANGED <<staged, sealed, next, marker, under, listed, agentKey,
                       gone>>
    BY <1>0, <1>1, Goes DEF CopyMatch
  <1>3. mem' \in [Commands -> Memory] /\ Counted
    BY <1>0, BlankKept, Remembers, Counts DEF CopyMatch, Forget
  <1>4. marker = "none" /\ IsEnclaveVault /\ mem[c].old = Opened(sealed)
    BY <1>0, <1>2 DEF PlaceOk, MoveInOk
  <1>5. Typed'
    BY <1>0, <1>2, <1>3 DEF Typed, KeyOrNone, Counted
  <1>6. Shape'
    BY <1>0, <1>2, <1>4
    DEF Shape, StagedInRotation, NextInMove, SealedAndCopy, EnvelopesOpen,
        ListedAreLost, IsEnclaveVault, Present, ChosenKey
  <1>7. CustodyStep
    <2>1. Held' = Held
      BY <1>2, <1>4 DEF Held, Opened
    <2> QED
      BY <1>2, <2>1 DEF CustodyStep, Custody!custody
  <1> QED
    BY <1>2, <1>5, <1>6, <1>7, Stopped DEF Good, VaultInv

\* Every step of a move in.
LEMMA MoveInGood ==
  ASSUME VaultInv, NEW c \in Commands, MoveIn(c)
  PROVE  Good(c)
  BY InQuietGood, InMarkGood, InFetchGood, InSealGood, InPromoteGood,
     InDropGood, MoveEndsGood, AbortGood, CopyMatchGood DEF MoveIn

-------------------------------------------------------------------------------
(* The move back. *)

\* Steps of a move back that change nothing outside it, and its failures.
LEMMA BackQuietGood ==
  ASSUME VaultInv, NEW c \in Commands,
         BackStart(c) \/ BackOpen(c) \/ BackFails(c)
  PROVE  Good(c)
  <1>0. Typed /\ Shape /\ PlaceOk(c)
    BY DEF VaultInv
  <1>1. UNCHANGED <<places, marker, under, listed, agentKey, gone>>
    BY Zenon DEF BackStart, BackOpen, BackFails
  <1>2. Counted
    BY <1>0, Counts, Zenon DEF BackStart, BackOpen, BackFails, bounds
  <1>3. {"idle", "abort", "back mark", "back install"} \subseteq Places
    BY DEF Places, BackPlaces, OtherPlaces
  <1>4. CASE BackStart(c)
    <2>1. /\ marker = "back" \/ (marker = "none" /\ IsEnclaveVault)
          /\ at'[c] = "back mark" /\ at' \in [Commands -> Places]
          /\ mem' \in [Commands -> Memory]
      BY <1>0, <1>3, <1>4, Goes DEF BackStart, Typed
    <2>2. PlaceOk(c)'
      BY <1>1, <2>1
      DEF PlaceOk, RekeyOk, MoveInOk, MoveBackOk, UseOk, places, IsEnclaveVault
    <2> QED
      BY <1>1, <1>2, <2>1, <2>2, QuietGood
  <1>5. CASE BackOpen(c)
    <2>1. at[c] = "back open"
      BY <1>5 DEF BackOpen, Go
    <2>2. marker = "back" /\ IsEnclaveVault /\ sealed.key # NoKey
      BY <1>0, <2>1 DEF PlaceOk, MoveBackOk, Shape, SealedAndCopy
    <2>3. Opened(sealed) \in KeyOrNone
      BY <1>0 DEF Typed, SealedFile, KeyOrNone, Opened
    <2>4. mem'[c].old = Opened(sealed) /\ mem' \in [Commands -> Memory]
      BY <1>0, <1>5, <2>3, BlankKept, Remembers DEF BackOpen
    <2>5. \/ Opened(sealed) = NoKey /\ Go(c, "back open", "abort")
          \/ Opened(sealed) # NoKey /\ Go(c, "back open", "back install")
      BY <1>5, Zenon DEF BackOpen
    <2>6. /\ \/ at'[c] = "abort"
             \/ Opened(sealed) = sealed.key /\ at'[c] = "back install"
          /\ at' \in [Commands -> Places]
      BY <1>0, <1>3, <2>5, Goes DEF Opened
    <2>7. PlaceOk(c)'
      BY <1>1, <2>2, <2>4, <2>6
      DEF PlaceOk, RekeyOk, MoveInOk, MoveBackOk, UseOk, places, IsEnclaveVault
    <2> QED
      BY <1>1, <1>2, <2>4, <2>6, <2>7, QuietGood
  <1>6. CASE BackFails(c)
    <2>1. \/ at'[c] = "idle"
          \/ at'[c] = "abort" /\ at[c] \in {"back open", "back install"}
      BY <1>0, <1>6 DEF BackFails, Typed
    <2>2. at' \in [Commands -> Places]
      BY <1>0, <1>3, <1>6 DEF BackFails, Typed
    <2>3. mem' \in [Commands -> Memory]
      BY <1>0, <1>6, BlankKept, Remembers DEF BackFails, Forget
    <2>4. CASE at'[c] = "idle"
      BY <1>1, <1>2, <2>2, <2>3, <2>4, Stopped, QuietGood
    <2>5. CASE at'[c] = "abort" /\ at[c] \in {"back open", "back install"}
      <3>1. marker = "back"
        BY <1>0, <2>5 DEF PlaceOk, MoveBackOk
      <3>2. PlaceOk(c)'
        BY <1>1, <2>5, <3>1
        DEF PlaceOk, RekeyOk, MoveInOk, MoveBackOk, UseOk
      <3> QED
        BY <1>1, <1>2, <2>2, <2>3, <3>2, QuietGood
    <2> QED
      BY <2>1, <2>4, <2>5
  <1> QED
    BY <1>4, <1>5, <1>6

\* A move back writes its marker.
LEMMA BackMarkGood ==
  ASSUME VaultInv, NEW c \in Commands, BackMark(c)
  PROVE  Good(c)
  <1> DEFINE p == IF IsEnclaveVault THEN "back open" ELSE "back delete"
  <1>0. Typed /\ Shape /\ PlaceOk(c) /\ p \in Places
    BY DEF VaultInv, Places, BackPlaces
  <1>1. Go(c, "back mark", p)
    BY Zenon DEF BackMark
  <1>2. /\ at[c] = "back mark" /\ at'[c] = p /\ at' \in [Commands -> Places]
        /\ marker' = "back" /\ agentKey' = NoKey
        /\ UNCHANGED <<places, under, listed, gone, mem, bounds>>
    BY <1>0, <1>1, Goes DEF BackMark, LockAgent
  <1>3. marker = "back" \/ (marker = "none" /\ IsEnclaveVault)
    BY <1>0, <1>2 DEF PlaceOk, MoveBackOk
  <1>4. Typed'
    BY <1>0, <1>2 DEF Typed, Markers, KeyOrNone, places, bounds
  <1>5. Shape'
    BY <1>0, <1>2, <1>3
    DEF Shape, StagedInRotation, NextInMove, SealedAndCopy, EnvelopesOpen,
        ListedAreLost, IsEnclaveVault, Present, ChosenKey, places
  <1>6. PlaceOk(c)'
    BY <1>2 DEF PlaceOk, RekeyOk, MoveInOk, MoveBackOk, UseOk, places,
                IsEnclaveVault
  <1>7. CustodyStep
    BY <1>2 DEF CustodyStep, Custody!custody, Held, Opened, places
  <1> QED
    BY <1>2, <1>4, <1>5, <1>6, <1>7 DEF Good, VaultInv

\* A move back puts the key the enclave opened in the keychain.
LEMMA BackInstallGood ==
  ASSUME VaultInv, NEW c \in Commands, BackInstall(c)
  PROVE  Good(c)
  <1>0. Typed /\ Shape /\ PlaceOk(c)
    BY DEF VaultInv
  <1>1. at[c] = "back install"
    BY DEF BackInstall, Go
  <1>2. /\ marker = "back" /\ IsEnclaveVault /\ mem[c].old = sealed.key
        /\ primary \in {NoKey, sealed.key} /\ sealed.key # NoKey
        /\ sealed.key \in Keys
    BY <1>0, <1>1 DEF PlaceOk, MoveBackOk, Shape, SealedAndCopy, Typed,
                      SealedFile, KeyOrNone
  <1>3. "back unfile" \in Places
    BY DEF Places, BackPlaces
  <1>4. Go(c, "back install", "back unfile")
    BY <1>2, Zenon DEF BackInstall
  <1>5. /\ at'[c] = "back unfile" /\ at' \in [Commands -> Places]
        /\ primary' = sealed.key
        /\ UNCHANGED <<staged, sealed, next, marker, under, listed, agentKey,
                       gone, bounds>>
    BY <1>0, <1>2, <1>3, <1>4, Goes DEF BackInstall
  <1>6. mem' \in [Commands -> Memory]
    BY <1>0, BlankKept, Remembers DEF BackInstall, Forget
  <1>7. Typed'
    BY <1>0, <1>2, <1>5, <1>6 DEF Typed, KeyOrNone, bounds
  <1>8. Shape'
    BY <1>0, <1>2, <1>5
    DEF Shape, StagedInRotation, NextInMove, SealedAndCopy, EnvelopesOpen,
        ListedAreLost, IsEnclaveVault, Present, ChosenKey
  <1>9. PlaceOk(c)'
    BY <1>2, <1>5 DEF PlaceOk, RekeyOk, MoveInOk, MoveBackOk, UseOk,
                      IsEnclaveVault
  <1>10. CustodyStep
    <2>1. CASE primary = sealed.key
      BY <1>5, <2>1 DEF CustodyStep, Custody!custody, Held, Opened
    <2>2. CASE primary = NoKey
      <3>1. Held' = Held \cup {sealed.key}
        BY <1>2, <1>5, <2>2 DEF Held, Opened
      <3>2. Custody!Make(sealed.key)
        BY <1>5, <3>1 DEF Custody!Make
      <3> QED
        BY <1>2, <3>2 DEF CustodyStep, Custody!CustodyNext
    <2> QED
      BY <1>2, <2>1, <2>2
  <1> QED
    BY <1>5, <1>7, <1>8, <1>9, <1>10 DEF Good, VaultInv

\* The sealed file goes when the keychain has its key again.
LEMMA BackUnfileGood ==
  ASSUME VaultInv, NEW c \in Commands, BackUnfile(c) \/ BackDelete(c)
  PROVE  Good(c)
  <1>0. Typed /\ Shape /\ PlaceOk(c)
    BY DEF VaultInv
  <1>1. {"back delete", "back finish"} \subseteq Places
    BY DEF Places, BackPlaces
  <1>2. CASE BackUnfile(c)
    <2>1. /\ at[c] = "back unfile" /\ at'[c] = "back delete"
          /\ at' \in [Commands -> Places] /\ sealed' = NoSealedFile
          /\ UNCHANGED <<primary, staged, next, marker, under, listed,
                         agentKey, gone, mem, bounds>>
      BY <1>0, <1>1, <1>2, Goes DEF BackUnfile
    <2>2. marker = "back" /\ IsEnclaveVault /\ primary = sealed.key
      BY <1>0, <2>1 DEF PlaceOk, MoveBackOk
    <2>3. Typed'
      BY <1>0, <2>1 DEF Typed, SealedFile, NoSealedFile, KeyOrNone, bounds
    <2>4. Shape'
      BY <1>0, <2>1, <2>2
      DEF Shape, StagedInRotation, NextInMove, SealedAndCopy, EnvelopesOpen,
          ListedAreLost, IsEnclaveVault, Present, ChosenKey, NoSealedFile
    <2>5. PlaceOk(c)'
      BY <2>1, <2>2 DEF PlaceOk, RekeyOk, MoveInOk, MoveBackOk, UseOk,
                        IsEnclaveVault
    <2>6. CustodyStep
      BY <2>1, <2>2 DEF CustodyStep, Custody!custody, Held, Opened, NoSealedFile
    <2> QED
      BY <2>1, <2>3, <2>4, <2>5, <2>6 DEF Good, VaultInv
  <1>3. CASE BackDelete(c)
    <2>1. /\ at[c] = "back delete" /\ at'[c] = "back finish"
          /\ at' \in [Commands -> Places] /\ sealed' = NoSealedFile
          /\ next' = [next EXCEPT !.opens = FALSE]
          /\ UNCHANGED <<primary, staged, marker, under, listed, agentKey,
                         gone, mem, bounds>>
      BY <1>0, <1>1, <1>3, Goes DEF BackDelete
    <2>2. marker = "back" /\ sealed = NoSealedFile /\ next = NoSealedFile
      BY <1>0, <2>1 DEF PlaceOk, MoveBackOk, IsEnclaveVault, Shape, NextInMove
    <2>3. next' = next /\ sealed' = sealed
      <3>1. sealed' = NoSealedFile
        BY <2>1, <2>2
      <3>2. next \in SealedFile /\ next.opens = FALSE
        BY <1>0, <2>2 DEF Typed, NoSealedFile
      <3>3. next' = next
        BY <2>1, <3>2 DEF SealedFile
      <3> QED
        BY <2>2, <3>1, <3>3
    <2>4. PlaceOk(c)'
      BY <2>1, <2>2, <2>3 DEF PlaceOk, RekeyOk, MoveInOk, MoveBackOk, UseOk,
                              IsEnclaveVault
    <2>5. Counted /\ mem' \in [Commands -> Memory]
      BY <1>0, <2>1, Counts DEF Typed
    <2> QED
      BY <2>1, <2>3, <2>4, <2>5, QuietGood DEF places
  <1> QED
    BY <1>2, <1>3

\* Every step of a move back.
LEMMA MoveBackGood ==
  ASSUME VaultInv, NEW c \in Commands, MoveBack(c)
  PROVE  Good(c)
  BY BackQuietGood, BackMarkGood, BackInstallGood, BackUnfileGood,
     MoveEndsGood DEF MoveBack

-------------------------------------------------------------------------------
(* Init, and the commands that seal and remove envelopes. *)

\* An init begins where there is no vault.
LEMMA InitStartGood ==
  ASSUME VaultInv, NEW c \in Commands, InitStart(c)
  PROVE  Good(c)
  <1>0. Typed /\ Shape /\ PlaceOk(c) /\ agentKey = NoKey
    BY DEF VaultInv, Shape
  <1>1. {"init key", "idle"} \subseteq Places
    BY DEF Places, OtherPlaces
  <1>2. UNCHANGED <<primary, staged, next, marker, under, gone, mem, bounds>>
    BY Zenon DEF InitStart
  <1>3. Counted /\ mem' \in [Commands -> Memory]
    BY <1>0, <1>2, Counts DEF Typed
  <1>4. CASE /\ ~IsEnclaveVault /\ primary = NoKey
             /\ Go(c, "idle", "init key")
             /\ UNCHANGED <<sealed, listed, agentKey>>
    <2>1. at'[c] = "init key" /\ at' \in [Commands -> Places]
      BY <1>0, <1>1, <1>4, Goes
    <2>2. PlaceOk(c)'
      BY <1>2, <1>4, <2>1 DEF PlaceOk, RekeyOk, MoveInOk, MoveBackOk, UseOk,
                              IsEnclaveVault
    <2> QED
      BY <1>2, <1>3, <1>4, <2>1, <2>2, QuietGood DEF places
  <1>5. CASE /\ IsEnclaveVault /\ ~sealed.opens /\ primary = NoKey
             /\ Go(c, "idle", "init key")
             /\ SetAsideLostSealedKey /\ LockAgent
    <2>1. /\ at'[c] = "init key" /\ at' \in [Commands -> Places]
          /\ sealed' = NoSealedFile /\ listed' = listed \cup Present
          /\ agentKey' = NoKey
      BY <1>0, <1>1, <1>5, Goes DEF SetAsideLostSealedKey, LockAgent
    <2>2. Typed'
      BY <1>0, <1>2, <2>1
      DEF Typed, SealedFile, NoSealedFile, KeyOrNone, bounds, Present
    <2>3. staged = NoKey /\ marker # "rotation" /\ sealed.key # NoKey
          /\ next = NoSealedFile
      BY <1>0, <1>5 DEF Shape, SealedAndCopy, StagedInRotation, NextInMove
    <2>4. ListedAreLost'
      BY <1>0, <1>2, <1>5, <2>1, <2>3
      DEF ListedAreLost, Shape, Present, NoSealedFile
    <2>5. Shape'
      BY <1>0, <1>2, <1>5, <2>1, <2>3, <2>4
      DEF Shape, StagedInRotation, NextInMove, SealedAndCopy, EnvelopesOpen,
          IsEnclaveVault, Present
    <2>6. PlaceOk(c)'
      BY <1>2, <1>5, <2>1 DEF PlaceOk, RekeyOk, MoveInOk, MoveBackOk, UseOk,
                              IsEnclaveVault
    <2>7. CustodyStep
      BY <1>2, <1>5, <2>1 DEF CustodyStep, Custody!custody, Held, Opened,
                              NoSealedFile
    <2> QED
      BY <1>2, <2>2, <2>5, <2>6, <2>7 DEF Good, VaultInv
  <1>6. CASE /\ IsEnclaveVault /\ ~sealed.opens /\ LeftoverOpensAll
             /\ Go(c, "idle", "idle")
             /\ sealed' = NoSealedFile /\ LockAgent
             /\ UNCHANGED listed
    <2>1. /\ at'[c] = "idle" /\ at' \in [Commands -> Places]
          /\ sealed' = NoSealedFile /\ listed' = listed /\ agentKey' = NoKey
      BY <1>0, <1>1, <1>6, Goes DEF LockAgent
    <2>2. Typed'
      BY <1>0, <1>2, <2>1 DEF Typed, SealedFile, NoSealedFile, KeyOrNone, bounds
    <2>3. staged = NoKey /\ marker # "rotation" /\ next = NoSealedFile
          /\ \A f \in Present : under[f] = primary
      BY <1>0, <1>6 DEF Shape, SealedAndCopy, StagedInRotation, NextInMove,
                        LeftoverOpensAll
    <2>4. Shape'
      BY <1>0, <1>2, <2>1, <2>3
      DEF Shape, StagedInRotation, NextInMove, SealedAndCopy, EnvelopesOpen,
          ListedAreLost, IsEnclaveVault, Present, ChosenKey, NoSealedFile, Typed
    <2>5. CustodyStep
      BY <1>2, <1>6, <2>1 DEF CustodyStep, Custody!custody, Held, Opened,
                              NoSealedFile
    <2> QED
      BY <1>2, <2>1, <2>2, <2>4, <2>5, Stopped DEF Good, VaultInv
  <1> QED
    BY <1>4, <1>5, <1>6, Zenon DEF InitStart

\* An init adds a fresh key.
LEMMA InitKeyGood ==
  ASSUME OneCommand, KeysNeverRunOut, VaultInv, NEW c \in Commands, InitKey(c)
  PROVE  Good(c)
  <1>0. Typed /\ Shape /\ PlaceOk(c)
    BY DEF VaultInv
  <1>1. "idle" \in Places
    BY DEF Places, OtherPlaces
  <1>2. /\ at[c] = "init key" /\ at'[c] = "idle"
        /\ at' \in [Commands -> Places] /\ agentKey' = NoKey
        /\ UNCHANGED <<staged, sealed, next, marker, under, listed, gone, mem,
                       bounds>>
    BY <1>0, <1>1, Goes DEF InitKey, LockAgent
  <1>3. ~IsEnclaveVault /\ primary = NoKey /\ next = NoSealedFile
    BY <1>0, <1>2 DEF PlaceOk, UseOk, Shape, NextInMove
  <1>4. /\ primary' \in Keys /\ primary' # NoKey
        /\ \A f \in Files : under[f] # primary'
    BY <1>3, FreshKey, NoneIsNone DEF InitKey
  <1>5. Typed'
    BY <1>0, <1>2, <1>4 DEF Typed, KeyOrNone, bounds
  <1>6. ListedAreLost'
    BY <1>0, <1>2, <1>4 DEF Shape, ListedAreLost, Typed
  <1>7. Shape'
    BY <1>0, <1>2, <1>3, <1>4, <1>6
    DEF Shape, StagedInRotation, NextInMove, SealedAndCopy, EnvelopesOpen,
        IsEnclaveVault, Present, ChosenKey
  <1>8. CustodyStep
    <2>1. Held' = Held \cup {primary'}
      BY <1>2, <1>3, <1>4 DEF Held, Opened
    <2>2. Custody!Make(primary')
      BY <1>2, <2>1 DEF Custody!Make
    <2> QED
      BY <1>4, <2>2 DEF CustodyStep, Custody!CustodyNext
  <1> QED
    BY <1>2, <1>5, <1>7, <1>8, Stopped DEF Good, VaultInv

\* A command fetches the key of the vault.
LEMMA FetchGood ==
  ASSUME VaultInv, NEW c \in Commands, WriteStart(c) \/ WriteFetch(c)
  PROVE  Good(c)
  <1>0. Typed /\ Shape /\ PlaceOk(c)
    BY DEF VaultInv
  <1>1. UNCHANGED <<places, marker, under, listed, agentKey, gone, bounds>>
    BY Zenon DEF WriteStart, WriteFetch
  <1>2. Counted
    BY <1>0, <1>1, Counts
  <1>3. {"idle", "write", "write keychain", "write enclave"} \subseteq Places
    BY DEF Places, OtherPlaces
  <1>4. CASE WriteStart(c)
    <2>1. /\ marker = "none" /\ mem' \in [Commands -> Memory]
          /\ \/ IsEnclaveVault /\ Go(c, "idle", "write enclave")
             \/ ~IsEnclaveVault /\ Go(c, "idle", "write keychain")
      BY <1>0, <1>4, Zenon DEF WriteStart, Typed
    <2>2. /\ \/ IsEnclaveVault /\ at'[c] = "write enclave"
             \/ ~IsEnclaveVault /\ at'[c] = "write keychain"
          /\ at' \in [Commands -> Places]
      BY <1>0, <1>3, <2>1, Goes
    <2>3. PlaceOk(c)'
      BY <1>1, <2>1, <2>2
      DEF PlaceOk, RekeyOk, MoveInOk, MoveBackOk, UseOk, places, IsEnclaveVault
    <2> QED
      BY <1>1, <1>2, <2>1, <2>2, <2>3, QuietGood
  <1>5. CASE WriteFetch(c)
    <2> DEFINE key == IF at[c] = "write keychain" THEN primary ELSE Opened(sealed)
    <2>1. /\ at[c] \in {"write keychain", "write enclave"}
          /\ at' = [at EXCEPT ![c] = IF key = NoKey THEN "idle" ELSE "write"]
          /\ Remember(c, [Blank EXCEPT !.old = key])
      BY <1>5, Zenon DEF WriteFetch
    <2>2. /\ marker = "none"
          /\ at[c] = "write keychain" => ~IsEnclaveVault
          /\ at[c] = "write enclave" => IsEnclaveVault
      BY <1>0, <2>1 DEF PlaceOk, UseOk
    <2>3. key \in KeyOrNone
      BY <1>0 DEF Typed, SealedFile, KeyOrNone, Opened
    <2>4. key = NoKey \/ (key = ChosenKey /\ key \in Held)
      BY <2>1, <2>2 DEF ChosenKey, Opened, Held
    <2> HIDE DEF key
    <2>5. mem'[c].old = key /\ mem' \in [Commands -> Memory]
      BY <1>0, <2>1, <2>3, BlankKept, Remembers
    <2>6. /\ at' \in [Commands -> Places]
          /\ at'[c] = "idle" \/ (key # NoKey /\ at'[c] = "write")
      BY <1>0, <1>3, <2>1 DEF Typed
    <2>7. (ChosenKey' = ChosenKey) /\ (Held' = Held)
      BY <1>1 DEF ChosenKey, Held, Opened, IsEnclaveVault, places
    <2>8. PlaceOk(c)'
      BY <1>1, <2>2, <2>4, <2>5, <2>6, <2>7
      DEF PlaceOk, RekeyOk, MoveInOk, MoveBackOk, UseOk
    <2> QED
      BY <1>1, <1>2, <2>5, <2>6, <2>8, QuietGood
  <1> QED
    BY <1>4, <1>5

\* A command seals an envelope under the key it fetched.
LEMMA WriteGood ==
  ASSUME VaultInv, NEW c \in Commands, NEW g \in Files, Write(c, g)
  PROVE  Good(c)
  <1> DEFINE k == mem[c].old
  <1>0. Typed /\ Shape /\ PlaceOk(c) /\ mem[c] \in Memory
    BY DEF VaultInv, Typed
  <1>1. "idle" \in Places
    BY DEF Places, OtherPlaces
  <1>2. /\ at[c] = "write" /\ at'[c] = "idle" /\ at' \in [Commands -> Places]
        /\ under' = [under EXCEPT ![g] = k] /\ listed' = listed \ {g}
        /\ UNCHANGED <<places, marker, agentKey, gone, bounds>>
    BY <1>0, <1>1, Goes DEF Write
  <1>3. /\ marker = "none" /\ k # NoKey /\ k = ChosenKey /\ k \in Held
        /\ k \in Keys
    BY <1>0, <1>2 DEF PlaceOk, UseOk, Memory, KeyOrNone
  <1>4. mem' \in [Commands -> Memory]
    BY <1>0, BlankKept, Remembers DEF Write, Forget
  <1>5. /\ under' \in [Files -> KeyOrNone] /\ under'[g] = k
        /\ \A f \in Files \ {g} : under'[f] = under[f]
    BY <1>0, <1>2, <1>3 DEF Typed, KeyOrNone
  <1>6. Typed'
    BY <1>0, <1>2, <1>4, <1>5 DEF Typed, places, bounds
  <1>7. ChosenKey' = ChosenKey /\ Held' = Held
    BY <1>2 DEF ChosenKey, Held, Opened, IsEnclaveVault, places
  <1>8. EnvelopesOpen'
    BY <1>0, <1>2, <1>3, <1>5, <1>7 DEF Shape, EnvelopesOpen, Present
  <1>9. ListedAreLost'
    BY <1>0, <1>2, <1>5 DEF Shape, ListedAreLost, places, Typed
  <1>10. Shape'
    BY <1>0, <1>2, <1>8, <1>9
    DEF Shape, StagedInRotation, NextInMove, SealedAndCopy, IsEnclaveVault,
        places
  <1>11. CustodyStep
    <2>1. Custody!Seal(g, k)
      BY <1>2, <1>3, <1>7 DEF Custody!Seal
    <2> QED
      BY <1>3, <2>1 DEF CustodyStep, Custody!CustodyNext
  <1> QED
    BY <1>2, <1>6, <1>10, <1>11, Stopped DEF Good, VaultInv

\* A command removes an envelope.
LEMMA RemoveFileGood ==
  ASSUME VaultInv, NEW c \in Commands, NEW g \in Files, RemoveFile(c, g)
  PROVE  Good(c)
  <1>0. Typed /\ Shape
    BY DEF VaultInv
  <1>1. /\ at'[c] = "idle"
        /\ under' = [under EXCEPT ![g] = NoKey] /\ listed' = listed \ {g}
        /\ UNCHANGED <<places, marker, agentKey, gone, at, mem, bounds>>
    BY DEF RemoveFile
  <1>2. /\ under' \in [Files -> KeyOrNone] /\ under'[g] = NoKey
        /\ \A f \in Files \ {g} : under'[f] = under[f]
    BY <1>0, <1>1 DEF Typed, KeyOrNone
  <1>3. Typed'
    BY <1>0, <1>1, <1>2 DEF Typed, places, bounds
  <1>4. ChosenKey' = ChosenKey /\ Held' = Held
    BY <1>1 DEF ChosenKey, Held, Opened, IsEnclaveVault, places
  <1>5. EnvelopesOpen'
    BY <1>0, <1>1, <1>2, <1>4 DEF Shape, EnvelopesOpen, Present, places
  <1>6. ListedAreLost'
    BY <1>0, <1>1, <1>2 DEF Shape, ListedAreLost, places, Typed
  <1>7. Shape'
    BY <1>0, <1>1, <1>5, <1>6
    DEF Shape, StagedInRotation, NextInMove, SealedAndCopy, IsEnclaveVault,
        places
  <1>8. CustodyStep
    <2>1. Custody!Delete(g)
      BY <1>1, <1>4 DEF Custody!Delete
    <2> QED
      BY <2>1 DEF CustodyStep, Custody!CustodyNext
  <1> QED
    BY <1>1, <1>3, <1>7, <1>8, Stopped DEF Good, VaultInv

\* A command that is killed leaves what it did.
LEMMA CrashGood ==
  ASSUME VaultInv, NEW c \in Commands, Crash(c)
  PROVE  Good(c)
  <1>0. Typed
    BY DEF VaultInv
  <1>1. "idle" \in Places
    BY DEF Places, OtherPlaces
  <1>2. /\ UNCHANGED <<places, marker, under, listed, agentKey, gone>>
        /\ at'[c] = "idle" /\ at' \in [Commands -> Places]
    BY <1>0, <1>1 DEF Crash, Typed
  <1>3. mem' \in [Commands -> Memory]
    BY <1>0, BlankKept, Remembers DEF Crash, Forget
  <1>4. Counted
    BY <1>0 DEF Crash, Typed, Counted
  <1> QED
    BY <1>2, <1>3, <1>4, Stopped, QuietGood

-------------------------------------------------------------------------------
(* Every step. *)

\* Every step of the command.
LEMMA CommandGood ==
  ASSUME OneCommand, KeysNeverRunOut, VaultInv,
         NEW c \in Commands, Step(c) \/ Crash(c)
  PROVE  Good(c)
  <1>1. CASE Use(c)
    BY <1>1, InitStartGood, InitKeyGood, FetchGood, WriteGood, RemoveFileGood
    DEF Use
  <1> QED
    BY <1>1, RekeyGood, MoveInGood, MoveBackGood, CrashGood DEF Step

\* The hardware loses what it alone had; nobody is at work.
LEMMA LossKeeps ==
  ASSUME VaultInv, marker = "none", EnclaveLoss
  PROVE  /\ Typed' /\ Shape' /\ CustodyStep /\ IsFiniteSet(gone)'
         /\ \A c \in Commands : PlaceOk(c)'
  <1> DEFINE taken == {Opened(sealed), Opened(next)} \ {NoKey, primary, staged}
  <1>0. Typed /\ Shape /\ next = NoSealedFile
    BY DEF VaultInv, Shape, NextInMove
  <1>1. /\ losses' = losses + 1
        /\ \A c \in Commands : at[c] = "idle"
        /\ sealed' = [sealed EXCEPT !.opens = FALSE]
        /\ next' = [next EXCEPT !.opens = FALSE]
        /\ gone' = gone \cup taken
        /\ UNCHANGED <<primary, staged, marker, under, listed, agentKey, at,
                       mem, crashes, faults>>
    BY DEF EnclaveLoss
  <1>2. /\ next' = next
        /\ sealed' \in SealedFile /\ sealed'.key = sealed.key
        /\ sealed'.opens = FALSE
        /\ sealed = NoSealedFile => sealed' = NoSealedFile
        /\ sealed # NoSealedFile => sealed.key # NoKey
    BY <1>0, <1>1 DEF NoSealedFile, Typed, SealedFile, Shape, SealedAndCopy,
                      IsEnclaveVault
  <1>3. IsEnclaveVault' <=> IsEnclaveVault
    BY <1>2 DEF IsEnclaveVault, NoSealedFile
  <1>4. taken \subseteq Keys
    BY <1>0 DEF Typed, SealedFile, KeyOrNone, Opened
  <1>5. Typed'
    <2>1. gone' \subseteq Keys /\ losses' \in Nat
      BY <1>0, <1>1, <1>4 DEF Typed
    <2>2. next' \in SealedFile
      BY <1>0, <1>2 DEF Typed
    <2>3. at' = at /\ mem' = mem
      BY <1>1
    <2> QED
      BY <1>0, <1>1, <1>2, <2>1, <2>2, <2>3 DEF Typed
  <1>6. Shape'
    BY <1>0, <1>1, <1>2, <1>3
    DEF Shape, StagedInRotation, NextInMove, SealedAndCopy, EnvelopesOpen,
        ListedAreLost, Present, ChosenKey
  <1>7. CustodyStep
    <2>1. taken \in SUBSET Held
      BY DEF Held
    <2>2. Held' = Held \ taken
      BY <1>1, <1>2 DEF Held, Opened
    <2>3. Custody!Disaster(taken)
      BY <1>1, <2>2 DEF Custody!Disaster
    <2> QED
      BY <2>1, <2>3 DEF CustodyStep, Custody!CustodyNext
  <1>8. IsFiniteSet(gone)'
    <2>1. taken \subseteq {Opened(sealed), Opened(next)}
      OBVIOUS
    <2>2. IsFiniteSet({Opened(sealed)} \cup {Opened(next)})
      BY FS_Singleton, FS_AddElement
    <2>3. taken \in SUBSET ({Opened(sealed)} \cup {Opened(next)})
      BY <2>1
    <2> HIDE DEF taken
    <2>4. IsFiniteSet(taken)
      BY <2>2, <2>3, FS_Subset
    <2> QED
      BY <1>1, <2>4, FS_Union DEF VaultInv
  <1>9. \A c \in Commands : PlaceOk(c)'
    BY <1>1, Stopped
  <1> QED
    BY <1>5, <1>6, <1>7, <1>8, <1>9

\* Every step keeps the invariant and is a step of KeyCustody.
LEMMA NextKeeps ==
  ASSUME OneCommand, KeysNeverRunOut, VaultInv, [Next]_vars
  PROVE  VaultInv' /\ CustodyStep
  <1>1. /\ Typed' /\ Shape' /\ CustodyStep /\ IsFiniteSet(gone)'
        /\ \A c \in Commands : PlaceOk(c)'
    <2>1. ASSUME NEW c \in Commands, Step(c) \/ Crash(c)
          PROVE  /\ Typed' /\ Shape' /\ CustodyStep /\ IsFiniteSet(gone)'
                 /\ \A d \in Commands : PlaceOk(d)'
      <3>1. Good(c)
        BY <2>1, CommandGood
      <3>2. \A d \in Commands : d = c
        BY DEF OneCommand
      <3> QED
        BY <3>1, <3>2, Zenon DEF Good
    <2>2. CASE marker = "none" /\ EnclaveLoss
      BY <2>2, LossKeeps
    <2>3. CASE UNCHANGED vars
      <3>1. UNCHANGED <<places, marker, under, listed, agentKey, gone, at, mem,
                        bounds>>
        BY <2>3 DEF vars
      <3>2. ASSUME NEW c \in Commands PROVE Good(c)
        <4>1. PlaceOk(c)'
          BY <3>1
          DEF VaultInv, PlaceOk, RekeyOk, MoveInOk, MoveBackOk, UseOk, places,
              Walked, IsEnclaveVault, Opened, ChosenKey, Held
        <4>2. Counted
          BY <3>1, Counts DEF VaultInv
        <4> QED
          BY <3>1, <4>1, <4>2, QuietGood DEF VaultInv, Typed
      <3>3. Typed'
        BY <3>1 DEF VaultInv, Typed, places, bounds
      <3>4. Shape'
        BY <3>1
        DEF VaultInv, Shape, StagedInRotation, NextInMove, SealedAndCopy,
            EnvelopesOpen, ListedAreLost, IsEnclaveVault, Present, ChosenKey,
            places
      <3>5. CustodyStep
        BY <3>1 DEF CustodyStep, Custody!custody, Held, Opened, places
      <3> QED
        BY <3>1, <3>2, <3>3, <3>4, <3>5 DEF Good, VaultInv
    <2> QED
      BY <2>1, <2>2, <2>3, Zenon DEF Next
  <1>2. InCustody'
    <2>1. /\ InCustody /\ under \in [Files -> KeyOrNone]
      BY DEF VaultInv, Typed
    <2>2. CASE UNCHANGED Custody!custody
      BY <2>1, <2>2 DEF InCustody, Custody!InCustody, Custody!custody
    <2>3. CASE Custody!CustodyNext
      BY <2>1, <2>3
      DEF InCustody, Custody!InCustody, Custody!CustodyNext, Custody!Make,
          Custody!Seal, Custody!Delete, Custody!Destroy, Custody!Disaster
    <2> QED
      BY <1>1, <2>2, <2>3 DEF CustodyStep
  <1> QED
    BY <1>1, <1>2 DEF VaultInv

\* The invariant of VaultKey.
LEMMA VaultInvAlways ==
  ASSUME OneCommand, KeysNeverRunOut
  PROVE  Spec => []VaultInv
  <1>1. VaultInv /\ [Next]_vars => VaultInv'
    BY NextKeeps
  <1> QED
    BY <1>1, InitVault, PTL DEF Spec

-------------------------------------------------------------------------------
(* Theorems. *)

\* Rotation, moves and init, with whatever kills and failures and however
\* often they are taken up again, only ever make a key, seal an envelope under
\* one that is held, destroy one no envelope is under, or suffer a loss of the
\* hardware (vaultmove.go, vaultrekey.go, keychainwrap/rekey.go).
THEOREM VaultKeyImplementsCustody ==
  ASSUME \A c, d \in Commands : c = d, ~IsFiniteSet(Keys)
  PROVE  Spec => CustodySpec
  <1>0. OneCommand /\ KeysNeverRunOut
    BY DEF OneCommand, KeysNeverRunOut
  <1>1. Init => Custody!CustodyInit
    BY DEF Init, Custody!CustodyInit, Held, KeyOrNone, NoSealedFile, Opened
  <1>2. VaultInv /\ [Next]_vars => [Custody!CustodyNext]_Custody!custody
    BY <1>0, NextKeeps DEF CustodyStep
  <1>3. Spec => []VaultInv
    BY <1>0, VaultInvAlways
  <1> QED
    BY <1>1, <1>2, <1>3, PTL DEF Spec, CustodySpec, Custody!CustodySpec

\* No envelope is ever under a key a command destroyed.
THEOREM VaultKeyInCustody ==
  ASSUME \A c, d \in Commands : c = d, ~IsFiniteSet(Keys)
  PROVE  Spec => []InCustody
  <1>0. OneCommand /\ KeysNeverRunOut
    BY DEF OneCommand, KeysNeverRunOut
  <1>1. Spec => []VaultInv
    BY <1>0, VaultInvAlways
  <1>2. VaultInv => InCustody
    BY DEF VaultInv
  <1> QED
    BY <1>1, <1>2, PTL

\* A vault without a marker opens: the store keystore.Open chooses has the key
\* of every envelope that no lost key's record lists (vaultrekey.go:29), and
\* at every step the key places, envelopes and commands are of their types.
THEOREM VaultKeyOpens ==
  ASSUME \A c, d \in Commands : c = d, ~IsFiniteSet(Keys)
  PROVE  Spec => []VaultOpens
  <1>0. OneCommand /\ KeysNeverRunOut
    BY DEF OneCommand, KeysNeverRunOut
  <1>1. Spec => []VaultInv
    BY <1>0, VaultInvAlways
  <1>2. VaultInv => VaultOpens
    <2> SUFFICES ASSUME VaultInv PROVE VaultOpens
      OBVIOUS
    <2>1. UnmarkedVaultOpens
      BY DEF VaultInv, Shape, EnvelopesOpen, UnmarkedVaultOpens
    <2>2. ASSUME NEW c \in Commands
          PROVE  /\ at[c] \in {"write", "in seal", "in check", "back install"}
                      => mem[c].old # NoKey
                 /\ at[c] \in {"rekey walk", "rekey write", "rekey delete",
                               "rekey add", "rekey verify"}
                      => mem[c].new # NoKey
                 /\ at[c] = "rekey write" => mem[c].file \in mem[c].todo
      BY DEF VaultInv, PlaceOk, RekeyOk, MoveInOk, MoveBackOk, UseOk, Shape,
             SealedAndCopy
    <2>3. TypeOK
      BY <2>2 DEF VaultInv, Typed, TypeOK
    <2> QED
      BY <2>1, <2>3 DEF VaultOpens
  <1> QED
    BY <1>1, <1>2, PTL

-------------------------------------------------------------------------------
(* What a vault gets from keeping the promise of KeyCustody, by whatever steps. *)

\* under is a function on the envelopes: without it, nothing would be known
\* of an envelope sealed anew.
CustodyInv ==
    /\ under = [f \in Files |-> under[f]]
    /\ Custody!InCustody

\* A step of the promise, whichever it is, leaves every envelope under a key
\* that some place holds or that the hardware lost (vault/rekey.go,
\* cli/vaultrekey.go, cli/vaultmove.go).
LEMMA CustodyKept == CustodyInv /\ CustodyStep => CustodyInv'
  <1> SUFFICES ASSUME CustodyInv, CustodyStep
               PROVE  CustodyInv'
    OBVIOUS
  <1> USE DEF CustodyInv, Custody!InCustody
  <1>1. ASSUME NEW k \in Keys, Custody!Make(k)
        PROVE  CustodyInv'
    BY <1>1 DEF Custody!Make
  <1>2. ASSUME NEW k \in Keys, Custody!Destroy(k)
        PROVE  CustodyInv'
    BY <1>2 DEF Custody!Destroy
  <1>3. ASSUME NEW f \in Files, Custody!Delete(f)
        PROVE  CustodyInv'
    BY <1>3 DEF Custody!Delete
  <1>4. ASSUME NEW f \in Files, NEW k \in Keys, Custody!Seal(f, k)
        PROVE  CustodyInv'
    BY <1>4 DEF Custody!Seal
  <1>5. ASSUME NEW taken \in SUBSET Held, Custody!Disaster(taken)
        PROVE  CustodyInv'
    BY <1>5 DEF Custody!Disaster
  <1>6. CASE UNCHANGED Custody!custody
    BY <1>6 DEF Custody!custody
  <1> QED
    BY <1>1, <1>2, <1>3, <1>4, <1>5, <1>6 DEF CustodyStep, Custody!CustodyNext

\* Whatever keeps the promise never has an envelope under a key a program
\* destroyed: the only key an envelope can lose is one the hardware lost
\* (vaultrekey.go, vaultmove.go).
THEOREM CustodyKeepsEveryEnvelope == CustodySpec => []InCustody
  <1>1. Custody!CustodyInit => CustodyInv
    BY DEF Custody!CustodyInit, CustodyInv, Custody!InCustody
  <1>2. CustodyInv /\ [Custody!CustodyNext]_Custody!custody => CustodyInv'
    BY CustodyKept DEF CustodyStep
  <1>3. CustodyInv => InCustody
    BY DEF CustodyInv, InCustody
  <1> QED
    BY <1>1, <1>2, <1>3, PTL DEF CustodySpec, Custody!CustodySpec

-------------------------------------------------------------------------------

OneProcess == \A c, d \in Processes : c = d

\* v is the newest version.
NewestIs(v) == clock - 1 \in Archived /\ history[clock - 1] = v

SetKnows(c) ==
    /\ stage[c] = "set archive" => clock \in Stamps
    /\ stage[c] \in {"set archive", "set prune", "set drop", "set write"} =>
          knows[c].old = live /\ knows[c].new \in Versions
    /\ stage[c] \in {"set prune", "set drop"} => live # None
    /\ stage[c] \in {"set prune", "set drop", "set write"} /\ live # None => NewestIs(live)

RestoreKnows(c) ==
    /\ stage[c] = "restore archive" => clock \in Stamps
    /\ stage[c] \in {"restore archive", "restore rename"} => knows[c].from \in Archived
    /\ stage[c] = "restore rename" /\ live # None => knows[c].from < clock - 1 /\ NewestIs(live)

\* What a prune still has to drop has HistoryKeep newer versions that stay;
\* those that stay are no more than that, but for what it could not look at or
\* not remove.
DroppedAreOld(c) ==
    LET kept == Prunable \ knows[c].doomed
    IN /\ Cardinality(kept) <= HistoryKeep + kills + fails
       /\ ~knows[c].missed => Cardinality(kept) <= HistoryKeep
       /\ \A s \in knows[c].doomed :
             s \in Prunable /\ Cardinality({t \in kept : t > s}) >= HistoryKeep
DropKnows(c) == stage[c] \in {"set drop", "restore drop"} => DroppedAreOld(c)

\* The version a set or a restore adds before its prune.
Unpruned == {"set prune", "set drop", "restore rename", "restore prune", "restore drop"}
RoomCounted ==
    /\ Cardinality(Prunable) <= HistoryKeep + kills + fails + 1
    /\ (\A c \in Processes : stage[c] \notin Unpruned) =>
          Cardinality(Prunable) <= HistoryKeep + kills + fails

FilesTyped ==
    /\ live \in VersionOrNone
    /\ lost \subseteq Versions /\ recorded \subseteq lost /\ upTo \in 0 .. MaxStamp + 1
    /\ Archived \subseteq Stamps /\ \A s \in Archived : history[s] \in Versions /\ s < clock
    /\ clock \in 1 .. MaxStamp + 1 /\ steps = 0
    /\ kills \in 0 .. MaxKills /\ fails \in 0 .. MaxFails
HistoryTyped ==
    /\ FilesTyped
    /\ stage \in [Processes -> Stages] /\ knows \in [Processes -> Knowledge]

HistoryInv ==
    /\ HistoryTyped
    /\ \A c \in Processes : SetKnows(c) /\ RestoreKnows(c) /\ DropKnows(c)
    /\ RoomCounted
-------------------------------------------------------------------------------
(* What a prune keeps. *)

\* A set of naturals that is not empty has a least element.
LEMMA LeastNatural ==
    ASSUME NEW T \in SUBSET Nat, T # {}
    PROVE  \E x \in T : \A y \in T : x <= y
<1> DEFINE R == {p \in Nat \X Nat : p[1] < p[2]}
<1>1. IsWellFoundedOn(OpToRel(<,Nat), Nat)
    BY NatLessThanWellFounded
<1>2. R = OpToRel(<,Nat)
    BY DEF OpToRel
<1>3. PICK x \in T : \A y \in T : ~(<<y, x>> \in R)
  <2> HIDE DEF R
  <2> QED BY <1>1, <1>2, WFMin
<1>4. \A y \in T : ~(y < x)
    BY <1>3
<1> QED BY <1>3, <1>4

\* One that is bounded has a greatest element.
LEMMA GreatestNatural ==
    ASSUME NEW n \in Nat, NEW T \in SUBSET (1 .. n), T # {}
    PROVE  \E x \in T : \A y \in T : x >= y
<1> DEFINE U == {n + 1 - y : y \in T}
<1>1. U \in SUBSET Nat /\ U # {}
  <2>1. PICK y \in T : TRUE
      OBVIOUS
  <2>2. n + 1 - y \in U
      OBVIOUS
  <2>3. \A z \in T : n + 1 - z \in Nat
      OBVIOUS
  <2> QED BY <2>2, <2>3
<1>2. PICK z \in U : \A u \in U : z <= u
  <2> HIDE DEF U
  <2> QED BY <1>1, LeastNatural
<1>3. PICK x \in T : z = n + 1 - x
    BY <1>2
<1>4. \A y \in T : n + 1 - x <= n + 1 - y
    BY <1>2, <1>3
<1> QED BY <1>4

\* The greatest element is the maximum.
LEMMA MaxIs ==
    ASSUME NEW T \in SUBSET Nat, NEW x \in T, \A y \in T : x >= y
    PROVE  Max(T) = x
<1>1. \A y \in T : (\A z \in T : y >= z) => y = x
    OBVIOUS
<1> QED BY <1>1 DEF Max

\* Histories are finite, and so are their parts.
LEMMA StampsAreFinite ==
    ASSUME NEW T \in SUBSET Stamps
    PROVE  IsFiniteSet(T) /\ Cardinality(T) \in Nat
<1>1. IsFiniteSet(Stamps)
    BY FS_Interval, HistoryBoundsAreNaturals DEF Stamps
<1> QED BY <1>1, FS_Subset, FS_CardinalityType

\* A set of stamps has no more of them than one it is part of.
LEMMA FewerStamps ==
    ASSUME NEW T \in SUBSET Stamps, NEW U \in SUBSET T
    PROVE  Cardinality(U) <= Cardinality(T)
<1>1. IsFiniteSet(T)
    BY StampsAreFinite
<1> QED BY <1>1, FS_Subset

\* What is not too old is no more than there is room for, ...
LEMMA KeptFits ==
    ASSUME NEW P \in SUBSET Stamps
    PROVE  Cardinality(P \ TooOld(P)) <= HistoryKeep
<1> DEFINE kept == P \ TooOld(P)
<1>1. kept \in SUBSET Stamps /\ kept \in SUBSET Nat /\ P \in SUBSET Stamps
  <2>1. Stamps \subseteq Nat
      BY DEF Stamps
  <2> QED BY <2>1
<1>2. CASE kept = {}
    BY <1>2, FS_EmptySet, KeepAssumption
<1>3. CASE kept # {}
  <2>1. PICK m \in kept : \A y \in kept : m <= y
    <3> HIDE DEF kept
    <3> QED BY <1>1, <1>3, LeastNatural
  <2> DEFINE newer == {t \in P : t > m}
  <2>2. newer \in SUBSET Stamps
      BY <1>1
  <2>3. IsFiniteSet(newer) /\ Cardinality(newer) \in Nat
      BY <2>2, StampsAreFinite
  <2>4. Cardinality(newer) < HistoryKeep
      BY <2>1, <2>3, KeepAssumption DEF TooOld
  <2>5. m \in Stamps /\ newer \cup {m} \in SUBSET Stamps
      BY <1>1, <2>1, <2>2
  <2>6. kept \subseteq newer \cup {m}
      BY <1>1, <2>1
  <2>7. Cardinality(newer \cup {m}) <= Cardinality(newer) + 1
    <3> HIDE DEF newer
    <3>1. Cardinality(newer \cup {m})
              = IF m \in newer THEN Cardinality(newer) ELSE Cardinality(newer) + 1
        BY <2>3, FS_AddElement, Zenon
    <3> QED BY <2>3, <3>1
  <2>8. Cardinality(kept) <= Cardinality(newer \cup {m})
    <3> HIDE DEF newer, kept
    <3> QED BY <2>5, <2>6, FewerStamps
  <2>9. Cardinality(kept) \in Nat /\ Cardinality(newer \cup {m}) \in Nat
      BY <1>1, <2>5, StampsAreFinite
  <2> HIDE DEF kept, newer
  <2> QED BY <2>3, <2>4, <2>7, <2>8, <2>9, KeepAssumption DEF kept
<1> QED BY <1>2, <1>3

\* ... and what is too old has as many newer versions that are not.
LEMMA KeptAreNewer ==
    ASSUME NEW P \in SUBSET Stamps, NEW s \in TooOld(P)
    PROVE  Cardinality({t \in P \ TooOld(P) : t > s}) >= HistoryKeep
<1>1. P \in SUBSET Stamps /\ TooOld(P) \in SUBSET (1 .. MaxStamp) /\ TooOld(P) # {}
    BY DEF TooOld, Stamps
<1>2. PICK m \in TooOld(P) : \A y \in TooOld(P) : m >= y
    BY <1>1, GreatestNatural, HistoryBoundsAreNaturals
<1> DEFINE newest == {t \in P : t > m}
           newer == {t \in P \ TooOld(P) : t > s}
<1>3. Cardinality(newest) >= HistoryKeep
    BY <1>2 DEF TooOld
<1>4. newest \subseteq newer
  <2> SUFFICES ASSUME NEW t \in P, t > m
               PROVE  t \notin TooOld(P) /\ t > s
      OBVIOUS
  <2>1. m \in Nat /\ s \in Nat /\ t \in Nat /\ m >= s
      BY <1>1, <1>2 DEF Stamps
  <2>2. t \in TooOld(P) => m >= t
      BY <1>2
  <2> QED BY <2>1, <2>2
<1>5. newer \in SUBSET Stamps /\ newest \in SUBSET Stamps
    BY <1>1
<1>6. Cardinality(newest) <= Cardinality(newer)
  <2> HIDE DEF newest, newer
  <2> QED BY <1>4, <1>5, FewerStamps
<1>7. Cardinality(newer) \in Nat /\ Cardinality(newest) \in Nat
    BY <1>5, StampsAreFinite
<1> HIDE DEF newest, newer
<1> QED BY <1>3, <1>6, <1>7, KeepAssumption DEF newer

-------------------------------------------------------------------------------
(* What the steps do to the files and to what a command knows. *)

\* One version more, and it is the newest.
LEMMA Archiving ==
    ASSUME FilesTyped, clock \in Stamps, NEW v, Archive(v)
    PROVE  /\ clock \notin Archived /\ clock' = clock + 1 /\ clock' - 1 = clock
           /\ Archived' = Archived \cup {clock} /\ history'[clock] = v
           /\ \A s \in Archived : s \in Nat /\ s < clock /\ history'[s] = history[s]
<1>1. \A s \in Archived : s \in Nat /\ s < clock
    BY DEF FilesTyped, Stamps
<1>2. clock \in Nat
    BY DEF Stamps
<1>3. Archived' = Archived \cup {clock} /\ history'[clock] = v
    BY DEF Archive, Archived
<1>4. \A s \in Archived : history'[s] = history[s]
    BY <1>1, <1>2 DEF Archive, Archived
<1> QED BY <1>1, <1>2, <1>3, <1>4 DEF Archive

\* One version less.
LEMMA RemovingSecret ==
    ASSUME NEW s, history' = Without(s)
    PROVE  Archived' = Archived \ {s} /\ \A t \in Archived' : history'[t] = history[t]
    BY DEF Without, Restrict, Archived

\* What takes a place is finitely many stamps.
LEMMA PrunableStamps ==
    ASSUME FilesTyped
    PROVE  /\ Prunable \in SUBSET Stamps /\ IsFiniteSet(Prunable) /\ Cardinality(Prunable) \in Nat
           /\ \A U \in SUBSET Prunable : Cardinality(U) \in Nat /\ Cardinality(U) <= Cardinality(Prunable)
<1>1. Prunable \in SUBSET Stamps
    BY DEF Prunable, FilesTyped
<1>2. \A U \in SUBSET Prunable : U \in SUBSET Stamps
    BY <1>1
<1> QED BY <1>1, <1>2, StampsAreFinite, FewerStamps

\* The clock, the kills, the failures and the places are counted in naturals.
LEMMA Numbers ==
    ASSUME FilesTyped
    PROVE  /\ clock \in Nat /\ kills \in Nat /\ fails \in Nat /\ Cardinality(Prunable) \in Nat
           /\ \A s \in Archived : s \in Nat /\ s < clock
<1>1. clock \in Nat /\ kills \in Nat /\ fails \in Nat
    BY HistoryBoundsAreNaturals DEF FilesTyped
<1>2. \A s \in Archived : s \in Nat /\ s < clock
    BY DEF FilesTyped, Stamps
<1> QED BY <1>1, <1>2, PrunableStamps

\* A step from one stage to another.
LEMMA Turns ==
    ASSUME HistoryTyped, NEW c \in Processes, NEW from, NEW to \in Stages, Turn(c, from, to)
    PROVE  stage[c] = from /\ stage'[c] = to /\ stage' \in [Processes -> Stages]
    BY DEF HistoryTyped, Turn

\* What a process knows after it learnt m.
LEMMA Learns ==
    ASSUME HistoryTyped, NEW c \in Processes, NEW m \in Knowledge, Learn(c, m)
    PROVE  knows'[c] = m /\ knows' \in [Processes -> Knowledge]
    BY DEF HistoryTyped, Learn

\* A process that knows nothing.
LEMMA NothingIsKnowledge == KnowsNothing \in Knowledge
    BY HistoryBoundsAreNaturals DEF KnowsNothing, Knowledge, VersionOrNone

\* What it found too old and what it missed, of all it knows.
LEMMA KnowsOfPrune ==
    ASSUME NEW m \in Knowledge, NEW D \in SUBSET Stamps
    PROVE  /\ [m EXCEPT !.doomed = D] \in Knowledge
           /\ [m EXCEPT !.doomed = D].doomed = D
           /\ [m EXCEPT !.doomed = D].missed = m.missed
           /\ [m EXCEPT !.doomed = D].old = m.old /\ [m EXCEPT !.doomed = D].new = m.new
           /\ [m EXCEPT !.doomed = D, !.missed = TRUE] \in Knowledge
           /\ [m EXCEPT !.doomed = D, !.missed = TRUE].doomed = D
           /\ [m EXCEPT !.doomed = D, !.missed = TRUE].missed
           /\ [m EXCEPT !.doomed = D, !.missed = TRUE].old = m.old
           /\ [m EXCEPT !.doomed = D, !.missed = TRUE].new = m.new
    BY DEF Knowledge

-------------------------------------------------------------------------------
(* One step of one command after another. *)

\* What a step of command c owes the invariant.
Owed(c) == HistoryTyped' /\ (SetKnows(c) /\ RestoreKnows(c) /\ DropKnows(c))' /\ RoomCounted'

\* A single command counts for itself.
LEMMA CountsForItself ==
    ASSUME OneProcess, NEW c \in Processes
    PROVE  /\ RoomCounted <=> /\ Cardinality(Prunable) <= HistoryKeep + kills + fails + 1
                              /\ stage[c] \notin Unpruned =>
                                    Cardinality(Prunable) <= HistoryKeep + kills + fails
           /\ RoomCounted' <=> /\ Cardinality(Prunable') <= HistoryKeep + kills' + fails' + 1
                               /\ stage'[c] \notin Unpruned =>
                                     Cardinality(Prunable') <= HistoryKeep + kills' + fails'
<1>1. (\A d \in Processes : stage[d] \notin Unpruned) <=> stage[c] \notin Unpruned
    BY DEF OneProcess
<1>2. (\A d \in Processes : stage'[d] \notin Unpruned) <=> stage'[c] \notin Unpruned
    BY DEF OneProcess
<1>3. Unpruned' = Unpruned
    BY DEF Unpruned
<1> QED BY <1>1, <1>2, <1>3, Zenon DEF RoomCounted

\* Room for one version more, when a kill or a failure is counted.
LEMMA OneMore ==
    ASSUME NEW n \in Nat, NEW k \in Nat, NEW f \in Nat, NEW k1 \in Nat, NEW f1 \in Nat
    PROVE  /\ n <= HistoryKeep + k + f => n <= HistoryKeep + k + f + 1
           /\ n <= HistoryKeep => n <= HistoryKeep + k + f
           /\ k1 + f1 = k + f + 1 /\ n <= HistoryKeep + k + f + 1 => n <= HistoryKeep + k1 + f1
           /\ k1 + f1 = k + f + 1 /\ n <= HistoryKeep + k + f => n + 1 <= HistoryKeep + k1 + f1
           /\ HistoryKeep + k1 + f1 \in Nat
<1>1. HistoryKeep \in Nat
    BY KeepAssumption
<1> QED BY <1>1

\* Steps that move no file and not the clock.
LEMMA HistoryStays ==
    ASSUME HistoryInv, UNCHANGED <<live, history, lost, recorded, upTo, clock, kills, steps>>,
           fails' = fails \/ Fail,
           stage' \in [Processes -> Stages], knows' \in [Processes -> Knowledge]
    PROVE  HistoryTyped' /\ Prunable' = Prunable /\ Archived' = Archived
<1>1. Archived' = Archived /\ Prunable' = Prunable
    BY DEF Archived, Prunable, ProvenLost, PresumedLost
<1>2. fails' \in 0 .. MaxFails
    BY HistoryBoundsAreNaturals DEF HistoryInv, HistoryTyped, FilesTyped, Fail
<1> QED BY <1>1, <1>2 DEF HistoryInv, HistoryTyped, FilesTyped

\* A set reads the live version.
LEMMA SetReads ==
    ASSUME OneProcess, HistoryInv, NEW c \in Processes, NEW v \in Versions, SetRead(c, v)
    PROVE  Owed(c)
<1> DEFINE m == [KnowsNothing EXCEPT !.old = live, !.new = v]
<1>1. m \in Knowledge /\ m.old = live /\ m.new = v
  <2>1. live \in VersionOrNone /\ v \in VersionOrNone
      BY DEF VersionOrNone, HistoryInv, HistoryTyped, FilesTyped
  <2> QED BY <2>1, NothingIsKnowledge DEF Knowledge
<1>2. Learn(c, m) /\ Turn(c, "idle", "set archive") /\ clock \in Stamps
    BY DEF SetRead
<1> HIDE DEF m
<1>3. knows'[c] = m /\ knows' \in [Processes -> Knowledge]
    BY <1>1, <1>2, Learns DEF HistoryInv
<1>4. stage[c] = "idle" /\ stage'[c] = "set archive" /\ stage' \in [Processes -> Stages]
    BY <1>2, Turns DEF HistoryInv, Stages
<1>5. UNCHANGED <<live, history, lost, recorded, upTo, clock, kills, fails, steps>>
    BY DEF SetRead, files, sealing, limits
<1>6. HistoryTyped' /\ Prunable' = Prunable
    BY <1>3, <1>4, <1>5, HistoryStays
<1>7. RoomCounted'
    BY <1>4, <1>5, <1>6, CountsForItself DEF HistoryInv, Unpruned
<1>8. (SetKnows(c) /\ RestoreKnows(c) /\ DropKnows(c))'
    BY <1>1, <1>2, <1>3, <1>4, <1>5 DEF SetKnows, RestoreKnows, DropKnows
<1> QED BY <1>6, <1>7, <1>8 DEF Owed

\* A refused prompt, a prune that has nothing left to drop, a kill: the files
\* stay, the next command starts from there.
LEMMA Returns ==
    ASSUME OneProcess, HistoryInv, NEW c \in Processes,
           stage'[c] = "idle",
           stage' \in [Processes -> Stages], knows' \in [Processes -> Knowledge],
           UNCHANGED <<live, history, lost, recorded, upTo, clock, kills, fails, steps>>,
           stage[c] \in Unpruned => Cardinality(Prunable) <= HistoryKeep + kills + fails
    PROVE  Owed(c)
<1>1. HistoryTyped' /\ Prunable' = Prunable
    BY HistoryStays
<1>2. Cardinality(Prunable) \in Nat /\ kills \in Nat /\ fails \in Nat
    BY Numbers DEF HistoryInv, HistoryTyped
<1>3. Cardinality(Prunable) <= HistoryKeep + kills + fails
    BY <1>2, CountsForItself, KeepAssumption DEF HistoryInv
<1>4. RoomCounted'
    BY <1>1, <1>2, <1>3, CountsForItself, KeepAssumption
<1>5. (SetKnows(c) /\ RestoreKnows(c) /\ DropKnows(c))'
    BY DEF SetKnows, RestoreKnows, DropKnows
<1> QED BY <1>1, <1>4, <1>5 DEF Owed

\* What stops a command, or fails it, allows for one version more.
LEMMA StopsShort ==
    ASSUME OneProcess, HistoryInv, NEW c \in Processes,
           stage'[c] = "idle",
           stage' \in [Processes -> Stages], knows' \in [Processes -> Knowledge],
           UNCHANGED <<live, history, lost, recorded, upTo, clock, steps>>,
           \/ kills < MaxKills /\ kills' = kills + 1 /\ fails' = fails
           \/ Fail /\ kills' = kills
    PROVE  Owed(c)
<1>1. Prunable' = Prunable /\ Archived' = Archived
    BY DEF Prunable, ProvenLost, PresumedLost, Archived
<1>2. kills' \in 0 .. MaxKills /\ fails' \in 0 .. MaxFails
    BY HistoryBoundsAreNaturals DEF HistoryInv, HistoryTyped, FilesTyped, Fail
<1>3. HistoryTyped'
    BY <1>1, <1>2 DEF HistoryInv, HistoryTyped, FilesTyped
<1>4. RoomCounted'
  <2>1. Cardinality(Prunable) <= HistoryKeep + kills + fails + 1
      BY DEF HistoryInv, RoomCounted
  <2>2. kills \in Nat /\ fails \in Nat /\ Cardinality(Prunable) \in Nat
      BY Numbers DEF HistoryInv, HistoryTyped
  <2>3. kills' + fails' = kills + fails + 1 /\ kills' \in Nat /\ fails' \in Nat
      BY <2>2 DEF Fail
  <2>4. /\ Cardinality(Prunable') <= HistoryKeep + kills' + fails'
        /\ Cardinality(Prunable') <= HistoryKeep + kills' + fails' + 1
    <3>1. Cardinality(Prunable) <= HistoryKeep + kills' + fails'
        BY <2>1, <2>2, <2>3, OneMore
    <3>2. Cardinality(Prunable) <= HistoryKeep + kills' + fails' + 1
        BY <2>2, <2>3, <3>1, OneMore
    <3> QED BY <1>1, <3>1, <3>2
  <2> QED BY <2>4, CountsForItself
<1>5. (SetKnows(c) /\ RestoreKnows(c) /\ DropKnows(c))'
    BY DEF SetKnows, RestoreKnows, DropKnows
<1> QED BY <1>3, <1>4, <1>5 DEF Owed

\* A set that is refused, or whose write fails, and a restore that could not
\* archive: the files stay.
LEMMA StopsBefore ==
    ASSUME OneProcess, HistoryInv, NEW c \in Processes, SetFails(c) \/ RestoreStops(c)
    PROVE  Owed(c)
<1>1. /\ stage[c] \in {"set archive", "set write", "restore archive"} /\ stage'[c] = "idle"
      /\ stage' \in [Processes -> Stages]
  <2>1. CASE SetFails(c)
      BY <2>1, Turns DEF SetFails, HistoryInv, Stages
  <2>2. CASE RestoreStops(c)
      BY <2>2, Turns DEF RestoreStops, HistoryInv, Stages
  <2> QED BY <2>1, <2>2
<1>2. knows' \in [Processes -> Knowledge]
    BY Learns, NothingIsKnowledge DEF SetFails, RestoreStops, HistoryInv
<1>3. UNCHANGED <<live, history, lost, recorded, upTo, clock, kills, fails, steps>>
    BY DEF SetFails, RestoreStops, files, sealing, limits
<1> QED BY <1>1, <1>2, <1>3, Returns DEF Unpruned

\* A prune that could list nothing, and a rename that failed.
LEMMA FailsUnpruned ==
    ASSUME OneProcess, HistoryInv, NEW c \in Processes,
           \/ PruneFails(c, "set prune") \/ PruneFails(c, "restore prune")
           \/ RestoreRenameFails(c)
    PROVE  Owed(c)
<1>1. stage'[c] = "idle" /\ stage' \in [Processes -> Stages]
  <2>1. CASE PruneFails(c, "set prune")
      BY <2>1, Turns DEF PruneFails, HistoryInv, Stages
  <2>2. CASE PruneFails(c, "restore prune")
      BY <2>2, Turns DEF PruneFails, HistoryInv, Stages
  <2>3. CASE RestoreRenameFails(c)
      BY <2>3, Turns DEF RestoreRenameFails, HistoryInv, Stages
  <2> QED BY <2>1, <2>2, <2>3
<1>2. knows' \in [Processes -> Knowledge]
    BY Learns, NothingIsKnowledge DEF PruneFails, RestoreRenameFails, HistoryInv
<1>3. UNCHANGED <<live, history, lost, recorded, upTo, clock, kills, steps>>
    BY DEF PruneFails, RestoreRenameFails, files, sealing
<1>4. Fail
  <2>1. CASE PruneFails(c, "set prune") \/ PruneFails(c, "restore prune")
      BY <2>1 DEF PruneFails
  <2>2. CASE RestoreRenameFails(c)
    <3>1. knows[c].from \in Archived
        BY <2>2 DEF RestoreRenameFails, Turn, HistoryInv, RestoreKnows
    <3> QED BY <2>2, <3>1 DEF RestoreRenameFails
  <2> QED BY <2>1, <2>2
<1> QED BY <1>1, <1>2, <1>3, <1>4, StopsShort

\* The value that is about to be replaced becomes the newest version.
LEMMA ArchivesOne ==
    ASSUME OneProcess, HistoryInv, NEW c \in Processes, stage[c] \notin Unpruned,
           clock \in Stamps, live # None, Archive(live),
           UNCHANGED <<live, lost, recorded, upTo, knows, kills, fails, steps>>, stage' \in [Processes -> Stages]
    PROVE  /\ HistoryTyped' /\ NewestIs(live)' /\ Cardinality(Prunable') <= HistoryKeep + kills + fails + 1
           /\ \A s \in Archived : s \in Archived' /\ s < clock' - 1
<1>0. FilesTyped /\ live \in Versions
    BY DEF HistoryInv, HistoryTyped, FilesTyped, VersionOrNone
<1>1. /\ clock \notin Archived /\ clock' = clock + 1 /\ clock' - 1 = clock
      /\ Archived' = Archived \cup {clock} /\ history'[clock] = live
      /\ \A s \in Archived : s \in Nat /\ s < clock /\ history'[s] = history[s]
    BY <1>0, Archiving
<1>2. HistoryTyped'
  <2>1. clock \in 1 .. MaxStamp /\ MaxStamp \in Nat
      BY HistoryBoundsAreNaturals DEF Stamps
  <2>2. clock' \in 1 .. MaxStamp + 1
      BY <1>1, <2>1
  <2>3. Archived' \subseteq Stamps'
      BY <1>0, <1>1 DEF FilesTyped, Stamps
  <2>4. \A s \in Archived' : history'[s] \in Versions /\ s < clock'
      BY <1>0, <1>1, <2>1 DEF FilesTyped
  <2> QED BY <2>2, <2>3, <2>4 DEF HistoryInv, HistoryTyped, FilesTyped
<1>3. Prunable' \subseteq Prunable \cup {clock}
    BY <1>1 DEF Prunable, ProvenLost, PresumedLost
<1>4. Cardinality(Prunable') <= HistoryKeep + kills + fails + 1
  <2>1. Cardinality(Prunable \cup {clock}) <= Cardinality(Prunable) + 1
      BY <1>0, PrunableStamps, FS_AddElement
  <2>2. Prunable \cup {clock} \in SUBSET Stamps
      BY <1>0, PrunableStamps
  <2>3. Prunable' \in SUBSET Stamps
      BY <1>3, <2>2
  <2>4. Cardinality(Prunable') <= Cardinality(Prunable \cup {clock})
      BY <1>3, <2>2, FewerStamps
  <2>5. Cardinality(Prunable') \in Nat /\ Cardinality(Prunable \cup {clock}) \in Nat
      BY <2>2, <2>3, StampsAreFinite
  <2>6. Cardinality(Prunable) <= HistoryKeep + kills + fails
      BY CountsForItself DEF HistoryInv
  <2> QED BY <1>0, <2>1, <2>4, <2>5, <2>6, Numbers, KeepAssumption
<1>5. NewestIs(live)' /\ \A s \in Archived : s \in Archived' /\ s < clock' - 1
    BY <1>1 DEF NewestIs
<1> QED BY <1>2, <1>4, <1>5

\* What a set archives is the live version, and becomes the newest.
LEMMA SetArchives ==
    ASSUME OneProcess, HistoryInv, NEW c \in Processes, SetArchive(c)
    PROVE  Owed(c)
<1>1. /\ stage[c] = "set archive" /\ clock \in Stamps
      /\ knows[c].old = live /\ knows[c].new \in Versions
    BY DEF SetArchive, Turn, HistoryInv, SetKnows
<1>2. UNCHANGED <<live, lost, recorded, upTo, knows, kills, fails, steps>>
    BY DEF SetArchive, sealing, limits
<1>3. stage[c] \notin Unpruned
    BY <1>1 DEF Unpruned
<1>4. CASE live = None
  <2>1. stage'[c] = "set write" /\ stage' \in [Processes -> Stages]
      BY <1>1, <1>4, Turns DEF SetArchive, HistoryInv, Stages
  <2>2. UNCHANGED <<history, clock>>
      BY <1>1, <1>4 DEF SetArchive
  <2>3. HistoryTyped' /\ Prunable' = Prunable
      BY <1>2, <2>1, <2>2, HistoryStays DEF HistoryInv, HistoryTyped
  <2>4. RoomCounted'
      BY <1>2, <1>3, <2>3, CountsForItself DEF HistoryInv
  <2>5. (SetKnows(c) /\ RestoreKnows(c) /\ DropKnows(c))'
      BY <1>1, <1>2, <1>4, <2>1 DEF SetKnows, RestoreKnows, DropKnows
  <2> QED BY <2>3, <2>4, <2>5 DEF Owed
<1>5. CASE live # None
  <2>1. stage'[c] = "set prune" /\ stage' \in [Processes -> Stages]
      BY <1>1, <1>5, Turns DEF SetArchive, HistoryInv, Stages
  <2>2. Archive(live)
      BY <1>1, <1>5 DEF SetArchive
  <2>3. HistoryTyped' /\ NewestIs(live)' /\ Cardinality(Prunable') <= HistoryKeep + kills + fails + 1
      BY <1>1, <1>2, <1>3, <1>5, <2>1, <2>2, ArchivesOne
  <2>4. stage'[c] \in Unpruned
      BY <2>1 DEF Unpruned
  <2>5. RoomCounted'
      BY <1>2, <2>3, <2>4, CountsForItself
  <2>6. (SetKnows(c) /\ RestoreKnows(c) /\ DropKnows(c))'
      BY <1>1, <1>2, <1>5, <2>1, <2>3 DEF SetKnows, RestoreKnows, DropKnows
  <2> QED BY <2>3, <2>5, <2>6 DEF Owed
<1> QED BY <1>4, <1>5

\* The stages of a prune, of a set or of a restore.
Dropping(c) == stage[c] \in {"set drop", "restore drop"}
PruneStages(from, to) ==
    \/ from = "set prune" /\ to = "set drop"
    \/ from = "restore prune" /\ to = "restore drop"

\* A prune of a set or of a restore, of all that takes a place or of what it
\* could look at.
LEMMA Prunes ==
    ASSUME OneProcess, HistoryInv, NEW c \in Processes, NEW from, NEW to,
           PruneStages(from, to),
           Prune(c, from, to) \/ PruneBlind(c, from, to)
    PROVE  Owed(c)
<1>0. FilesTyped /\ knows[c] \in Knowledge
    BY DEF HistoryInv, HistoryTyped
<1>1. stage[c] = from /\ stage'[c] = to /\ stage' \in [Processes -> Stages]
  <2>1. Turn(c, from, to) /\ to \in Stages
      BY DEF Prune, PruneBlind, PruneStages, Stages
  <2> QED BY <2>1, Turns DEF HistoryInv
<1>2. UNCHANGED <<live, history, lost, recorded, upTo, clock, kills, steps>>
    BY DEF Prune, PruneBlind, files, sealing, limits
<1>3. \E P \in SUBSET Prunable, m \in Knowledge :
         /\ Learn(c, m) /\ m.doomed = TooOld(P)
         /\ m.old = knows[c].old /\ m.new = knows[c].new
         /\ \/ P = Prunable /\ fails' = fails
            \/ m.missed /\ Fail
  <2>1. ASSUME NEW P \in SUBSET Prunable
        PROVE  TooOld(P) \in SUBSET Stamps
      BY <1>0, PrunableStamps DEF TooOld
  <2>2. CASE Prune(c, from, to)
    <3> DEFINE m == [knows[c] EXCEPT !.doomed = TooOld(Prunable)]
    <3>1. /\ m \in Knowledge /\ m.doomed = TooOld(Prunable)
          /\ m.old = knows[c].old /\ m.new = knows[c].new
        BY <1>0, <2>1, KnowsOfPrune
    <3>2. Learn(c, m) /\ fails' = fails
        BY <2>2 DEF Prune, limits
    <3> HIDE DEF m
    <3> QED BY <3>1, <3>2
  <2>3. CASE PruneBlind(c, from, to)
    <3>1. PICK U : Learn(c, [knows[c] EXCEPT !.doomed = TooOld(Prunable \ U), !.missed = TRUE])
        BY <2>3 DEF PruneBlind
    <3> DEFINE P == Prunable \ U
               m == [knows[c] EXCEPT !.doomed = TooOld(P), !.missed = TRUE]
    <3>2. P \in SUBSET Prunable
        OBVIOUS
    <3>3. /\ m \in Knowledge /\ m.doomed = TooOld(P) /\ m.missed
          /\ m.old = knows[c].old /\ m.new = knows[c].new
        BY <1>0, <2>1, <3>2, KnowsOfPrune
    <3>4. Learn(c, m) /\ Fail
        BY <2>3, <3>1 DEF PruneBlind
    <3> HIDE DEF m, P
    <3> QED BY <3>2, <3>3, <3>4
  <2> QED BY <2>2, <2>3
<1>4. PICK P \in SUBSET Prunable, m \in Knowledge :
         /\ Learn(c, m) /\ m.doomed = TooOld(P)
         /\ m.old = knows[c].old /\ m.new = knows[c].new
         /\ \/ P = Prunable /\ fails' = fails
            \/ m.missed /\ Fail
    BY <1>3
<1>5. knows'[c] = m /\ knows' \in [Processes -> Knowledge]
    BY <1>4, Learns DEF HistoryInv
<1>6. HistoryTyped' /\ Prunable' = Prunable /\ Archived' = Archived
    BY <1>1, <1>2, <1>4, <1>5, HistoryStays
<1>7. /\ Cardinality(Prunable) <= HistoryKeep + kills + fails + 1
      /\ kills \in Nat /\ fails \in Nat /\ Cardinality(Prunable) \in Nat
      /\ fails' = fails \/ fails' = fails + 1
    BY <1>0, <1>4, Numbers DEF HistoryInv, RoomCounted, Fail
<1>8. RoomCounted'
  <2>1. Cardinality(Prunable') <= HistoryKeep + kills' + fails' + 1
    <3>1. kills' = kills /\ Prunable' = Prunable
        BY <1>2, <1>6
    <3>2. CASE fails' = fails
        BY <1>7, <3>1, <3>2
    <3>3. CASE fails' = fails + 1
      <4>1. kills' + fails' = kills + fails + 1 /\ kills' \in Nat /\ fails' \in Nat
          BY <1>7, <3>1, <3>3
      <4>2. Cardinality(Prunable) <= HistoryKeep + kills' + fails'
          BY <1>7, <4>1, OneMore
      <4> QED BY <1>7, <3>1, <4>1, <4>2, OneMore
    <3> QED BY <1>7, <3>2, <3>3
  <2>2. stage'[c] \in Unpruned
      BY <1>1 DEF PruneStages, Unpruned
  <2> QED BY <2>1, <2>2, CountsForItself
<1>9. SetKnows(c)' /\ RestoreKnows(c)'
    BY <1>1, <1>2, <1>4, <1>5, <1>6 DEF PruneStages, SetKnows, RestoreKnows, NewestIs, HistoryInv
<1>10. DropKnows(c)'
  <2> DEFINE kept == Prunable \ TooOld(P)
  <2>1. P \in SUBSET Stamps /\ TooOld(P) \in SUBSET P /\ kept \in SUBSET Prunable
      BY <1>0, PrunableStamps DEF TooOld
  <2>2. kept \in SUBSET Stamps /\ Cardinality(kept) <= Cardinality(Prunable)
        /\ Cardinality(kept) \in Nat
      BY <1>0, <2>1, PrunableStamps
  <2>3. P = Prunable => Cardinality(kept) <= HistoryKeep
      BY <2>1, KeptFits
  <2>4. ASSUME NEW s \in TooOld(P)
        PROVE  s \in Prunable /\ Cardinality({t \in kept : t > s}) >= HistoryKeep
    <3>1. Cardinality({t \in P \ TooOld(P) : t > s}) >= HistoryKeep
        BY <2>1, KeptAreNewer
    <3>2. {t \in kept : t > s} \in SUBSET Stamps
        BY <2>2
    <3>3. {t \in P \ TooOld(P) : t > s} \in SUBSET {t \in kept : t > s}
        BY <2>1
    <3>4. Cardinality({t \in P \ TooOld(P) : t > s}) <= Cardinality({t \in kept : t > s})
        BY <3>2, <3>3, FewerStamps
    <3>5. /\ Cardinality({t \in P \ TooOld(P) : t > s}) \in Nat
          /\ Cardinality({t \in kept : t > s}) \in Nat
        BY <3>2, <3>3, StampsAreFinite
    <3>6. Cardinality({t \in kept : t > s}) >= HistoryKeep
      <4> DEFINE a == Cardinality({t \in P \ TooOld(P) : t > s})
                 b == Cardinality({t \in kept : t > s})
      <4>1. a >= HistoryKeep /\ a <= b /\ a \in Nat /\ b \in Nat
          BY <3>1, <3>4, <3>5
      <4> HIDE DEF a, b
      <4>2. b >= HistoryKeep
          BY <4>1, KeepAssumption
      <4> QED BY <4>2 DEF b
    <3> QED BY <2>1, <3>6
  <2> HIDE DEF kept
  <2>5. ~m.missed => Cardinality(kept) <= HistoryKeep
      BY <1>4, <2>3
  <2>6. Cardinality(kept) <= HistoryKeep + kills' + fails'
    <3>1. CASE P = Prunable
      <4>1. Cardinality(kept) <= HistoryKeep /\ kills' \in Nat /\ fails' \in Nat
          BY <1>2, <1>7, <2>3, <3>1
      <4> QED BY <2>2, <4>1, OneMore
    <3>2. CASE P # Prunable
      <4>1. fails' = fails + 1
          BY <1>4, <3>2 DEF Fail
      <4>2. kills' + fails' = kills + fails + 1 /\ kills' \in Nat /\ fails' \in Nat
          BY <1>2, <1>7, <4>1
      <4>3. Cardinality(Prunable) <= HistoryKeep + kills' + fails'
          BY <1>7, <4>2, OneMore
      <4>4. HistoryKeep + kills' + fails' \in Nat
          BY <1>7, <4>2, OneMore
      <4> QED BY <1>7, <2>2, <4>3, <4>4
    <3> QED BY <3>1, <3>2
  <2>7. knows'[c].doomed = TooOld(P) /\ knows'[c].missed = m.missed
      BY <1>4, <1>5
  <2>8. Prunable' \ knows'[c].doomed = kept
      BY <1>6, <2>7 DEF kept
  <2>9. DroppedAreOld(c)'
      BY <1>6, <2>4, <2>5, <2>6, <2>7, <2>8, Zenon DEF DroppedAreOld
  <2> QED BY <2>9, Zenon DEF DropKnows
<1> QED BY <1>6, <1>8, <1>9, <1>10 DEF Owed

\* One of the versions a prune found too old is removed.
LEMMA DropsOne ==
    ASSUME HistoryInv, NEW c \in Processes, NEW s, NEW from,
           DroppedAreOld(c), Drop(c, from, s)
    PROVE  /\ stage'[c] = stage[c] /\ stage' \in [Processes -> Stages]
           /\ UNCHANGED <<live, lost, recorded, upTo, clock, kills, fails, steps>>
           /\ HistoryTyped' /\ DroppedAreOld(c)' /\ Prunable' = Prunable \ {s}
           /\ Cardinality(Prunable') <= HistoryKeep + kills' + fails' + 1
           /\ NewestIs(live) => NewestIs(live)'
           /\ knows'[c].old = knows[c].old /\ knows'[c].new = knows[c].new
           /\ s \in Prunable /\ Cardinality({t \in Prunable : t > s}) >= HistoryKeep
<1>0. FilesTyped
    BY DEF HistoryInv, HistoryTyped
<1>1. stage'[c] = stage[c] /\ stage' \in [Processes -> Stages]
  <2>1. stage[c] = from /\ stage[c] \in Stages
      BY DEF Drop, Turn, HistoryInv, HistoryTyped
  <2> QED BY <2>1, Turns DEF Drop, HistoryInv
<1>2. UNCHANGED <<live, lost, recorded, upTo, clock, kills, fails, steps>>
    BY DEF Drop, sealing, limits
<1>3. Archived' = Archived \ {s} /\ \A t \in Archived' : history'[t] = history[t]
    BY RemovingSecret DEF Drop
<1> DEFINE D == knows[c].doomed
           m == [knows[c] EXCEPT !.doomed = D \ {s}]
           kept == Prunable \ D
<1>4. s \in D /\ D \in SUBSET Stamps /\ knows[c] \in Knowledge
    BY DEF Drop, HistoryInv, HistoryTyped, Knowledge
<1>5. /\ m \in Knowledge /\ m.doomed = D \ {s} /\ m.missed = knows[c].missed
      /\ m.old = knows[c].old /\ m.new = knows[c].new
    BY <1>4, KnowsOfPrune
<1>6. knows'[c] = m /\ knows' \in [Processes -> Knowledge]
  <2>1. Learn(c, m)
      BY DEF Drop
  <2> HIDE DEF m
  <2> QED BY <1>5, <2>1, Learns DEF HistoryInv
<1>7. /\ Cardinality(kept) <= HistoryKeep + kills + fails
      /\ ~knows[c].missed => Cardinality(kept) <= HistoryKeep
      /\ \A t \in D : t \in Prunable /\ Cardinality({u \in kept : u > t}) >= HistoryKeep
    BY Zenon DEF DroppedAreOld
<1>8. Prunable' = Prunable \ {s} /\ Prunable' \ (D \ {s}) = kept
    BY <1>2, <1>3, <1>4 DEF Prunable, ProvenLost, PresumedLost
<1>9. HistoryTyped'
    BY <1>1, <1>2, <1>3, <1>6 DEF HistoryInv, HistoryTyped, FilesTyped
<1> HIDE DEF m
<1>10. DroppedAreOld(c)'
  <2>1. knows'[c].doomed = D \ {s} /\ knows'[c].missed = knows[c].missed
      BY <1>5, <1>6
  <2>2. \A t \in D \ {s} : t \in Prunable'
      BY <1>7, <1>8
  <2> HIDE DEF D, kept
  <2>3. \A t \in D \ {s} : t \in Prunable' /\ Cardinality({u \in kept : u > t}) >= HistoryKeep
      BY <1>7, <2>2
  <2>4. /\ Cardinality(Prunable' \ knows'[c].doomed) <= HistoryKeep + kills' + fails'
        /\ ~knows'[c].missed => Cardinality(Prunable' \ knows'[c].doomed) <= HistoryKeep
        /\ \A t \in knows'[c].doomed :
              /\ t \in Prunable'
              /\ Cardinality({u \in Prunable' \ knows'[c].doomed : u > t}) >= HistoryKeep
      BY <1>2, <1>7, <1>8, <2>1, <2>3, Zenon
  <2> QED BY <2>4, Zenon DEF DroppedAreOld
<1>11. Cardinality(Prunable') <= HistoryKeep + kills' + fails' + 1
  <2> HIDE DEF D, kept
  <2>1. Cardinality(Prunable') <= Cardinality(Prunable) /\ Cardinality(Prunable') \in Nat
      BY <1>0, <1>8, PrunableStamps
  <2>2. Cardinality(Prunable) <= HistoryKeep + kills + fails + 1
      BY DEF HistoryInv, RoomCounted
  <2> QED BY <1>0, <1>2, <2>1, <2>2, Numbers, KeepAssumption
<1>12. s \in Prunable /\ Cardinality({t \in Prunable : t > s}) >= HistoryKeep
  <2>1. s \in Prunable /\ Cardinality({u \in kept : u > s}) >= HistoryKeep
      BY <1>4, <1>7, Zenon
  <2>2. {t \in Prunable : t > s} \in SUBSET Prunable /\ Prunable \in SUBSET Stamps
      BY <1>0, PrunableStamps
  <2>3. {u \in kept : u > s} \in SUBSET {t \in Prunable : t > s}
      BY <2>2
  <2>4. Cardinality({u \in kept : u > s}) <= Cardinality({t \in Prunable : t > s})
      BY <2>2, <2>3, FewerStamps
  <2>5. /\ Cardinality({u \in kept : u > s}) \in Nat
        /\ Cardinality({t \in Prunable : t > s}) \in Nat
      BY <2>2, <2>3, StampsAreFinite
  <2> QED BY <2>1, <2>4, <2>5, KeepAssumption
<1>13. NewestIs(live) => s # clock - 1
  <2> SUFFICES ASSUME s = clock - 1
               PROVE  FALSE
      BY Zenon
  <2>1. \A u \in Prunable : u \in Nat /\ u < clock
      BY <1>0, Numbers DEF Prunable
  <2>2. \A u \in Prunable : ~(u > s)
      BY <1>0, <2>1, Numbers
  <2>3. {u \in Prunable : u > s} = {}
      BY <2>2
  <2>4. Cardinality({u \in Prunable : u > s}) = 0
      BY <2>3, FS_EmptySet
  <2> QED BY <1>12, <2>4, KeepAssumption
<1>14. NewestIs(live) => NewestIs(live)'
    BY <1>2, <1>3, <1>13 DEF NewestIs
<1> HIDE DEF D, kept
<1> QED BY <1>1, <1>2, <1>5, <1>6, <1>8, <1>9, <1>10, <1>11, <1>12, <1>14

\* One version of the doomed goes.
LEMMA Drops ==
    ASSUME OneProcess, HistoryInv, NEW c \in Processes, NEW s, NEW from,
           stage[c] \in {"set drop", "restore drop"}, Drop(c, from, s)
    PROVE  Owed(c)
<1>1. SetKnows(c) /\ DroppedAreOld(c)
    BY DEF HistoryInv, DropKnows
<1>2. /\ stage'[c] = stage[c] /\ UNCHANGED <<live, lost, recorded, upTo, clock, kills, fails, steps>>
      /\ HistoryTyped' /\ DroppedAreOld(c)'
      /\ Cardinality(Prunable') <= HistoryKeep + kills' + fails' + 1
      /\ NewestIs(live) => NewestIs(live)'
      /\ knows'[c].old = knows[c].old /\ knows'[c].new = knows[c].new
    BY <1>1, DropsOne
<1>3. stage'[c] \in Unpruned
    BY <1>2 DEF Unpruned
<1>4. RoomCounted'
    BY <1>2, <1>3, CountsForItself
<1>5. SetKnows(c)' /\ RestoreKnows(c)'
    BY <1>1, <1>2 DEF SetKnows, RestoreKnows
<1>6. DropKnows(c)'
    BY <1>2 DEF DropKnows
<1> QED BY <1>2, <1>4, <1>5, <1>6 DEF Owed

\* One that could not be removed stays, and is missed.
LEMMA DropsNone ==
    ASSUME OneProcess, HistoryInv, NEW c \in Processes, NEW s, NEW from,
           Dropping(c), DropFails(c, from, s)
    PROVE  Owed(c)
<1>0. FilesTyped /\ SetKnows(c) /\ DroppedAreOld(c) /\ knows[c] \in Knowledge
    BY DEF Dropping, HistoryInv, HistoryTyped, DropKnows
<1>1. stage'[c] = stage[c] /\ stage' \in [Processes -> Stages]
  <2>1. stage[c] = from /\ stage[c] \in Stages
      BY DEF DropFails, Turn, HistoryInv, HistoryTyped
  <2> QED BY <2>1, Turns DEF DropFails, HistoryInv
<1>2. UNCHANGED <<live, history, lost, recorded, upTo, clock, kills, steps>>
      /\ Fail /\ fails' = fails + 1
    BY DEF DropFails, Fail, files, sealing
<1> DEFINE D == knows[c].doomed
           m == [knows[c] EXCEPT !.doomed = D \ {s}, !.missed = TRUE]
           kept == Prunable \ D
<1>3. s \in D /\ D \in SUBSET Stamps
    BY <1>0 DEF DropFails, Knowledge
<1>4. /\ m \in Knowledge /\ m.doomed = D \ {s} /\ m.missed
      /\ m.old = knows[c].old /\ m.new = knows[c].new
    BY <1>0, <1>3, KnowsOfPrune
<1>5. knows'[c] = m /\ knows' \in [Processes -> Knowledge]
  <2>1. Learn(c, m)
      BY DEF DropFails
  <2> HIDE DEF m
  <2> QED BY <1>4, <2>1, Learns DEF HistoryInv
<1> HIDE DEF m
<1>6. HistoryTyped' /\ Prunable' = Prunable /\ Archived' = Archived
    BY <1>1, <1>2, <1>5, HistoryStays
<1>7. /\ Cardinality(kept) <= HistoryKeep + kills + fails
      /\ \A t \in D : t \in Prunable /\ Cardinality({u \in kept : u > t}) >= HistoryKeep
    BY <1>0, Zenon DEF DroppedAreOld
<1> DEFINE left == Prunable \ (D \ {s})
<1>8. left = kept \cup {s} /\ kept \in SUBSET Stamps /\ left \in SUBSET Stamps
    BY <1>0, <1>3, <1>7, PrunableStamps
<1>9. Cardinality(left) <= HistoryKeep + kills' + fails'
  <2> HIDE DEF D, kept, left
  <2>1. Cardinality(kept \cup {s}) <= Cardinality(kept) + 1
    <3>1. IsFiniteSet(kept) /\ Cardinality(kept) \in Nat
        BY <1>8, StampsAreFinite
    <3>2. Cardinality(kept \cup {s})
              = IF s \in kept THEN Cardinality(kept) ELSE Cardinality(kept) + 1
        BY <3>1, FS_AddElement, Zenon
    <3> DEFINE n == Cardinality(kept \cup {s})
               k == Cardinality(kept)
    <3>3. k \in Nat /\ n = IF s \in kept THEN k ELSE k + 1
        BY <3>1, <3>2, Zenon
    <3> HIDE DEF n, k
    <3>4. n <= k + 1
        BY <3>3
    <3> QED BY <3>4 DEF n, k
  <2>2. Cardinality(kept) \in Nat /\ Cardinality(left) \in Nat
      BY <1>8, StampsAreFinite
  <2>3. Cardinality(left) = Cardinality(kept \cup {s})
      BY <1>8
  <2>4. kills \in Nat /\ fails \in Nat /\ kills' = kills /\ fails' = fails + 1
      BY <1>0, <1>2, Numbers
  <2>5. kills' + fails' = kills + fails + 1 /\ kills' \in Nat /\ fails' \in Nat
      BY <2>4
  <2>6. Cardinality(kept) + 1 <= HistoryKeep + kills' + fails'
      BY <1>7, <2>2, <2>4, <2>5, OneMore
  <2>7. HistoryKeep + kills' + fails' \in Nat
      BY <2>2, <2>4, <2>5, OneMore
  <2> QED BY <2>1, <2>2, <2>3, <2>6, <2>7
<1>10. \A t \in D \ {s} : t \in Prunable /\ Cardinality({u \in left : u > t}) >= HistoryKeep
  <2> SUFFICES ASSUME NEW t \in D \ {s}
               PROVE  t \in Prunable /\ Cardinality({u \in left : u > t}) >= HistoryKeep
      OBVIOUS
  <2>1. t \in Prunable /\ Cardinality({u \in kept : u > t}) >= HistoryKeep
      BY <1>7, Zenon
  <2> HIDE DEF D, kept, left
  <2>2. /\ {u \in left : u > t} \in SUBSET Stamps
        /\ {u \in kept : u > t} \in SUBSET {u \in left : u > t}
      BY <1>8
  <2>3. Cardinality({u \in kept : u > t}) <= Cardinality({u \in left : u > t})
      BY <2>2, FewerStamps
  <2>4. /\ Cardinality({u \in kept : u > t}) \in Nat
        /\ Cardinality({u \in left : u > t}) \in Nat
      BY <2>2, StampsAreFinite
  <2>5. Cardinality({u \in left : u > t}) >= HistoryKeep
    <3> DEFINE a == Cardinality({u \in kept : u > t})
               b == Cardinality({u \in left : u > t})
    <3>1. a >= HistoryKeep /\ a <= b /\ a \in Nat /\ b \in Nat
        BY <2>1, <2>3, <2>4
    <3> HIDE DEF a, b
    <3>2. b >= HistoryKeep
        BY <3>1, KeepAssumption
    <3> QED BY <3>2 DEF b
  <2> QED BY <2>1, <2>5
<1>11. DroppedAreOld(c)'
  <2>1. knows'[c].doomed = D \ {s} /\ knows'[c].missed
      BY <1>4, <1>5
  <2>2. Prunable' \ knows'[c].doomed = left
      BY <1>6, <2>1
  <2> HIDE DEF D, left
  <2>3. /\ Cardinality(Prunable' \ knows'[c].doomed) <= HistoryKeep + kills' + fails'
        /\ \A t \in knows'[c].doomed :
              /\ t \in Prunable'
              /\ Cardinality({u \in Prunable' \ knows'[c].doomed : u > t}) >= HistoryKeep
      BY <1>6, <1>9, <1>10, <2>1, <2>2, Zenon
  <2> QED BY <2>1, <2>3, Zenon DEF DroppedAreOld
<1> HIDE DEF D, kept, left
<1>12. RoomCounted'
  <2>1. Cardinality(Prunable) <= HistoryKeep + kills + fails + 1
      BY DEF HistoryInv, RoomCounted
  <2>2. kills \in Nat /\ fails \in Nat /\ Cardinality(Prunable) \in Nat
      BY <1>0, Numbers
  <2>3. Cardinality(Prunable') <= HistoryKeep + kills' + fails' + 1
    <3>1. /\ kills' + fails' = kills + fails + 1 /\ kills' \in Nat /\ fails' \in Nat
          /\ Prunable' = Prunable
        BY <1>2, <1>6, <2>2
    <3>2. Cardinality(Prunable) <= HistoryKeep + kills' + fails'
        BY <2>1, <2>2, <3>1, OneMore
    <3> QED BY <2>2, <3>1, <3>2, OneMore
  <2>4. stage'[c] \in Unpruned
      BY <1>1 DEF Dropping, Unpruned
  <2> QED BY <2>3, <2>4, CountsForItself
<1>13. SetKnows(c)' /\ RestoreKnows(c)'
    BY <1>0, <1>1, <1>2, <1>4, <1>5, <1>6 DEF Dropping, SetKnows, RestoreKnows, NewestIs
<1>14. DropKnows(c)'
    BY <1>11 DEF DropKnows
<1> QED BY <1>6, <1>12, <1>13, <1>14 DEF Owed

\* A prune that is done, and one that missed nothing.
LEMMA PruneIsDone ==
    ASSUME NEW c \in Processes, DroppedAreOld(c), knows[c].doomed = {}
    PROVE  /\ Cardinality(Prunable) <= HistoryKeep + kills + fails
           /\ ~knows[c].missed => Cardinality(Prunable) <= HistoryKeep
<1>1. Prunable \ knows[c].doomed = Prunable
    OBVIOUS
<1> QED BY <1>1, Zenon DEF DroppedAreOld

\* A set is done with its prune.
LEMMA SetIsDropped ==
    ASSUME OneProcess, HistoryInv, NEW c \in Processes, SetDropped(c)
    PROVE  Owed(c)
<1>1. stage[c] = "set drop" /\ stage'[c] = "set write" /\ stage' \in [Processes -> Stages]
    BY Turns DEF SetDropped, HistoryInv, Stages
<1>2. UNCHANGED <<live, history, lost, recorded, upTo, clock, knows, kills, fails, steps>>
    BY DEF SetDropped, files, sealing, limits
<1>3. HistoryTyped' /\ Prunable' = Prunable /\ Archived' = Archived
    BY <1>1, <1>2, HistoryStays DEF HistoryInv, HistoryTyped
<1>4. Cardinality(Prunable) <= HistoryKeep + kills + fails
    BY <1>1, PruneIsDone DEF SetDropped, HistoryInv, DropKnows
<1>5. RoomCounted'
    BY <1>2, <1>3, <1>4, Numbers, CountsForItself, KeepAssumption DEF HistoryInv, HistoryTyped
<1>6. (SetKnows(c) /\ RestoreKnows(c) /\ DropKnows(c))'
    BY <1>1, <1>2 DEF SetKnows, RestoreKnows, DropKnows, HistoryInv, NewestIs, Archived
<1> QED BY <1>3, <1>5, <1>6 DEF Owed

\* A set writes over what it archived, and that is the newest version.
LEMMA SetWrites ==
    ASSUME OneProcess, HistoryInv, NEW c \in Processes, SetWrite(c)
    PROVE  /\ Owed(c) /\ live' \in Versions /\ history' = history
           /\ live # None => NewestIs(live)
<1>1. stage[c] = "set write" /\ stage'[c] = "idle" /\ stage' \in [Processes -> Stages]
    BY Turns DEF SetWrite, HistoryInv, Stages
<1>2. UNCHANGED <<history, lost, recorded, upTo, clock, kills, fails, steps>> /\ live' = knows[c].new
    BY DEF SetWrite, sealing, limits
<1>3. knows' \in [Processes -> Knowledge]
    BY Learns, NothingIsKnowledge DEF SetWrite, HistoryInv
<1>4. knows[c].new \in Versions /\ (live # None => NewestIs(live))
    BY <1>1 DEF HistoryInv, SetKnows
<1>5. HistoryTyped' /\ Prunable' = Prunable
    BY <1>1, <1>2, <1>3, <1>4
       DEF HistoryInv, HistoryTyped, FilesTyped, Archived, Prunable, ProvenLost, PresumedLost,
           VersionOrNone
<1>6. stage[c] \notin Unpruned
    BY <1>1 DEF Unpruned
<1>7. RoomCounted'
    BY <1>2, <1>5, <1>6, CountsForItself DEF HistoryInv
<1>8. (SetKnows(c) /\ RestoreKnows(c) /\ DropKnows(c))'
    BY <1>1 DEF SetKnows, RestoreKnows, DropKnows
<1> QED BY <1>2, <1>4, <1>5, <1>7, <1>8 DEF Owed

\* A restore picks a version of the archive.
LEMMA RestoreStarts ==
    ASSUME OneProcess, HistoryInv, NEW c \in Processes, NEW s \in Stamps, RestoreStart(c, s)
    PROVE  Owed(c)
<1> DEFINE m == [KnowsNothing EXCEPT !.from = s]
<1>1. m \in Knowledge /\ m.from = s
  <2>1. s \in 0 .. MaxStamp
      BY HistoryBoundsAreNaturals DEF Stamps
  <2> QED BY <2>1, NothingIsKnowledge DEF Knowledge
<1> HIDE DEF m
<1>2. knows'[c] = m /\ knows' \in [Processes -> Knowledge]
    BY <1>1, Learns DEF RestoreStart, HistoryInv, m
<1>3. stage[c] = "idle" /\ stage'[c] = "restore archive" /\ stage' \in [Processes -> Stages]
    BY Turns DEF RestoreStart, HistoryInv, Stages
<1>4. UNCHANGED <<live, history, lost, recorded, upTo, clock, kills, fails, steps>> /\ clock \in Stamps /\ s \in Archived
    BY DEF RestoreStart, files, sealing, limits
<1>5. HistoryTyped' /\ Prunable' = Prunable /\ Archived' = Archived
    BY <1>2, <1>3, <1>4, HistoryStays
<1>6. stage[c] \notin Unpruned
    BY <1>3 DEF Unpruned
<1>7. RoomCounted'
    BY <1>4, <1>5, <1>6, CountsForItself DEF HistoryInv
<1>8. (SetKnows(c) /\ RestoreKnows(c) /\ DropKnows(c))'
    BY <1>1, <1>2, <1>3, <1>4, <1>5 DEF SetKnows, RestoreKnows, DropKnows, Stamps
<1> QED BY <1>5, <1>7, <1>8 DEF Owed

\* What a restore archives is the live version, and becomes the newest.
LEMMA RestoreArchives ==
    ASSUME OneProcess, HistoryInv, NEW c \in Processes, RestoreArchive(c)
    PROVE  Owed(c)
<1>1. stage[c] = "restore archive" /\ clock \in Stamps /\ knows[c].from \in Archived
    BY DEF RestoreArchive, Turn, HistoryInv, RestoreKnows
<1>2. stage'[c] = "restore rename" /\ stage' \in [Processes -> Stages]
    BY Turns DEF RestoreArchive, HistoryInv, Stages
<1>3. UNCHANGED <<live, lost, recorded, upTo, knows, kills, fails, steps>>
    BY DEF RestoreArchive, sealing, limits
<1>4. stage[c] \notin Unpruned /\ stage'[c] \in Unpruned
    BY <1>1, <1>2 DEF Unpruned
<1>5. CASE live = None
  <2>1. UNCHANGED <<history, clock>>
      BY <1>5 DEF RestoreArchive
  <2>2. HistoryTyped' /\ Prunable' = Prunable /\ Archived' = Archived
      BY <1>2, <1>3, <2>1, HistoryStays DEF HistoryInv, HistoryTyped
  <2>3. RoomCounted'
      BY <1>3, <1>4, <2>2, CountsForItself DEF HistoryInv
  <2>4. (SetKnows(c) /\ RestoreKnows(c) /\ DropKnows(c))'
      BY <1>1, <1>2, <1>3, <1>5, <2>2 DEF SetKnows, RestoreKnows, DropKnows
  <2> QED BY <2>2, <2>3, <2>4 DEF Owed
<1>6. CASE live # None
  <2>1. Archive(live)
      BY <1>6 DEF RestoreArchive
  <2>2. /\ HistoryTyped' /\ NewestIs(live)' /\ Cardinality(Prunable') <= HistoryKeep + kills + fails + 1
        /\ knows[c].from \in Archived' /\ knows[c].from < clock' - 1
      BY <1>1, <1>2, <1>3, <1>4, <1>6, <2>1, ArchivesOne
  <2>3. RoomCounted'
      BY <1>3, <1>4, <2>2, CountsForItself
  <2>4. (SetKnows(c) /\ RestoreKnows(c) /\ DropKnows(c))'
      BY <1>2, <1>3, <2>2 DEF SetKnows, RestoreKnows, DropKnows
  <2> QED BY <2>2, <2>3, <2>4 DEF Owed
<1> QED BY <1>5, <1>6

\* The version that was asked for goes back to the secret's path.
LEMMA RestoreRenames ==
    ASSUME OneProcess, HistoryInv, NEW c \in Processes, RestoreRename(c)
    PROVE  /\ Owed(c)
           /\ knows[c].from \in Archived /\ live' = history[knows[c].from]
           /\ Archived' = Archived \ {knows[c].from}
           /\ \A t \in Archived' : history'[t] = history[t]
           /\ clock' = clock
           /\ live # None => NewestIs(live) /\ knows[c].from < clock - 1
<1> DEFINE from == knows[c].from
<1>0. FilesTyped
    BY DEF HistoryInv, HistoryTyped
<1>1. stage[c] = "restore rename" /\ from \in Archived
    BY DEF RestoreRename, Turn, HistoryInv, RestoreKnows
<1>2. stage'[c] = "restore prune" /\ stage' \in [Processes -> Stages]
    BY <1>1, Turns DEF RestoreRename, HistoryInv, Stages
<1>3. live' = history[from] /\ UNCHANGED <<lost, recorded, upTo, clock, kills, fails, steps>>
    BY <1>1 DEF RestoreRename, sealing, limits
<1>4. Archived' = Archived \ {from} /\ \A t \in Archived' : history'[t] = history[t]
    BY RemovingSecret DEF RestoreRename
<1>5. knows' \in [Processes -> Knowledge]
    BY Learns, NothingIsKnowledge DEF RestoreRename, HistoryInv
<1>6. live # None => NewestIs(live) /\ from < clock - 1
    BY <1>1 DEF HistoryInv, RestoreKnows
<1> HIDE DEF from
<1>7. HistoryTyped'
    BY <1>1, <1>2, <1>3, <1>4, <1>5 DEF HistoryInv, HistoryTyped, FilesTyped, VersionOrNone
<1>8. Prunable' = Prunable \ {from}
    BY <1>3, <1>4 DEF Prunable, ProvenLost, PresumedLost
<1>9. Cardinality(Prunable') <= Cardinality(Prunable) /\ Cardinality(Prunable') \in Nat
    BY <1>0, <1>8, PrunableStamps
<1>10. Cardinality(Prunable') <= HistoryKeep + kills' + fails' + 1
  <2>1. Cardinality(Prunable) <= HistoryKeep + kills + fails + 1
      BY DEF HistoryInv, RoomCounted
  <2> QED BY <1>0, <1>3, <1>9, <2>1, Numbers, KeepAssumption
<1>11. RoomCounted'
  <2>1. stage'[c] \in Unpruned
      BY <1>2 DEF Unpruned
  <2> QED BY <1>10, <2>1, CountsForItself
<1>12. (SetKnows(c) /\ RestoreKnows(c) /\ DropKnows(c))'
    BY <1>2 DEF SetKnows, RestoreKnows, DropKnows
<1> QED BY <1>1, <1>3, <1>4, <1>6, <1>7, <1>11, <1>12 DEF Owed, from

\* A restore is done with its prune.
LEMMA RestoreIsDropped ==
    ASSUME OneProcess, HistoryInv, NEW c \in Processes, RestoreDropped(c)
    PROVE  Owed(c)
<1>1. stage[c] = "restore drop" /\ stage'[c] = "idle" /\ stage' \in [Processes -> Stages]
    BY Turns DEF RestoreDropped, HistoryInv, Stages
<1>2. UNCHANGED <<live, history, lost, recorded, upTo, clock, knows, kills, fails, steps>>
    BY DEF RestoreDropped, files, sealing, limits
<1>3. Cardinality(Prunable) <= HistoryKeep + kills + fails
    BY <1>1, PruneIsDone DEF RestoreDropped, HistoryInv, DropKnows
<1> QED BY <1>1, <1>2, <1>3, Returns DEF HistoryInv, HistoryTyped

\* A removal begins with the live version.
LEMMA RemovesLive ==
    ASSUME OneProcess, HistoryInv, NEW c \in Processes, RemoveLive(c)
    PROVE  Owed(c)
<1>1. stage[c] = "idle" /\ stage'[c] = "rm history" /\ stage' \in [Processes -> Stages]
    BY Turns DEF RemoveLive, HistoryInv, Stages
<1>2. live' = None /\ UNCHANGED <<history, lost, recorded, upTo, clock, knows, kills, fails, steps>>
    BY DEF RemoveLive, sealing, limits
<1>3. HistoryTyped' /\ Prunable' = Prunable
    BY <1>1, <1>2
       DEF HistoryInv, HistoryTyped, FilesTyped, Archived, Prunable, ProvenLost, PresumedLost,
           VersionOrNone
<1>4. stage[c] \notin Unpruned
    BY <1>1 DEF Unpruned
<1>5. RoomCounted'
    BY <1>2, <1>3, <1>4, CountsForItself DEF HistoryInv
<1>6. (SetKnows(c) /\ RestoreKnows(c) /\ DropKnows(c))'
    BY <1>1 DEF SetKnows, RestoreKnows, DropKnows
<1> QED BY <1>3, <1>5, <1>6 DEF Owed

\* The history goes, or as much of it as could be deleted.
LEMMA Forgets ==
    ASSUME OneProcess, HistoryInv, NEW c \in Processes, RemoveHistory(c) \/ RemoveHistoryFails(c)
    PROVE  Owed(c) /\ live' = live /\ stage[c] = "rm history" /\ stage'[c] = "idle"
<1>0. FilesTyped
    BY DEF HistoryInv, HistoryTyped
<1>1. stage[c] = "rm history" /\ stage'[c] = "idle" /\ stage' \in [Processes -> Stages]
  <2>1. Turn(c, "rm history", "idle") /\ "idle" \in Stages
      BY DEF RemoveHistory, RemoveHistoryFails, Stages
  <2> QED BY <2>1, Turns DEF HistoryInv
<1>2. UNCHANGED <<live, lost, recorded, upTo, clock, knows, kills, fails, steps>>
    BY DEF RemoveHistory, RemoveHistoryFails, sealing, limits
<1>3. Archived' \subseteq Archived /\ \A s \in Archived' : history'[s] = history[s]
  <2>1. CASE RemoveHistory(c)
      BY <2>1 DEF RemoveHistory, Archived
  <2>2. CASE RemoveHistoryFails(c)
      BY <2>2 DEF RemoveHistoryFails, Restrict, Archived
  <2> QED BY <2>1, <2>2
<1>4. HistoryTyped'
    BY <1>1, <1>2, <1>3 DEF HistoryInv, HistoryTyped, FilesTyped
<1>5. Prunable' \subseteq Prunable
    BY <1>2, <1>3 DEF Prunable, ProvenLost, PresumedLost
<1>6. Cardinality(Prunable') <= Cardinality(Prunable) /\ Cardinality(Prunable') \in Nat
    BY <1>0, <1>5, PrunableStamps
<1>7. RoomCounted'
  <2>1. stage[c] \notin Unpruned
      BY <1>1 DEF Unpruned
  <2>2. Cardinality(Prunable) <= HistoryKeep + kills + fails
      BY <2>1, CountsForItself DEF HistoryInv
  <2>3. /\ Cardinality(Prunable') <= HistoryKeep + kills' + fails'
        /\ Cardinality(Prunable') <= HistoryKeep + kills' + fails' + 1
      BY <1>0, <1>2, <1>6, <2>2, Numbers, KeepAssumption
  <2> QED BY <2>3, CountsForItself
<1>8. (SetKnows(c) /\ RestoreKnows(c) /\ DropKnows(c))'
    BY <1>1 DEF SetKnows, RestoreKnows, DropKnows
<1> QED BY <1>1, <1>2, <1>4, <1>7, <1>8 DEF Owed

\* jit vault prune --history is about to delete the history.
LEMMA ForgetBegins ==
    ASSUME OneProcess, HistoryInv, NEW c \in Processes, ForgetHistory(c)
    PROVE  Owed(c)
<1>1. stage[c] = "idle" /\ stage'[c] = "rm history" /\ stage' \in [Processes -> Stages]
    BY Turns DEF ForgetHistory, HistoryInv, Stages
<1>2. UNCHANGED <<live, history, lost, recorded, upTo, clock, knows, kills, fails, steps>>
    BY DEF ForgetHistory, files, sealing, limits
<1>3. HistoryTyped' /\ Prunable' = Prunable
    BY <1>1, <1>2, HistoryStays DEF HistoryInv, HistoryTyped
<1>4. stage[c] \notin Unpruned
    BY <1>1 DEF Unpruned
<1>5. RoomCounted'
    BY <1>2, <1>3, <1>4, CountsForItself DEF HistoryInv
<1>6. (SetKnows(c) /\ RestoreKnows(c) /\ DropKnows(c))'
    BY <1>1 DEF SetKnows, RestoreKnows, DropKnows
<1> QED BY <1>3, <1>5, <1>6 DEF Owed

\* A kill allows for one version more.
LEMMA IsKilled ==
    ASSUME OneProcess, HistoryInv, NEW c \in Processes, Kill(c)
    PROVE  Owed(c) /\ UNCHANGED <<live, history>>
<1>1. stage'[c] = "idle" /\ stage' \in [Processes -> Stages]
    BY DEF Kill, HistoryInv, HistoryTyped, Stages
<1>2. knows' \in [Processes -> Knowledge]
    BY Learns, NothingIsKnowledge DEF Kill, HistoryInv
<1>3. /\ UNCHANGED <<live, history, lost, recorded, upTo, clock, steps>>
      /\ kills < MaxKills /\ kills' = kills + 1 /\ fails' = fails
    BY DEF Kill, files, sealing
<1> QED BY <1>1, <1>2, <1>3, StopsShort

\* The enclave loses its key while no command runs.
LEMMA KeyIsLost ==
    ASSUME HistoryInv, KeyLost
    PROVE  HistoryInv'
<1>1. UNCHANGED <<live, history, clock, stage, knows, kills, fails, steps>>
    BY DEF KeyLost, files, limits
<1>2. /\ lost' \subseteq Versions /\ recorded \subseteq recorded' /\ recorded' \subseteq lost'
      /\ upTo' \in 0 .. MaxStamp + 1 /\ upTo <= upTo' /\ upTo \in Nat
  <2>1. Stored \ {None} \subseteq Versions
      BY DEF Stored, HistoryInv, HistoryTyped, FilesTyped, VersionOrNone
  <2>2. PICK hashed \in SUBSET (Stored \ {None}) :
            /\ recorded' = recorded \union hashed
            /\ upTo' = IF hashed = Stored \ {None} \/ clock < upTo THEN upTo ELSE clock
      BY Zenon DEF KeyLost
  <2>3. lost' = lost \union (Stored \ {None})
      BY DEF KeyLost
  <2>4. /\ lost \subseteq Versions /\ recorded \subseteq lost
        /\ upTo \in 0 .. MaxStamp + 1 /\ clock \in 1 .. MaxStamp + 1 /\ MaxStamp \in Nat
      BY HistoryBoundsAreNaturals DEF HistoryInv, HistoryTyped, FilesTyped
  <2>5. /\ lost' \subseteq Versions /\ recorded \subseteq recorded' /\ recorded' \subseteq lost'
      BY <2>1, <2>2, <2>3, <2>4
  <2>6. upTo' \in 0 .. MaxStamp + 1 /\ upTo <= upTo' /\ upTo \in Nat
    <3>1. upTo' = upTo \/ (upTo' = clock /\ ~(clock < upTo))
        BY <2>2
    <3> QED BY <2>4, <3>1
  <2> QED BY <2>5, <2>6
<1>3. Archived' = Archived /\ Prunable' \in SUBSET Prunable
  <2>1. \A s \in Archived : s \in Nat
      BY Numbers DEF HistoryInv, HistoryTyped
  <2>2. upTo' \in Nat
      BY <1>2, HistoryBoundsAreNaturals
  <2> QED BY <1>1, <1>2, <2>1, <2>2 DEF Prunable, ProvenLost, PresumedLost, Archived
<1>4. HistoryTyped'
    BY <1>1, <1>2, <1>3 DEF HistoryInv, HistoryTyped, FilesTyped
<1>5. Cardinality(Prunable') <= Cardinality(Prunable) /\ Cardinality(Prunable') \in Nat
    BY <1>3, PrunableStamps DEF HistoryInv, HistoryTyped
<1>6. \A c \in Processes : stage[c] = "idle" /\ stage[c] \notin Unpruned
    BY DEF KeyLost, Unpruned
<1>7. RoomCounted'
  <2>1. Cardinality(Prunable) <= HistoryKeep + kills + fails
      BY <1>6 DEF HistoryInv, RoomCounted
  <2>2. kills \in Nat /\ fails \in Nat /\ Cardinality(Prunable) \in Nat
      BY Numbers DEF HistoryInv, HistoryTyped
  <2>3. /\ Cardinality(Prunable') <= HistoryKeep + kills' + fails'
        /\ Cardinality(Prunable') <= HistoryKeep + kills' + fails' + 1
      BY <1>1, <1>5, <2>1, <2>2, KeepAssumption
  <2> QED BY <2>3 DEF RoomCounted
<1>8. \A c \in Processes : (SetKnows(c) /\ RestoreKnows(c) /\ DropKnows(c))'
    BY <1>1, <1>6 DEF SetKnows, RestoreKnows, DropKnows
<1> QED BY <1>4, <1>7, <1>8 DEF HistoryInv

\* What a step of one command owes is what the invariant asks.
LEMMA OwedIsEnough ==
    ASSUME OneProcess, NEW c \in Processes, Owed(c)
    PROVE  HistoryInv'
<1>1. \A d \in Processes : (SetKnows(d) /\ RestoreKnows(d) /\ DropKnows(d))'
  <2> SUFFICES ASSUME NEW d \in Processes
               PROVE  (SetKnows(d) /\ RestoreKnows(d) /\ DropKnows(d))'
      OBVIOUS
  <2>1. d = c
      BY DEF OneProcess
  <2> QED BY <2>1 DEF Owed
<1> QED BY <1>1 DEF HistoryInv, Owed

\* The invariant holds in the initial states.
LEMMA HistoryStarts == HistoryInit => HistoryInv
<1> SUFFICES ASSUME HistoryInit
             PROVE  HistoryInv
    OBVIOUS
<1>1. Archived = {} /\ Prunable = {} /\ live = None /\ lost = {}
    BY DEF HistoryInit, Archived, Prunable
<1>2. FilesTyped
    BY <1>1, HistoryBoundsAreNaturals DEF HistoryInit, FilesTyped, VersionOrNone
<1>3. HistoryTyped
    BY <1>2, NothingIsKnowledge DEF HistoryInit, HistoryTyped, Stages
<1>4. RoomCounted
  <2>1. Cardinality(Prunable) = 0 /\ kills = 0 /\ fails = 0
      BY <1>1, FS_EmptySet DEF HistoryInit
  <2> QED BY <2>1, KeepAssumption DEF RoomCounted
<1>5. \A c \in Processes : SetKnows(c) /\ RestoreKnows(c) /\ DropKnows(c)
    BY DEF HistoryInit, SetKnows, RestoreKnows, DropKnows
<1> QED BY <1>3, <1>4, <1>5 DEF HistoryInv

\* Steps that write no file: a command reads, fails, prunes in memory, is done.
Reads(c) ==
    \/ \E v \in Versions : SetRead(c, v)
    \/ SetFails(c) \/ SetDropped(c) \/ RestoreDropped(c)
    \/ Prune(c, "set prune", "set drop") \/ PruneBlind(c, "set prune", "set drop")
    \/ Prune(c, "restore prune", "restore drop") \/ PruneBlind(c, "restore prune", "restore drop")
    \/ PruneFails(c, "set prune") \/ PruneFails(c, "restore prune")
    \/ \E s \in Stamps, from \in {"set drop", "restore drop"} : DropFails(c, from, s)
    \/ \E s \in Stamps : RestoreStart(c, s)
    \/ RestoreStops(c) \/ RestoreRenameFails(c) \/ ForgetHistory(c)

\* The steps that only read.
LEMMA ReadsKeep ==
    ASSUME OneProcess, HistoryInv, NEW c \in Processes, Reads(c)
    PROVE  Owed(c) /\ UNCHANGED <<live, history>>
<1>1. UNCHANGED <<live, history>>
    BY DEF Reads, SetRead, SetFails, SetDropped, RestoreDropped, Prune, PruneBlind, PruneFails,
           DropFails, RestoreStart, RestoreStops, RestoreRenameFails, ForgetHistory, files
<1>2. CASE \E v \in Versions : SetRead(c, v)
    BY <1>1, <1>2, SetReads
<1>3. CASE SetFails(c) \/ RestoreStops(c)
    BY <1>1, <1>3, StopsBefore
<1>4. CASE SetDropped(c)
    BY <1>1, <1>4, SetIsDropped
<1>5. CASE RestoreDropped(c)
    BY <1>1, <1>5, RestoreIsDropped
<1>6. CASE Prune(c, "set prune", "set drop") \/ PruneBlind(c, "set prune", "set drop")
  <2>1. Owed(c)
      BY <1>6, Prunes DEF PruneStages
  <2> QED BY <1>1, <2>1
<1>7. CASE Prune(c, "restore prune", "restore drop") \/ PruneBlind(c, "restore prune", "restore drop")
  <2>1. Owed(c)
      BY <1>7, Prunes DEF PruneStages
  <2> QED BY <1>1, <2>1
<1>8. CASE \E s \in Stamps : RestoreStart(c, s)
    BY <1>1, <1>8, RestoreStarts
<1>9. CASE \/ PruneFails(c, "set prune") \/ PruneFails(c, "restore prune")
          \/ RestoreRenameFails(c)
    BY <1>1, <1>9, FailsUnpruned
<1>10. CASE \E s \in Stamps, from \in {"set drop", "restore drop"} : DropFails(c, from, s)
  <2>1. PICK s \in Stamps, from \in {"set drop", "restore drop"} : DropFails(c, from, s)
      BY <1>10
  <2>2. stage[c] \in {"set drop", "restore drop"}
      BY <2>1 DEF DropFails, Turn
  <2>3. Owed(c)
      BY <2>1, <2>2, DropsNone DEF Dropping
  <2> QED BY <1>1, <2>3
<1>11. CASE ForgetHistory(c)
    BY <1>1, <1>11, ForgetBegins
<1> QED
  <2>1. Owed(c)
      BY <1>2, <1>3, <1>4, <1>5, <1>6, <1>7, <1>8, <1>9, <1>10, <1>11 DEF Reads
  <2> QED BY <1>1, <2>1

\* A step is one of these.
LEMMA HistoryCases ==
    ASSUME HistoryNext
    PROVE  \/ KeyLost
           \/ \E c \in Processes :
                 \/ Reads(c) \/ SetArchive(c) \/ SetWrite(c) \/ RestoreArchive(c)
                 \/ RestoreRename(c) \/ RemoveLive(c) \/ RemoveHistory(c)
                 \/ RemoveHistoryFails(c) \/ Kill(c)
                 \/ \E s \in Stamps, from \in {"set drop", "restore drop"} : Drop(c, from, s)
<1>1. CASE KeyLost
    BY <1>1
<1>2. ASSUME NEW c \in Processes, Set(c)
      PROVE  \/ Reads(c) \/ SetArchive(c) \/ SetWrite(c)
             \/ \E s \in Stamps, from \in {"set drop", "restore drop"} : Drop(c, from, s)
    BY <1>2, Zenon DEF Set, PruneHistory, Reads
<1>3. ASSUME NEW c \in Processes, Restore(c)
      PROVE  \/ Reads(c) \/ RestoreArchive(c) \/ RestoreRename(c)
             \/ \E s \in Stamps, from \in {"set drop", "restore drop"} : Drop(c, from, s)
    BY <1>3, Zenon DEF Restore, PruneHistory, Reads
<1>4. ASSUME NEW c \in Processes, Remove(c)
      PROVE  Reads(c) \/ RemoveLive(c) \/ RemoveHistory(c) \/ RemoveHistoryFails(c)
    BY <1>4, Zenon DEF Remove, Reads
<1> QED BY <1>1, <1>2, <1>3, <1>4, Zenon DEF HistoryNext

\* A version goes from a stage that drops.
LEMMA DropAtItsStage ==
    ASSUME NEW c, NEW s, NEW from \in {"set drop", "restore drop"}, Drop(c, from, s)
    PROVE  stage[c] \in {"set drop", "restore drop"}
    BY DEF Drop, Turn

\* Every step keeps the invariant.
LEMMA HistorySteps ==
    ASSUME OneProcess, HistoryInv, [HistoryNext]_historyVars
    PROVE  HistoryInv'
<1>1. CASE UNCHANGED historyVars
    BY <1>1 DEF historyVars, HistoryInv, HistoryTyped, FilesTyped, Archived, RoomCounted, Prunable,
                ProvenLost, PresumedLost, SetKnows, RestoreKnows, DropKnows, DroppedAreOld, NewestIs
<1>2. CASE KeyLost
    BY <1>2, KeyIsLost
<1>3. ASSUME NEW c \in Processes,
             \/ Reads(c) \/ SetArchive(c) \/ SetWrite(c) \/ RestoreArchive(c)
             \/ RestoreRename(c) \/ RemoveLive(c) \/ RemoveHistory(c)
             \/ RemoveHistoryFails(c) \/ Kill(c)
             \/ \E s \in Stamps, from \in {"set drop", "restore drop"} : Drop(c, from, s)
      PROVE  Owed(c)
  <2>1. CASE Reads(c)
      BY <2>1, ReadsKeep
  <2>2. CASE SetArchive(c) \/ SetWrite(c)
      BY <2>2, SetArchives, SetWrites
  <2>3. CASE RestoreArchive(c) \/ RestoreRename(c)
      BY <2>3, RestoreArchives, RestoreRenames
  <2>4. CASE RemoveLive(c) \/ RemoveHistory(c) \/ RemoveHistoryFails(c)
      BY <2>4, RemovesLive, Forgets
  <2>5. CASE Kill(c)
      BY <2>5, IsKilled
  <2>6. CASE \E s \in Stamps, from \in {"set drop", "restore drop"} : Drop(c, from, s)
      BY <2>6, DropAtItsStage, Drops
  <2> QED BY <1>3, <2>1, <2>2, <2>3, <2>4, <2>5, <2>6
<1> QED BY <1>1, <1>2, <1>3, HistoryCases, OwedIsEnough

\* The invariant of VaultHistory.
LEMMA HistoryInvHolds ==
    ASSUME OneProcess
    PROVE  HistorySpec => []HistoryInv
<1>1. HistoryInv /\ [HistoryNext]_historyVars => HistoryInv'
    BY HistorySteps
<1> QED BY <1>1, HistoryStarts, PTL DEF HistorySpec

\* One command after another, killed anywhere: the version a restore was asked
\* for stays until it is live, and between commands the history is at its
\* bound, but for one version each killed command and each failure may have
\* left; a prune in which nothing failed leaves no more than the bound.
THEOREM HistoryHoldsAlways ==
    ASSUME \A c, d \in Processes : c = d
    PROVE  HistorySpec => []HistoryHolds
<1>0. HistorySpec => []HistoryInv
    BY HistoryInvHolds DEF OneProcess
<1>1. HistoryInv => HistoryHolds
  <2> SUFFICES ASSUME HistoryInv
               PROVE  HistoryHolds
      OBVIOUS
  <2>1. HistoryTypeOK
      BY HistoryBoundsAreNaturals DEF HistoryInv, HistoryTyped, FilesTyped, HistoryTypeOK
  <2>2. RequestedVersionStays
      BY DEF HistoryInv, RestoreKnows, RequestedVersionStays
  <2>3. HistoryBounded
    <3>1. (\A c \in Processes : stage[c] = "idle") =>
              \A c \in Processes : stage[c] \notin Unpruned
        BY DEF Unpruned
    <3> QED BY <3>1, Zenon DEF HistoryInv, RoomCounted, HistoryBounded
  <2>4. PruneTidies
    <3> SUFFICES ASSUME NEW c \in Processes, stage[c] \in {"set drop", "restore drop"},
                        knows[c].doomed = {}, ~knows[c].missed
                 PROVE  Cardinality(Prunable) <= HistoryKeep
        BY DEF PruneTidies
    <3>1. DroppedAreOld(c)
        BY DEF HistoryInv, DropKnows
    <3> QED BY <3>1, PruneIsDone
  <2> QED BY <2>1, <2>2, <2>3, <2>4 DEF HistoryHolds
<1> QED BY <1>0, <1>1, PTL

\* What a set or a restore replaces is then the newest version, for any value
\* and any number of versions: `jit vault restore` brings it back.
THEOREM NewestIsReplaced ==
    ASSUME \A c, d \in Processes : c = d
    PROVE  HistorySpec => NewestIsWhatWasReplaced
<1>0. HistorySpec => []HistoryInv
    BY HistoryInvHolds DEF OneProcess
<1>1. ASSUME OneProcess, HistoryInv, [HistoryNext]_historyVars,
             live \notin {None, live'}, live' # None
      PROVE  Archived' # {} /\ history'[Max(Archived')] = live
  <2>1. ASSUME clock - 1 \in Archived', history'[clock - 1] = live, Archived' \subseteq Archived
        PROVE  Archived' # {} /\ history'[Max(Archived')] = live
    <3>1. clock \in Nat /\ \A s \in Archived : s \in Nat /\ s < clock
        BY <1>1, Numbers DEF HistoryInv, HistoryTyped
    <3>2. Archived' \in SUBSET Nat /\ \A s \in Archived' : clock - 1 >= s
        BY <2>1, <3>1
    <3>3. Max(Archived') = clock - 1
        BY <2>1, <3>2, MaxIs
    <3> QED BY <2>1, <3>3
  <2>2. ASSUME NEW c \in Processes, SetWrite(c)
        PROVE  Archived' # {} /\ history'[Max(Archived')] = live
    <3>1. NewestIs(live) /\ history' = history
        BY <1>1, <2>2, SetWrites
    <3> QED BY <2>1, <3>1 DEF NewestIs, Archived
  <2>3. ASSUME NEW c \in Processes, RestoreRename(c)
        PROVE  Archived' # {} /\ history'[Max(Archived')] = live
    <3>1. /\ NewestIs(live) /\ knows[c].from < clock - 1
          /\ Archived' = Archived \ {knows[c].from}
          /\ \A t \in Archived' : history'[t] = history[t]
        BY <1>1, <2>3, RestoreRenames
    <3>2. clock \in Nat /\ knows[c].from \in Archived /\ \A s \in Archived : s \in Nat
        BY <1>1, <2>3, RestoreRenames, Numbers DEF HistoryInv, HistoryTyped
    <3>3. knows[c].from # clock - 1
        BY <3>1, <3>2
    <3> QED BY <2>1, <3>1, <3>3 DEF NewestIs
  <2>4. ASSUME NEW c \in Processes, NEW s \in Stamps, NEW from \in {"set drop", "restore drop"},
               Drop(c, from, s)
        PROVE  live' = live
      BY <2>4 DEF Drop
  <2>5. ASSUME NEW c \in Processes,
               \/ Reads(c) \/ SetArchive(c) \/ RestoreArchive(c) \/ RemoveLive(c)
               \/ RemoveHistory(c) \/ RemoveHistoryFails(c) \/ Kill(c)
        PROVE  live' = live \/ live' = None
      BY <1>1, <2>5, ReadsKeep, Forgets, IsKilled DEF SetArchive, RestoreArchive, RemoveLive
  <2>6. KeyLost \/ UNCHANGED historyVars => live' = live
      BY DEF KeyLost, files, historyVars
  <2> QED BY <1>1, <2>2, <2>3, <2>4, <2>5, <2>6, HistoryCases
<1>2. HistoryInv /\ [HistoryNext]_historyVars =>
        [live \notin {None, live'} /\ live' # None =>
            Archived' # {} /\ history'[Max(Archived')] = live]_historyVars
    BY <1>1 DEF OneProcess
<1> QED BY <1>0, <1>2, PTL DEF HistorySpec, NewestIsWhatWasReplaced

\* A version leaves the vault only by rm, by a forgotten history, or with
\* HistoryKeep newer ones kept; a copy of a lost key never for room.
THEOREM OnlyOldOnesGo ==
    ASSUME \A c, d \in Processes : c = d
    PROVE  HistorySpec => OnlyOldVersionsGo
<1>0. HistorySpec => []HistoryInv
    BY HistoryInvHolds DEF OneProcess
<1>1. ASSUME OneProcess, HistoryInv, [HistoryNext]_historyVars,
             NEW s \in Archived, history[s] \notin Stored'
      PROVE  \/ \E c \in Processes : stage[c] = "rm history" /\ stage'[c] = "idle"
             \/ s \in Prunable /\ Cardinality({t \in Prunable : t > s}) >= HistoryKeep
  <2>1. s \in Archived' /\ history'[s] = history[s] => FALSE
      BY <1>1, Zenon DEF Stored
  <2>2. history' = history => FALSE
      BY <2>1 DEF Archived
  <2>3. ASSUME NEW v, Archive(v)
        PROVE  FALSE
    <3>1. s < clock /\ clock \in Nat /\ s \in Nat
        BY <1>1, Numbers DEF HistoryInv, HistoryTyped
    <3>2. s \in Archived' /\ history'[s] = history[s]
        BY <2>3, <3>1 DEF Archive, Archived
    <3> QED BY <2>1, <3>2
  <2>4. ASSUME NEW c \in Processes, RestoreRename(c)
        PROVE  FALSE
    <3>1. /\ live' = history[knows[c].from]
          /\ Archived' = Archived \ {knows[c].from}
          /\ \A t \in Archived' : history'[t] = history[t]
        BY <1>1, <2>4, RestoreRenames
    <3>2. CASE s = knows[c].from
        BY <1>1, <3>1, <3>2 DEF Stored
    <3>3. CASE s # knows[c].from
        BY <2>1, <3>1, <3>3
    <3> QED BY <3>2, <3>3
  <2>5. ASSUME NEW c \in Processes, NEW d \in Stamps, NEW from \in {"set drop", "restore drop"},
               Drop(c, from, d)
        PROVE  s \in Prunable /\ Cardinality({t \in Prunable : t > s}) >= HistoryKeep
    <3>1. DroppedAreOld(c)
        BY <1>1, <2>5, DropAtItsStage DEF HistoryInv, DropKnows
    <3>2. d \in Prunable /\ Cardinality({t \in Prunable : t > d}) >= HistoryKeep
        BY <1>1, <2>5, <3>1, DropsOne
    <3>3. Archived' = Archived \ {d} /\ \A t \in Archived' : history'[t] = history[t]
        BY <2>5, RemovingSecret DEF Drop
    <3>4. s = d
        BY <2>1, <3>3
    <3> QED BY <3>2, <3>4, Zenon
  <2>6. ASSUME NEW c \in Processes,
               Reads(c) \/ SetWrite(c) \/ RemoveLive(c) \/ Kill(c) \/ SetArchive(c)
                   \/ RestoreArchive(c)
        PROVE  FALSE
    <3>1. CASE Reads(c) \/ Kill(c)
        BY <1>1, <2>2, <3>1, ReadsKeep, IsKilled
    <3>2. CASE SetWrite(c) \/ RemoveLive(c)
        BY <2>2, <3>2 DEF SetWrite, RemoveLive
    <3>3. CASE SetArchive(c) \/ RestoreArchive(c)
        BY <2>2, <2>3, <3>3 DEF SetArchive, RestoreArchive
    <3> QED BY <2>6, <3>1, <3>2, <3>3
  <2>7. ASSUME NEW c \in Processes, RemoveHistory(c) \/ RemoveHistoryFails(c)
        PROVE  stage[c] = "rm history" /\ stage'[c] = "idle"
      BY <1>1, <2>7, Forgets
  <2>8. KeyLost \/ UNCHANGED historyVars => FALSE
      BY <2>2 DEF KeyLost, files, historyVars
  <2> QED BY <1>1, <2>4, <2>5, <2>6, <2>7, <2>8, HistoryCases
<1>2. HistoryInv /\ [HistoryNext]_historyVars =>
        [\A s \in Archived : history[s] \notin Stored' =>
           \/ \E c \in Processes : stage[c] = "rm history" /\ stage'[c] = "idle"
           \/ s \in Prunable /\ Cardinality({t \in Prunable : t > s}) >= HistoryKeep
        ]_historyVars
    BY <1>1 DEF OneProcess
<1> QED BY <1>0, <1>2, PTL DEF HistorySpec, OnlyOldVersionsGo

-------------------------------------------------------------------------------

OneInvocation == \A c, d \in Invocations : c = d

-------------------------------------------------------------------------------
(* Where the text of a file is. *)

\* The profile n of f's own store gives f's text.
Serving(f, n) == n \in manifests[f] /\ secret[n] = [val |-> latest[f], owner |-> f]

\* The newest backup is f's text; ...
Copied(f) ==
    /\ HasBackup(f) /\ LatestBackup(f) \in DOMAIN entry
    /\ entry[LatestBackup(f)] = Text(latest[f])

\* ... or at least one of the user's that is as new as what jit took.
Backed(f) ==
    /\ HasBackup(f) /\ LatestBackup(f) \in DOMAIN entry
    /\ IsText(entry[LatestBackup(f)]) /\ took[f] <= entry[LatestBackup(f)].val

\* Some snapshot of f is that text.
Snapped(f, v) ==
    \E r \in index : r.file = f /\ r.snapshot /\ r.id \in DOMAIN entry /\ entry[r.id] = Text(v)

Safe(f) ==
    disk[f] = Text(latest[f]) \/ (\E n \in Names : Serving(f, n)) \/ Copied(f)
        \/ Snapped(f, latest[f])

\* A removal of f is past the point where it may stop.
Deleting(f) ==
    \E c \in Invocations : cmd[c].op = "remove" /\ cmd[c].file = f /\ cmd[c].pc \in Deletions

TextOk(f) ==
    /\ IsText(disk[f]) => disk[f] = Text(latest[f])
    /\ latest[f] # 0 => took[f] <= latest[f] /\ Safe(f)

\* What is at the path in place of the text.
DiskOk(f) ==
    /\ disk[f].kind = "refers" =>
          \/ kind[f] = "bak" /\ Serving(f, disk[f].name)
          \/ kind[f] = "tfvars" /\ Copied(f)
    /\ registry[f] # NoName => kind[f] = "live" /\ Serving(f, registry[f]) /\ HasBackup(f)
    /\ ~IsText(disk[f]) => HasBackup(f)

\* What the vault has of f.
VaultOk(f) ==
    /\ HasBackup(f) => Backed(f)
    /\ \A n \in manifests[f] : secret[n].owner = f /\ secret[n].val # 0

FileOk(f) == TextOk(f) /\ DiskOk(f) /\ (~Deleting(f) => VaultOk(f))

-------------------------------------------------------------------------------
(* What the places of a command know. *)

\* The bytes were saved under an id no record has yet.
Saved(c) ==
    /\ cmd[c].saved \in DOMAIN entry /\ entry[cmd[c].saved] = disk[cmd[c].file]
    /\ \A r \in index : r.id < cmd[c].saved

MigrateKnows(c) ==
    LET f == cmd[c].file  n == cmd[c].name  pc == cmd[c].pc
    IN  cmd[c].op = "migrate" =>
          /\ f \in Paths
          /\ pc \in {"claim", "store", "manifest", "backup", "record", "clear", "place", "register"}
          /\ pc # "claim" => n \in Names /\ \A g \in Paths \ {f} : n \notin manifests[g]
          /\ pc \in {"claim", "store", "manifest", "backup", "record", "clear"} =>
                IsText(disk[f])
          /\ pc \in {"claim", "store"} => cmd[c].content = disk[f]
          /\ pc = "manifest" => secret[n] = [val |-> latest[f], owner |-> f]
          /\ pc \in {"backup", "record", "clear", "register"} => Serving(f, n)
          /\ pc = "record" => Saved(c)
          /\ pc = "clear" => Copied(f)
          /\ pc = "place" =>
                \/ kind[f] = "live" /\ IsText(disk[f])
                \/ disk[f] = Absent /\ Serving(f, n) /\ Copied(f)
          /\ pc = "register" => kind[f] = "live" /\ disk[f] = Pipe

UndoKnows(c) ==
    LET f == cmd[c].file  pc == cmd[c].pc
    IN  cmd[c].op = "undo" =>
          /\ f \in Paths /\ HasBackup(f)
          /\ pc \in {"unregister", "get", "backup", "record", "clear", "write"}
          /\ pc # "unregister" => registry[f] = NoName
          /\ pc \in {"unregister", "get"} => cmd[c].id = LatestBackup(f)
          /\ pc \in {"backup", "record", "clear", "write"} =>
                IsText(cmd[c].content) /\ took[f] <= cmd[c].content.val
          /\ pc = "record" => Saved(c)
          /\ pc = "clear" /\ IsText(disk[f]) => Snapped(f, latest[f])

\* A removal or an unmount, as far as the file goes.
BackKnows(c) ==
    LET f == cmd[c].file  n == cmd[c].name  pc == cmd[c].pc
    IN  cmd[c].op \in {"remove", "unmount"} =>
          /\ f \in Paths
          /\ pc \in {"resolve", "get", "backup", "record", "clear", "write",
                    "unregister", "secrets"}
                      \cup Deletions
          /\ cmd[c].op = "unmount" => cmd[c].mounted
          /\ registry[f] # NoName =>
                cmd[c].mounted /\ pc \in {"resolve", "clear", "write", "unregister"}
          /\ pc = "resolve" => HasBackup(f) /\ Serving(f, n) /\ n \in Names
          /\ pc = "get" => Copied(f) /\ cmd[c].id = LatestBackup(f)
          /\ pc \in {"backup", "record"} => Copied(f)
          /\ pc \in {"clear", "write"} =>
                HasBackup(f) /\ (Copied(f) \/ \E m \in Names : Serving(f, m))
          /\ pc \in {"backup", "record", "clear", "write"} => cmd[c].content = Text(latest[f])
          /\ pc = "record" => Saved(c)
          /\ pc \in {"unregister", "secrets"} \cup Deletions => IsText(disk[f])
          /\ pc = "store" => ~HasBackup(f)

\* What a removal is going to delete is of its own project.
RemoveKnows(c) ==
    LET f == cmd[c].file
    IN  cmd[c].op = "remove" =>
          /\ \A g \in Paths \ {f} : cmd[c].delete \cap manifests[g] = {}
          /\ \A r \in cmd[c].drop : r.file = f
          /\ cmd[c].pc \notin Deletions \/ cmd[c].pc = "entries" => cmd[c].drop \subseteq index

\* A prune has listed all snapshots and no newest backup.
PruneKnows(c) ==
    cmd[c].op = "prune" =>
        /\ cmd[c].pc \in {"entries", "records"} /\ cmd[c].drop = StaleRecords
        /\ cmd[c].file = NoPath
        /\ cmd[c].pc = "records" => \A r \in cmd[c].drop : r.id \notin DOMAIN entry

Knows(c) ==
    /\ MigrateKnows(c) /\ UndoKnows(c) /\ BackKnows(c) /\ RemoveKnows(c) /\ PruneKnows(c)

-------------------------------------------------------------------------------
(* Ids and texts are numbered. *)

UsedIds == DOMAIN entry \cup {r.id : r \in index} \cup {cmd[c].saved : c \in Invocations}

\* A command that will save something has an id left for it.
ToSave(c) ==
    \/ cmd[c].op = "migrate" /\ cmd[c].pc \in {"claim", "store", "manifest", "backup"}
    \/ cmd[c].op = "undo" /\ cmd[c].pc \in {"unregister", "get", "backup"}
    \/ cmd[c].op = "remove" /\ cmd[c].pc \in {"get", "backup"}
IdsOk ==
    /\ \A i \in UsedIds : i <= starts
    /\ \A c \in Invocations : ToSave(c) => \A i \in UsedIds : i < starts
    /\ \A r, s \in index : r.id = s.id => r = s

Written == Cardinality(Paths) + edits
TextsOk ==
    /\ \A f \in Paths : latest[f] <= Written /\ took[f] <= Written
    /\ \A i \in DOMAIN entry : entry[i].val <= Written
    /\ \A c \in Invocations : cmd[c].content.val <= Written

Ops == {"none", "migrate", "undo", "remove", "unmount", "prune"}
MigrationPlaces == {"none", "claim", "store", "manifest", "backup", "record", "clear", "place",
                    "register",
                    "unregister", "get", "resolve", "write", "secrets"} \cup Deletions
Command == [op : Ops, file : Paths \cup {NoPath}, pc : MigrationPlaces, content : Contents,
            name : Names \cup {NoName}, id : Nat, saved : 0 .. MaxStarts, mounted : BOOLEAN,
            drop : SUBSET Records, delete : SUBSET Names]
MigrationTyped ==
    /\ kind \in [Paths -> Kinds]
    /\ disk \in [Paths -> Contents]
    /\ secret \in [Names -> [val : {0} \cup Texts, owner : Paths \cup {NoPath}]]
    /\ manifests \in [Paths -> SUBSET Names]
    /\ registry \in [Paths -> Names \cup {NoName}]
    /\ DOMAIN entry \subseteq 1..MaxStarts
    /\ \A i \in DOMAIN entry : IsRegular(entry[i]) /\ entry[i] \in Contents
    /\ index \subseteq Records
    /\ cmd \in [Invocations -> Command]
    /\ latest \in [Paths -> {0} \cup Texts]
    /\ took \in [Paths -> {0} \cup Texts]
    /\ edits \in 0..MaxEdits /\ starts \in 0..MaxStarts /\ stops \in 0..MaxStops

MigrationInv ==
    /\ MigrationTyped /\ IdsOk /\ TextsOk
    /\ \A f \in Paths : FileOk(f)
    /\ \A c \in Invocations : Knows(c)

\* The least element is the minimum.
LEMMA MinIs ==
    ASSUME NEW T \in SUBSET Nat, NEW x \in T, \A y \in T : x <= y
    PROVE  Min(T) = x
<1>1. \A y \in T : (\A z \in T : y <= z) => y = x
    OBVIOUS
<1> QED BY <1>1 DEF Min

-------------------------------------------------------------------------------
(* Contents, numbers and records. *)

\* Paths are finitely many, and texts are numbered from 1.
LEMMA PathsCounted == Cardinality(Paths) \in Nat /\ Texts \subseteq Nat \ {0}
    BY FS_CardinalityType, MigrationAssumption DEF Texts

\* What is at a path is told by its kind.
LEMMA ContentFacts ==
    /\ \A v : IsText(Text(v)) /\ IsRegular(Text(v)) /\ Text(v).val = v /\ Text(v).kind # "refers"
    /\ \A n : ~IsText(Refers(n)) /\ IsRegular(Refers(n)) /\ Refers(n).kind = "refers"
              /\ Refers(n).name = n /\ Refers(n).val = 0
    /\ ~IsText(Pipe) /\ ~IsRegular(Pipe) /\ Pipe.kind # "refers" /\ Pipe.val = 0
    /\ ~IsText(Absent) /\ ~IsRegular(Absent) /\ Absent.kind # "refers" /\ Absent.val = 0
    /\ Absent # Pipe /\ Pipe \in Contents /\ Absent \in Contents
    /\ \A v \in Texts : Text(v) \in Contents
    /\ \A n \in Names : Refers(n) \in Contents
<1>1. /\ \A v : IsText(Text(v)) /\ IsRegular(Text(v)) /\ Text(v).val = v
                /\ Text(v).kind # "refers"
      /\ \A n : ~IsText(Refers(n)) /\ IsRegular(Refers(n)) /\ Refers(n).kind = "refers"
                /\ Refers(n).name = n /\ Refers(n).val = 0
    BY DEF IsText, IsRegular, Text, Refers
<1>2. /\ ~IsText(Pipe) /\ ~IsRegular(Pipe) /\ Pipe.kind # "refers" /\ Pipe.val = 0
      /\ ~IsText(Absent) /\ ~IsRegular(Absent) /\ Absent.kind # "refers" /\ Absent.val = 0
      /\ Absent # Pipe
    BY DEF IsText, IsRegular, Pipe, Absent
<1>3. /\ Pipe \in Contents /\ Absent \in Contents
      /\ \A v \in Texts : Text(v) \in Contents
      /\ \A n \in Names : Refers(n) \in Contents
    BY DEF Contents
<1> QED BY <1>1, <1>2, <1>3

\* What a path can hold is a text, a reference, or neither.
LEMMA ContentKinds ==
    ASSUME NEW x \in Contents
    PROVE  /\ IsText(x) => x = Text(x.val) /\ x.val \in Texts
           /\ x.kind = "refers" => x = Refers(x.name) /\ x.name \in Names
           /\ IsRegular(x) <=> IsText(x) \/ x.kind = "refers"
           /\ ~IsText(x) => x.val = 0
<1>1. CASE \E v \in Texts : x = Text(v)
    BY <1>1 DEF IsText, IsRegular, Text
<1>2. CASE \E n \in Names : x = Refers(n)
    BY <1>2 DEF IsText, IsRegular, Refers
<1>3. CASE x = Pipe \/ x = Absent
    BY <1>3 DEF IsText, IsRegular, Pipe, Absent
<1> QED BY <1>1, <1>2, <1>3 DEF Contents

\* NoName names no profile.
LEMMA NoNameIsNone == NoName \notin Names
    BY DEF NoName, Names

\* The newest of some records is one of them.
LEMMA NewestRecord ==
    ASSUME NEW S \in SUBSET Records, S # {}
    PROVE  \E r \in S : r.id = Max({s.id : s \in S}) /\ \A s \in S : s.id <= r.id
<1> DEFINE T == {s.id : s \in S}
<1>1. T \in SUBSET (1 .. MaxStarts) /\ T # {}
    BY DEF Records
<1>2. PICK x \in T : \A y \in T : x >= y
  <2> HIDE DEF T
  <2> QED BY <1>1, GreatestNatural, MigrationAssumption
<1>3. Max(T) = x
  <2> HIDE DEF T
  <2>1. T \in SUBSET Nat
      BY <1>1
  <2> QED BY <1>2, <2>1, MaxIs
<1>4. PICK r \in S : r.id = x
    BY <1>2
<1>5. \A s \in S : s.id <= x
    BY <1>1, <1>2
<1> QED BY <1>3, <1>4, <1>5

\* The newest record has the greatest id.
LEMMA NewestRecordIs ==
    ASSUME NEW S \in SUBSET Records, NEW r \in S, \A s \in S : s.id <= r.id
    PROVE  Max({s.id : s \in S}) = r.id
<1> DEFINE T == {s.id : s \in S}
<1>1. T \in SUBSET Nat /\ r.id \in T /\ \A y \in T : r.id >= y
    BY DEF Records
<1> HIDE DEF T
<1>2. Max(T) = r.id
    BY <1>1, MaxIs
<1> QED BY <1>2 DEF T

\* An id no backup has.
LEMMA NextIdIsNew ==
    ASSUME MigrationTyped
    PROVE  /\ NextId \in Nat \ {0} /\ \A i \in UsedIds : i < NextId
           /\ \A n \in Nat : (\A i \in UsedIds : i < n) => NextId <= n \/ n = 0
<1> DEFINE T == {0} \cup DOMAIN entry \cup {r.id : r \in index}
                      \cup {cmd[c].saved : c \in Invocations}
<1>1. T \in SUBSET (0 .. MaxStarts)
  <2>1. \A r \in index : r.id \in 1 .. MaxStarts
      BY DEF MigrationTyped, Records
  <2>2. \A c \in Invocations : cmd[c].saved \in 0 .. MaxStarts
      BY DEF MigrationTyped, Command
  <2>3. DOMAIN entry \subseteq 1 .. MaxStarts /\ MaxStarts \in Nat
      BY MigrationAssumption DEF MigrationTyped
  <2> QED BY <2>1, <2>2, <2>3
<1>2. T = {0} \cup UsedIds
    BY Zenon DEF UsedIds
<1>3. NextId = 1 + Max(T)
    BY DEF NextId
<1> HIDE DEF T
<1>4. PICK x \in T : \A y \in T : x >= y
  <2> DEFINE U == {y + 1 : y \in T}
  <2>1. U \in SUBSET (1 .. MaxStarts + 1) /\ U # {} /\ MaxStarts + 1 \in Nat
    <3>1. MaxStarts \in Nat
        BY MigrationAssumption
    <3>2. 0 \in T
        BY <1>2
    <3> QED BY <1>1, <3>1, <3>2
  <2>2. PICK z \in U : \A u \in U : z >= u
    <3> HIDE DEF U
    <3> QED BY <2>1, GreatestNatural
  <2>3. PICK x \in T : z = x + 1
      BY <2>2
  <2>4. \A y \in T : x + 1 >= y + 1
      BY <2>2, <2>3
  <2>5. x \in Int /\ \A y \in T : y \in Int
      BY <1>1, <2>3
  <2> QED BY <2>3, <2>4, <2>5
<1>5. Max(T) = x /\ x \in Nat
  <2>1. T \in SUBSET Nat
      BY <1>1
  <2> QED BY <1>4, <2>1, MaxIs
<1>6. \A y \in T : y \in Nat /\ y < NextId
    BY <1>1, <1>3, <1>4, <1>5
<1>7. \A n \in Nat : (\A i \in UsedIds : i < n) => NextId <= n \/ n = 0
    BY <1>2, <1>3, <1>4, <1>5
<1>8. NextId \in Nat \ {0}
    BY <1>3, <1>5
<1>9. \A i \in UsedIds : i < NextId
    BY <1>2, <1>6
<1> QED BY <1>7, <1>8, <1>9, Zenon

-------------------------------------------------------------------------------
(* What a step that is about something else leaves of a file. *)

SameText(f) ==
    kind'[f] = kind[f] /\ disk'[f] = disk[f] /\ latest'[f] = latest[f] /\ took'[f] = took[f]
SameVault(f) ==
    registry'[f] = registry[f] /\ manifests'[f] = manifests[f]
        /\ \A n \in manifests[f] : secret'[n] = secret[n]
SameBackups(f) ==
    /\ \A r : r \in index' /\ r.file = f <=> r \in index /\ r.file = f
    /\ \A r \in index : r.file = f =>
          /\ r.id \in DOMAIN entry' <=> r.id \in DOMAIN entry
          /\ r.id \in DOMAIN entry => entry'[r.id] = entry[r.id]
SameNewest(f) ==
    /\ HasBackup(f)' <=> HasBackup(f)
    /\ HasBackup(f) =>
          /\ LatestBackup(f)' = LatestBackup(f)
          /\ LatestBackup(f)' \in DOMAIN entry' <=> LatestBackup(f) \in DOMAIN entry
          /\ LatestBackup(f) \in DOMAIN entry =>
                entry'[LatestBackup(f)'] = entry[LatestBackup(f)]

\* The newest backup, where there is one, is the record with the greatest id.
LEMMA LatestIs ==
    ASSUME MigrationTyped, NEW f, HasBackup(f)
    PROVE  \E r \in BackupsOf(f) :
              r.id = LatestBackup(f) /\ \A s \in BackupsOf(f) : s.id <= r.id
<1>1. BackupsOf(f) \in SUBSET Records /\ BackupsOf(f) # {}
    BY DEF MigrationTyped, BackupsOf, HasBackup
<1> QED BY <1>1, NewestRecord DEF LatestBackup

\* The id of the newest backup is a natural.
LEMMA LatestIsNatural ==
    ASSUME MigrationTyped, NEW f, HasBackup(f)
    PROVE  LatestBackup(f) \in Nat
<1>1. PICK r \in BackupsOf(f) : r.id = LatestBackup(f)
    BY LatestIs
<1> QED BY <1>1 DEF MigrationTyped, BackupsOf, Records

\* The newest backup of a file with the same backups is the same.
LEMMA NewestStays ==
    ASSUME MigrationTyped, NEW f, SameBackups(f)
    PROVE  SameNewest(f)
<1>1. BackupsOf(f)' = BackupsOf(f)
    BY DEF BackupsOf, SameBackups
<1>2. (HasBackup(f)' <=> HasBackup(f)) /\ LatestBackup(f)' = LatestBackup(f)
    BY <1>1 DEF HasBackup, LatestBackup
<1>3. ASSUME HasBackup(f)
      PROVE  /\ LatestBackup(f) \in DOMAIN entry' <=> LatestBackup(f) \in DOMAIN entry
             /\ LatestBackup(f) \in DOMAIN entry =>
                   entry'[LatestBackup(f)] = entry[LatestBackup(f)]
  <2>1. PICK r \in BackupsOf(f) : r.id = LatestBackup(f)
      BY <1>3, LatestIs
  <2> QED BY <2>1 DEF BackupsOf, SameBackups
<1> QED BY <1>2, <1>3, Zenon DEF SameNewest

\* The same newest backup is a copy of the same text.
LEMMA CopyStays ==
    ASSUME NEW f, SameNewest(f)
    PROVE  /\ latest'[f] = latest[f] => (Copied(f)' <=> Copied(f))
           /\ took'[f] = took[f] => (Backed(f)' <=> Backed(f))
    BY DEF SameNewest, Copied, Backed, Text, IsText

\* A profile whose vault is the same serves the same.
LEMMA ServiceStays ==
    ASSUME NEW f, NEW n, SameVault(f), latest'[f] = latest[f]
    PROVE  Serving(f, n)' <=> Serving(f, n)
    BY DEF Serving, SameVault

\* The same backups hold the same snapshots.
LEMMA SnapshotsStay ==
    ASSUME NEW f, SameBackups(f), latest'[f] = latest[f]
    PROVE  Snapped(f, latest[f])' <=> Snapped(f, latest[f])
    BY DEF Snapped, SameBackups, Text

\* A file that nothing touched.
LEMMA FileStays ==
    ASSUME MigrationTyped, NEW f \in Paths, FileOk(f),
           SameText(f), SameVault(f), SameBackups(f), Deleting(f) => Deleting(f)'
    PROVE  FileOk(f)'
<1>1. SameNewest(f) /\ latest'[f] = latest[f] /\ took'[f] = took[f]
    BY NewestStays DEF SameText
<1>2. /\ Copied(f)' <=> Copied(f)
      /\ Backed(f)' <=> Backed(f)
      /\ HasBackup(f)' <=> HasBackup(f)
      /\ Snapped(f, latest[f])' <=> Snapped(f, latest[f])
    BY <1>1, CopyStays, SnapshotsStay, Zenon DEF SameNewest
<1>0. \A n : Serving(f, n)' <=> Serving(f, n)
    BY <1>1, ServiceStays, Zenon
<1>3. TextOk(f)'
  <2>1. Safe(f)' <=> Safe(f)
    <3>1. disk'[f] = Text(latest[f])' <=> disk[f] = Text(latest[f])
        BY DEF SameText, Text
    <3>2. (\E n \in Names : Serving(f, n))' <=> \E n \in Names : Serving(f, n)
        BY <1>0 DEF Names
    <3> QED BY <1>2, <3>1, <3>2, Zenon DEF Safe
  <2> QED BY <2>1, <1>1 DEF FileOk, TextOk, SameText, IsText, Text
<1>4. DiskOk(f)'
    BY <1>0, <1>2 DEF FileOk, DiskOk, SameText, SameVault, IsText, NoName
<1>5. VaultOk(f) => VaultOk(f)'
    BY <1>2 DEF VaultOk, SameVault
<1> QED BY <1>3, <1>4, <1>5, Zenon DEF FileOk

\* A command that only reads leaves every file.
LEMMA FilesStay ==
    ASSUME MigrationTyped, \A f \in Paths : FileOk(f),
           UNCHANGED <<kind, disk, stored, latest, took>>,
           \A f \in Paths : Deleting(f) => Deleting(f)'
    PROVE  \A f \in Paths : FileOk(f)'
<1> SUFFICES ASSUME NEW f \in Paths
             PROVE  FileOk(f)'
    OBVIOUS
<1>1. SameText(f) /\ SameVault(f) /\ SameBackups(f)
    BY DEF SameText, SameVault, SameBackups, stored
<1> QED BY <1>1, FileStays

-------------------------------------------------------------------------------
(* Steps of the one command there is. *)

\* The command goes on to m.
LEMMA Becomes ==
    ASSUME OneInvocation, MigrationTyped, NEW c \in Invocations, NEW m \in Command,
           cmd' = [cmd EXCEPT ![c] = m]
    PROVE  /\ cmd' \in [Invocations -> Command] /\ cmd'[c] = m
           /\ \A f : Deleting(f)' <=> m.op = "remove" /\ m.file = f /\ m.pc \in Deletions
           /\ UsedIds' = DOMAIN entry' \cup {r.id : r \in index'} \cup {m.saved}
<1>1. cmd' \in [Invocations -> Command] /\ cmd'[c] = m
    BY DEF MigrationTyped
<1>2. \A d \in Invocations : d = c
    BY DEF OneInvocation
<1>3. \A f : Deleting(f)' <=> m.op = "remove" /\ m.file = f /\ m.pc \in Deletions
    BY <1>1, <1>2 DEF Deleting
<1>4. {cmd'[d].saved : d \in Invocations} = {m.saved}
    BY <1>1, <1>2
<1> QED BY <1>1, <1>3, <1>4, Zenon DEF UsedIds

\* A command that is not running.
LEMMA IdleIsCommand ==
    Idle \in Command /\ Idle.op = "none" /\ Idle.saved = 0 /\ Idle.content = Absent
<1>1. /\ NoPath \in Paths \cup {NoPath} /\ NoName \in Names \cup {NoName} /\ Absent \in Contents
      /\ 0 \in 0 .. MaxStarts
    BY ContentFacts, MigrationAssumption
<1>2. {} \in SUBSET Records /\ {} \in SUBSET Names /\ "none" \in Ops /\ "none" \in MigrationPlaces
    BY DEF Ops, MigrationPlaces
<1>3. Idle \in Command
    BY <1>1, <1>2 DEF Idle, Command
<1> QED BY <1>3 DEF Idle

\* With one command, a removal of f is that command.
LEMMA DeletingIs ==
    ASSUME OneInvocation, NEW c \in Invocations, NEW f
    PROVE  Deleting(f) <=> cmd[c].op = "remove" /\ cmd[c].file = f /\ cmd[c].pc \in Deletions
    BY DEF Deleting, OneInvocation

\* With one command, the ids in use are those of the vault and its own.
LEMMA UsedIdsAre ==
    ASSUME OneInvocation, NEW c \in Invocations
    PROVE  UsedIds = DOMAIN entry \cup {r.id : r \in index} \cup {cmd[c].saved}
<1>1. {cmd[d].saved : d \in Invocations} = {cmd[c].saved}
    BY DEF OneInvocation
<1> QED BY <1>1, Zenon DEF UsedIds

\* The rest of what the command holds stays.
SameCommand(c) ==
    /\ cmd'[c].op = cmd[c].op /\ cmd'[c].file = cmd[c].file /\ cmd'[c].content = cmd[c].content
    /\ cmd'[c].name = cmd[c].name /\ cmd'[c].id = cmd[c].id /\ cmd'[c].saved = cmd[c].saved
    /\ cmd'[c].mounted = cmd[c].mounted /\ cmd'[c].drop = cmd[c].drop
    /\ cmd'[c].delete = cmd[c].delete

\* A command goes on to another place.
LEMMA Advances ==
    ASSUME OneInvocation, MigrationTyped, NEW c \in Invocations,
           NEW pc \in MigrationPlaces, GoesTo(c, pc)
    PROVE  /\ cmd' \in [Invocations -> Command] /\ cmd'[c].pc = pc /\ SameCommand(c)
           /\ \A f : Deleting(f)' <=>
                        cmd[c].op = "remove" /\ cmd[c].file = f /\ pc \in Deletions
           /\ UsedIds' = DOMAIN entry' \cup {r.id : r \in index'} \cup {cmd[c].saved}
<1> DEFINE m == [cmd[c] EXCEPT !.pc = pc]
<1>1. cmd[c] \in Command
    BY DEF MigrationTyped
<1>2. m \in Command
    BY <1>1 DEF Command
<1>3. /\ m.op = cmd[c].op /\ m.file = cmd[c].file /\ m.content = cmd[c].content
      /\ m.name = cmd[c].name /\ m.id = cmd[c].id /\ m.saved = cmd[c].saved
      /\ m.mounted = cmd[c].mounted /\ m.drop = cmd[c].drop /\ m.delete = cmd[c].delete
      /\ m.pc = pc
    BY <1>1 DEF Command
<1>4. cmd' = [cmd EXCEPT ![c] = m]
    BY DEF GoesTo
<1> HIDE DEF m
<1>5. /\ cmd' \in [Invocations -> Command] /\ cmd'[c] = m
      /\ \A f : Deleting(f)' <=> m.op = "remove" /\ m.file = f /\ m.pc \in Deletions
      /\ UsedIds' = DOMAIN entry' \cup {r.id : r \in index'} \cup {m.saved}
    BY <1>2, <1>4, Becomes
<1>6. SameCommand(c)
    BY <1>3, <1>5 DEF SameCommand
<1>7. \A f : Deleting(f)' <=> cmd[c].op = "remove" /\ cmd[c].file = f /\ pc \in Deletions
    BY <1>3, <1>5
<1> QED BY <1>3, <1>5, <1>6, <1>7, Zenon

\* What a step owes the invariant.
Kept(c) ==
    MigrationTyped' /\ IdsOk' /\ TextsOk' /\ (\A f \in Paths : FileOk(f)') /\ Knows(c)'

\* What a step of the one command must keep.
LEMMA KeptIsEnough ==
    ASSUME OneInvocation, NEW c \in Invocations, Kept(c)
    PROVE  MigrationInv'
<1>1. \A d \in Invocations : d = c
    BY DEF OneInvocation
<1> QED BY <1>1 DEF Kept, MigrationInv

\* What a command knows is what its kind of command knows.
LEMMA KnowsItsOwn ==
    ASSUME NEW c
    PROVE  /\ cmd'[c].op = "none" => Knows(c)'
           /\ cmd'[c].op = "migrate" /\ MigrateKnows(c)' => Knows(c)'
           /\ cmd'[c].op = "undo" /\ UndoKnows(c)' => Knows(c)'
           /\ cmd'[c].op = "unmount" /\ BackKnows(c)' => Knows(c)'
           /\ cmd'[c].op = "remove" /\ BackKnows(c)' /\ RemoveKnows(c)' => Knows(c)'
           /\ cmd'[c].op = "prune" /\ PruneKnows(c)' => Knows(c)'
    BY DEF Knows, MigrateKnows, UndoKnows, BackKnows, RemoveKnows, PruneKnows

\* Ids stay numbered when none is added.
LEMMA IdsStay ==
    ASSUME OneInvocation, MigrationTyped, IdsOk, NEW c \in Invocations,
           index' \subseteq index, DOMAIN entry' \subseteq DOMAIN entry, starts' = starts,
           cmd'[c].saved \in {0, cmd[c].saved}, ToSave(c)' => ToSave(c)
    PROVE  IdsOk'
<1>1. UsedIds = DOMAIN entry \cup {r.id : r \in index} \cup {cmd[c].saved}
    BY UsedIdsAre
<1>2. UsedIds' = DOMAIN entry' \cup {r.id : r \in index'} \cup {cmd'[c].saved}
  <2>1. {cmd'[d].saved : d \in Invocations} = {cmd'[c].saved}
      BY DEF OneInvocation
  <2> QED BY <2>1, Zenon DEF UsedIds
<1>3. UsedIds' \subseteq UsedIds \cup {0}
    BY <1>1, <1>2
<1>4. starts \in Nat /\ cmd[c].saved \in Nat /\ cmd[c].saved \in UsedIds
    BY <1>1, MigrationAssumption DEF MigrationTyped, Command
<1>5. \A i \in UsedIds' : i <= starts'
    BY <1>3, <1>4 DEF IdsOk
<1>6. \A d \in Invocations : ToSave(d)' => \A i \in UsedIds' : i < starts'
  <2> SUFFICES ASSUME NEW d \in Invocations, ToSave(d)', NEW i \in UsedIds'
               PROVE  i < starts'
      OBVIOUS
  <2>1. d = c
      BY DEF OneInvocation
  <2>2. \A j \in UsedIds : j < starts
      BY <2>1 DEF IdsOk
  <2> QED BY <1>3, <1>4, <2>2
<1> QED BY <1>5, <1>6 DEF IdsOk

\* A step that only turns the page of the command.
LEMMA OnlyReads ==
    ASSUME OneInvocation, MigrationInv, NEW c \in Invocations,
           UNCHANGED <<kind, disk, stored, latest, took, edits, starts>>,
           stops' \in 0 .. MaxStops, cmd' \in [Invocations -> Command],
           cmd'[c].saved \in {0, cmd[c].saved}, ToSave(c)' => ToSave(c),
           cmd'[c].content.val <= Written,
           \A f \in Paths : Deleting(f) => Deleting(f)',
           Knows(c)'
    PROVE  Kept(c)
<1>1. MigrationTyped'
    BY DEF MigrationInv, MigrationTyped, stored
<1>2. IdsOk'
    BY IdsStay DEF MigrationInv, stored
<1>3. TextsOk'
    BY DEF MigrationInv, TextsOk, Written, OneInvocation, stored
<1>4. \A f \in Paths : FileOk(f)'
    BY FilesStay DEF MigrationInv
<1> QED BY <1>1, <1>2, <1>3, <1>4 DEF Kept

\* A command of these kinds saves nothing.
LEMMA NotToSave ==
    ASSUME NEW c, cmd'[c].op \in {"none", "unmount", "prune"}
    PROVE  ~ToSave(c)'
    BY DEF ToSave

\* A command ends, or stops half way, with nothing done.
LEMMA JustEnds ==
    ASSUME OneInvocation, MigrationInv, NEW c \in Invocations,
           UNCHANGED <<kind, disk, stored, latest, took, edits, starts>>,
           stops' \in 0 .. MaxStops, Ends(c),
           cmd[c].op # "remove" \/ cmd[c].pc \notin Deletions
    PROVE  Kept(c)
<1>1. cmd' \in [Invocations -> Command] /\ cmd'[c] = Idle
    BY Becomes, IdleIsCommand DEF Ends, MigrationInv
<1>2. /\ cmd'[c].saved = 0 /\ cmd'[c].op = "none" /\ cmd'[c].content.val <= Written
  <2>1. Written \in Nat
      BY PathsCounted, MigrationAssumption DEF Written, MigrationInv, MigrationTyped
  <2> QED BY <1>1, <2>1, IdleIsCommand, ContentFacts
<1>3. \A f : ~Deleting(f)
    BY DeletingIs
<1> QED BY <1>1, <1>2, <1>3, OnlyReads, NotToSave, KnowsItsOwn

-------------------------------------------------------------------------------
(* Commands begin and stop. *)

\* The user keeps away from what is being worked on, removes a project only
\* as jit left it, and no removal stops between its deletions.
NoLiberties == Liberties = {}

\* Texts, starts, edits and stops are counted in naturals.
LEMMA WrittenCounts ==
    ASSUME MigrationTyped
    PROVE  /\ Written \in Nat /\ starts \in Nat /\ edits \in Nat /\ stops \in Nat
           /\ edits < MaxEdits => Written + 1 \in Texts
           /\ MaxStarts \in Nat /\ MaxEdits \in Nat /\ MaxStops \in Nat
    BY PathsCounted, MigrationAssumption DEF Written, MigrationTyped, Texts

\* A command that is killed or fails leaves every file recoverable.
LEMMA Stopping ==
    ASSUME OneInvocation, NoLiberties, MigrationInv, NEW c \in Invocations, Stops(c)
    PROVE  Kept(c)
<1>1. cmd[c].op # "remove" \/ cmd[c].pc \notin Deletions
    BY DEF Stops, NoLiberties
<1>2. stops' \in 0 .. MaxStops
    BY WrittenCounts DEF Stops, MigrationInv
<1>3. UNCHANGED <<kind, disk, stored, latest, took, edits, starts>> /\ Ends(c)
    BY DEF Stops
<1> QED BY <1>1, <1>2, <1>3, JustEnds

\* A command begins.
LEMMA Begins ==
    ASSUME OneInvocation, MigrationInv, NEW c \in Invocations, NEW m \in Command,
           Begin(c, m), m.saved = 0, m.content.val <= Written
    PROVE  /\ cmd'[c] = m /\ cmd[c] = Idle
           /\ UNCHANGED <<kind, disk, stored, latest, took, edits, stops>>
           /\ Knows(c)' => Kept(c)
<1>1. /\ cmd[c] = Idle /\ cmd' = [cmd EXCEPT ![c] = m]
      /\ UNCHANGED <<kind, disk, stored, latest, took, edits, stops>>
      /\ starts < MaxStarts /\ starts' = starts + 1
    BY DEF Begin
<1>2. /\ cmd' \in [Invocations -> Command] /\ cmd'[c] = m
      /\ UsedIds' = DOMAIN entry' \cup {r.id : r \in index'} \cup {0}
    BY <1>1, Becomes DEF MigrationInv
<1>3. starts \in Nat /\ MaxStarts \in Nat
    BY WrittenCounts DEF MigrationInv
<1>4. MigrationTyped'
    BY <1>1, <1>2, <1>3 DEF MigrationInv, MigrationTyped, stored
<1>5. IdsOk'
  <2>1. UsedIds' \subseteq UsedIds \cup {0}
      BY <1>1, <1>2 DEF UsedIds, stored
  <2>2. \A i \in UsedIds' : i \in Nat
      BY <1>1, <1>2 DEF MigrationInv, MigrationTyped, Records, stored
  <2>3. \A i \in UsedIds' : i < starts' /\ i <= starts'
    <3>1. \A i \in UsedIds : i <= starts
        BY DEF MigrationInv, IdsOk
    <3> QED BY <1>1, <1>3, <2>1, <2>2, <3>1
  <2>4. \A r, s \in index' : r.id = s.id => r = s
      BY <1>1 DEF MigrationInv, IdsOk, stored
  <2> QED BY <2>3, <2>4, Zenon DEF IdsOk
<1>6. TextsOk'
    BY <1>1, <1>2 DEF MigrationInv, TextsOk, Written, OneInvocation, stored
<1>7. \A f \in Paths : FileOk(f)'
  <2>1. \A f \in Paths : ~Deleting(f)
      BY <1>1, DeletingIs, IdleIsCommand
  <2> QED BY <1>1, <2>1, FilesStay DEF MigrationInv
<1> QED BY <1>1, <1>2, <1>4, <1>5, <1>6, <1>7 DEF Kept

\* A migration begins.
LEMMA MigrateStarts ==
    ASSUME OneInvocation, MigrationInv, NEW c \in Invocations, NEW f \in Paths, StartMigrate(c, f)
    PROVE  Kept(c)
<1> DEFINE m == [Idle EXCEPT !.op = "migrate", !.file = f, !.pc = "claim", !.content = disk[f]]
<1>1. IsText(disk[f]) /\ Begin(c, m)
    BY DEF StartMigrate
<1>2. disk[f] \in Contents /\ disk[f] = Text(latest[f]) /\ latest[f] <= Written
    BY <1>1 DEF MigrationInv, MigrationTyped, FileOk, TextOk, TextsOk
<1>3. /\ m \in Command /\ m.saved = 0 /\ m.content = disk[f]
      /\ m.op = "migrate" /\ m.file = f /\ m.pc = "claim"
  <2>1. "migrate" \in Ops /\ "claim" \in MigrationPlaces
      BY DEF Ops, MigrationPlaces
  <2> QED BY <1>2, <2>1, IdleIsCommand DEF Command
<1>4. m.content.val <= Written
    BY <1>2, <1>3, ContentFacts
<1> HIDE DEF m
<1>5. cmd'[c] = m /\ UNCHANGED disk /\ (Knows(c)' => Kept(c))
    BY <1>1, <1>3, <1>4, Begins
<1>6. MigrateKnows(c)'
    BY <1>1, <1>3, <1>5 DEF MigrateKnows, IsText
<1> QED BY <1>3, <1>5, <1>6, KnowsItsOwn

\* Undo goes back to the newest backup.
LEMMA UndoStarts ==
    ASSUME OneInvocation, MigrationInv, NEW c \in Invocations, NEW f \in Paths, StartUndo(c, f)
    PROVE  Kept(c)
<1> DEFINE m == [Idle EXCEPT !.op = "undo", !.file = f, !.id = LatestBackup(f),
                     !.mounted = registry[f] # NoName,
                     !.pc = IF registry[f] # NoName THEN "unregister" ELSE "get"]
<1>1. HasBackup(f) /\ Begin(c, m)
    BY DEF StartUndo
<1>2. LatestBackup(f) \in Nat
    BY <1>1, LatestIsNatural DEF MigrationInv
<1>3. /\ m \in Command /\ m.saved = 0 /\ m.content = Absent
      /\ m.op = "undo" /\ m.file = f /\ m.id = LatestBackup(f)
      /\ m.pc = IF registry[f] # NoName THEN "unregister" ELSE "get"
  <2>1. "undo" \in Ops /\ "unregister" \in MigrationPlaces /\ "get" \in MigrationPlaces
      BY DEF Ops, MigrationPlaces
  <2> QED BY <1>2, <2>1, IdleIsCommand DEF Command
<1>4. m.content.val <= Written
    BY <1>3, ContentFacts, WrittenCounts DEF MigrationInv
<1> HIDE DEF m
<1>5. cmd'[c] = m /\ UNCHANGED <<disk, stored, took>> /\ (Knows(c)' => Kept(c))
    BY <1>1, <1>3, <1>4, Begins
<1>6. UndoKnows(c)'
  <2>1. HasBackup(f)' /\ LatestBackup(f)' = LatestBackup(f) /\ registry' = registry
      BY <1>1, <1>5 DEF HasBackup, LatestBackup, BackupsOf, stored
  <2> QED BY <1>3, <1>5, <2>1, Zenon DEF UndoKnows
<1> QED BY <1>3, <1>5, <1>6, KnowsItsOwn

\* A removal that jit can still recognise its file by goes back by the mount,
\* by the pointer file, or by the backup; there is no other case.
LEMMA RemovalCases ==
    ASSUME NoLiberties, MigrationInv, NEW f \in Paths, AsJitLeftIt(f), ~Deleting(f),
           registry[f] = NoName, ~(kind[f] = "bak" /\ disk[f].kind = "refers")
    PROVE  IsRegular(disk[f]) /\ HasBackup(f) /\ Copied(f)
<1>1. disk[f] \in Contents /\ FileOk(f) /\ VaultOk(f)
    BY DEF MigrationInv, MigrationTyped, FileOk
<1>2. CASE disk[f].kind = "refers"
  <2>1. Copied(f)
      BY <1>1, <1>2 DEF FileOk, DiskOk
  <2> QED BY <1>1, <1>2, <2>1, ContentKinds DEF Copied
<1>3. CASE HasBackup(f) /\ entry[LatestBackup(f)] = disk[f]
  <2>1. LatestBackup(f) \in DOMAIN entry /\ IsText(disk[f])
      BY <1>1, <1>3 DEF VaultOk, Backed
  <2>2. disk[f] = Text(latest[f])
      BY <1>1, <2>1 DEF FileOk, TextOk
  <2> QED BY <1>1, <1>3, <2>1, <2>2, ContentKinds DEF Copied
<1> QED BY <1>2, <1>3 DEF AsJitLeftIt

\* A removal begins, of a file that is as jit left it.
LEMMA RemoveStarts ==
    ASSUME OneInvocation, NoLiberties, MigrationInv, NEW c \in Invocations, NEW f \in Paths,
           StartRemove(c, f)
    PROVE  Kept(c)
<1> DEFINE mounted == registry[f] # NoName
           inPlace == ~mounted /\ kind[f] = "bak" /\ disk[f].kind = "refers"
           rewritten == ~mounted /\ ~inPlace /\ IsRegular(disk[f]) /\ HasBackup(f)
           plan == [Idle EXCEPT !.op = "remove", !.file = f, !.mounted = mounted,
                                !.drop = {r \in index : r.file = f}, !.delete = DeletePaths(f)]
           m == CASE mounted   -> [plan EXCEPT !.pc = "resolve", !.name = registry[f]]
                  [] inPlace   -> [plan EXCEPT !.pc = "resolve", !.name = disk[f].name]
                  [] rewritten -> [plan EXCEPT !.pc = "get", !.id = LatestBackup(f)]
                  [] OTHER     -> [plan EXCEPT !.pc = "secrets"]
<1>1. AsJitLeftIt(f) /\ Begin(c, m)
  <2>1. "removes" \notin Liberties
      BY DEF NoLiberties
  <2> QED BY <2>1, Zenon DEF StartRemove
<1>2. cmd[c] = Idle
    BY <1>1 DEF Begin
<1>3. ~Deleting(f)
    BY <1>2, DeletingIs, IdleIsCommand
<1>4. /\ disk[f] \in Contents /\ DiskOk(f) /\ index \subseteq Records
      /\ registry[f] \in Names \cup {NoName}
    BY DEF MigrationInv, MigrationTyped, FileOk
<1>5. mounted \/ inPlace \/ rewritten
    BY <1>1, <1>3, RemovalCases
<1>6. /\ plan \in Command /\ plan.saved = 0 /\ plan.content = Absent
      /\ plan.op = "remove" /\ plan.file = f /\ plan.mounted = mounted
      /\ plan.drop = {r \in index : r.file = f} /\ plan.delete = DeletePaths(f)
  <2>1. "remove" \in Ops /\ mounted \in BOOLEAN
        /\ {r \in index : r.file = f} \in SUBSET Records /\ DeletePaths(f) \in SUBSET Names
      BY <1>4 DEF Ops, DeletePaths
  <2> HIDE DEF mounted
  <2> QED BY <2>1, IdleIsCommand DEF Command
<1>7. \/ mounted /\ m = [plan EXCEPT !.pc = "resolve", !.name = registry[f]]
      \/ inPlace /\ m = [plan EXCEPT !.pc = "resolve", !.name = disk[f].name]
      \/ rewritten /\ m = [plan EXCEPT !.pc = "get", !.id = LatestBackup(f)]
  <2> HIDE DEF plan
  <2> QED BY <1>5
<1> HIDE DEF plan, m
<1>8. /\ m \in Command /\ m.saved = 0 /\ m.content = Absent
      /\ m.op = "remove" /\ m.file = f /\ m.mounted = mounted
      /\ m.drop = {r \in index : r.file = f} /\ m.delete = DeletePaths(f)
      /\ \/ mounted /\ m.pc = "resolve" /\ m.name = registry[f]
         \/ inPlace /\ m.pc = "resolve" /\ m.name = disk[f].name
         \/ rewritten /\ m.pc = "get" /\ m.id = LatestBackup(f)
  <2>1. "resolve" \in MigrationPlaces /\ "get" \in MigrationPlaces
      BY DEF MigrationPlaces
  <2> HIDE DEF mounted, inPlace, rewritten
  <2>2. CASE mounted /\ m = [plan EXCEPT !.pc = "resolve", !.name = registry[f]]
      BY <1>4, <1>6, <2>1, <2>2 DEF Command
  <2>3. CASE inPlace /\ m = [plan EXCEPT !.pc = "resolve", !.name = disk[f].name]
    <3>1. disk[f].name \in Names
        BY <1>4, <2>3, ContentKinds DEF inPlace
    <3> QED BY <1>6, <2>1, <2>3, <3>1 DEF Command
  <2>4. CASE rewritten /\ m = [plan EXCEPT !.pc = "get", !.id = LatestBackup(f)]
    <3>1. LatestBackup(f) \in Nat
        BY <2>4, LatestIsNatural DEF MigrationInv, rewritten
    <3> QED BY <1>6, <2>1, <2>4, <3>1 DEF Command
  <2> QED BY <1>7, <2>2, <2>3, <2>4
<1>9. m.content.val <= Written
    BY <1>8, ContentFacts, WrittenCounts DEF MigrationInv
<1>10. cmd'[c] = m /\ UNCHANGED <<kind, disk, stored, latest>> /\ (Knows(c)' => Kept(c))
    BY <1>1, <1>8, <1>9, Begins
<1>11. RemoveKnows(c)'
  <2>1. \A g \in Paths \ {f} : DeletePaths(f) \cap manifests[g] = {}
      BY DEF DeletePaths, SharedOutside
  <2>2. m.pc \notin Deletions
      BY <1>8 DEF Deletions
  <2> QED BY <1>8, <1>10, <2>1, <2>2 DEF RemoveKnows, stored
<1>12. BackKnows(c)'
  <2>1. CASE m.pc = "resolve"
    <3>1. HasBackup(f) /\ Serving(f, m.name) /\ m.name \in Names
          /\ (registry[f] # NoName => m.mounted)
      <4>1. CASE mounted
          BY <1>4, <1>8, <2>1, <4>1 DEF DiskOk
      <4>2. CASE inPlace
        <5>1. kind[f] = "bak" /\ disk[f].kind = "refers" /\ m.name = disk[f].name
              /\ registry[f] = NoName
            BY <1>8, <2>1, <4>2
        <5>2. Serving(f, disk[f].name)
            BY <1>4, <5>1 DEF DiskOk
        <5>3. HasBackup(f) /\ disk[f].name \in Names
            BY <1>4, <5>1, ContentKinds DEF DiskOk, IsText
        <5> QED BY <5>1, <5>2, <5>3
      <4> QED BY <1>8, <2>1, <4>1, <4>2
    <3>2. PICK n : n = m.name
        OBVIOUS
    <3>3. HasBackup(f)' /\ registry' = registry /\ Serving(f, n)'
        BY <1>10, <3>1, <3>2 DEF HasBackup, BackupsOf, Serving, stored
    <3>4. /\ cmd'[c].op = "remove" /\ cmd'[c].file = f /\ cmd'[c].pc = "resolve"
          /\ cmd'[c].name = n /\ n \in Names /\ (registry'[f] # NoName' => cmd'[c].mounted)
        BY <1>8, <1>10, <2>1, <3>1, <3>2, <3>3 DEF NoName
    <3> QED BY <3>3, <3>4, Zenon DEF BackKnows, Deletions
  <2>2. CASE m.pc = "get"
    <3>1. Copied(f) /\ m.id = LatestBackup(f) /\ registry[f] = NoName
        BY <1>1, <1>3, <1>8, <2>2, RemovalCases
    <3>2. Copied(f)' /\ LatestBackup(f)' = LatestBackup(f) /\ registry' = registry
      <4>1. SameBackups(f) /\ latest'[f] = latest[f]
          BY <1>10 DEF SameBackups, stored
      <4> QED BY <1>10, <3>1, <4>1, NewestStays, CopyStays
            DEF LatestBackup, BackupsOf, stored, MigrationInv
    <3>3. /\ cmd'[c].op = "remove" /\ cmd'[c].file = f /\ cmd'[c].pc = "get"
          /\ cmd'[c].id = LatestBackup(f)' /\ registry'[f] = NoName'
        BY <1>8, <1>10, <2>2, <3>1, <3>2 DEF NoName
    <3> QED BY <3>2, <3>3, Zenon DEF BackKnows, Deletions
  <2> QED BY <1>8, <2>1, <2>2
<1> QED BY <1>8, <1>10, <1>11, <1>12, KnowsItsOwn

\* An unmount begins.
LEMMA UnmountStarts ==
    ASSUME OneInvocation, MigrationInv, NEW c \in Invocations, NEW f \in Paths, StartUnmount(c, f)
    PROVE  Kept(c)
<1> DEFINE m == [Idle EXCEPT !.op = "unmount", !.file = f, !.mounted = TRUE,
                             !.name = registry[f], !.pc = "resolve"]
<1>1. registry[f] # NoName /\ Begin(c, m)
    BY DEF StartUnmount
<1>2. registry[f] \in Names /\ DiskOk(f)
    BY <1>1 DEF MigrationInv, MigrationTyped, FileOk
<1>3. /\ m \in Command /\ m.saved = 0 /\ m.content = Absent
      /\ m.op = "unmount" /\ m.file = f /\ m.name = registry[f] /\ m.pc = "resolve"
      /\ m.mounted
  <2>1. "unmount" \in Ops /\ "resolve" \in MigrationPlaces
      BY DEF Ops, MigrationPlaces
  <2> QED BY <1>2, <2>1, IdleIsCommand DEF Command
<1>4. m.content.val <= Written
    BY <1>3, ContentFacts, WrittenCounts DEF MigrationInv
<1> HIDE DEF m
<1>5. cmd'[c] = m /\ UNCHANGED <<stored, latest>> /\ (Knows(c)' => Kept(c))
    BY <1>1, <1>3, <1>4, Begins
<1>6. BackKnows(c)'
  <2>1. PICK n \in Names : n = registry[f]
      BY <1>2
  <2>2. HasBackup(f)' /\ Serving(f, n)'
      BY <1>1, <1>2, <1>5, <2>1 DEF DiskOk, HasBackup, BackupsOf, Serving, stored
  <2>3. /\ cmd'[c].op = "unmount" /\ cmd'[c].file = f /\ cmd'[c].pc = "resolve"
        /\ cmd'[c].name = n /\ cmd'[c].mounted
      BY <1>3, <1>5, <2>1
  <2> QED BY <2>1, <2>2, <2>3, Zenon DEF BackKnows, Deletions
<1> QED BY <1>3, <1>5, <1>6, KnowsItsOwn

\* A prune begins.
LEMMA PruneStarts ==
    ASSUME OneInvocation, MigrationInv, NEW c \in Invocations, StartPrune(c)
    PROVE  Kept(c)
<1> DEFINE m == [Idle EXCEPT !.op = "prune", !.drop = StaleRecords, !.pc = "entries"]
<1>1. Begin(c, m)
    BY DEF StartPrune
<1>2. /\ m \in Command /\ m.saved = 0 /\ m.content = Absent
      /\ m.op = "prune" /\ m.drop = StaleRecords /\ m.pc = "entries" /\ m.file = NoPath
  <2>1. "prune" \in Ops /\ "entries" \in MigrationPlaces /\ StaleRecords \in SUBSET Records
      BY DEF Ops, MigrationPlaces, Deletions, StaleRecords, MigrationInv, MigrationTyped
  <2>2. Idle.file = NoPath
      BY DEF Idle
  <2> QED BY <2>1, <2>2, IdleIsCommand DEF Command
<1>3. m.content.val <= Written
    BY <1>2, ContentFacts, WrittenCounts DEF MigrationInv
<1> HIDE DEF m
<1>4. cmd'[c] = m /\ UNCHANGED stored /\ (Knows(c)' => Kept(c))
    BY <1>1, <1>2, <1>3, Begins
<1>5. PruneKnows(c)'
  <2>1. StaleRecords' = StaleRecords
      BY <1>4 DEF StaleRecords, HasBackup, LatestBackup, BackupsOf, stored
  <2> QED BY <1>2, <1>4, <2>1 DEF PruneKnows
<1> QED BY <1>2, <1>4, <1>5, KnowsItsOwn

-------------------------------------------------------------------------------
(* Places where a command only decides how it goes on. *)

\* The command becomes m, which has saved nothing more.
LEMMA GoesOnAs ==
    ASSUME OneInvocation, MigrationInv, NEW c \in Invocations, NEW m \in Command,
           cmd' = [cmd EXCEPT ![c] = m], UNCHANGED <<kind, disk, stored, ghosts>>,
           m.saved = cmd[c].saved, m.content.val <= Written, m.op = cmd[c].op,
           m.file = cmd[c].file, cmd[c].pc \notin Deletions,
           ToSave(c)' => ToSave(c)
    PROVE  cmd'[c] = m /\ (Knows(c)' => Kept(c))
<1>1. cmd' \in [Invocations -> Command] /\ cmd'[c] = m
    BY Becomes DEF MigrationInv
<1>2. \A f : ~Deleting(f)
    BY DeletingIs
<1>3. UNCHANGED <<kind, disk, stored, latest, took, edits, starts>> /\ stops' \in 0 .. MaxStops
    BY DEF ghosts, MigrationInv, MigrationTyped
<1> QED BY <1>1, <1>2, <1>3, OnlyReads

\* The first free candidate is a name no other store has.
LEMMA ClaimedIsFree ==
    ASSUME MigrationInv, NEW f \in Paths, Claimable(f) # {}, \A g \in Paths : ~Deleting(g)
    PROVE  Claimed(f) \in Names /\ \A g \in Paths \ {f} : Claimed(f) \notin manifests[g]
<1> DEFINE T == {n[2] : n \in Claimable(f)}
<1>1. T \in SUBSET Nat /\ T # {}
    BY MigrationAssumption DEF Claimable, Names
<1>2. PICK x \in T : \A y \in T : x <= y
  <2> HIDE DEF T
  <2> QED BY <1>1, LeastNatural
<1>3. Min(T) = x
  <2> HIDE DEF T
  <2> QED BY <1>1, <1>2, MinIs
<1>4. PICK n \in Claimable(f) : n[2] = x
    BY <1>2
<1>5. n = <<Base(f), x>>
    BY <1>4 DEF Claimable, Names
<1>6. Claimed(f) = n
    BY <1>3, <1>5 DEF Claimed
<1>7. \A g \in Paths \ {f} : n \notin manifests[g]
  <2> SUFFICES ASSUME NEW g \in Paths \ {f}, n \in manifests[g]
               PROVE  FALSE
      OBVIOUS
  <2>1. secret[n].owner = g /\ secret[n].val # 0
      BY DEF MigrationInv, FileOk, VaultOk
  <2>2. n \in manifests[f]
      BY <1>4, <2>1 DEF Claimable
  <2>3. secret[n].owner = f
      BY <2>2 DEF MigrationInv, FileOk, VaultOk
  <2> QED BY <2>1, <2>3
<1> QED BY <1>4, <1>6, <1>7 DEF Claimable

\* A migration claims a name that is free.
LEMMA Claiming ==
    ASSUME OneInvocation, MigrationInv, NEW c \in Invocations, Claim(c)
    PROVE  Kept(c)
<1> DEFINE f == cmd[c].file
<1>1. /\ cmd[c].op = "migrate" /\ cmd[c].pc = "claim" /\ cmd[c] \in Command
      /\ UNCHANGED <<kind, disk, stored, ghosts>>
    BY DEF Claim, At, MigrationInv, MigrationTyped
<1>2. f \in Paths /\ IsText(disk[f]) /\ cmd[c].content = disk[f]
    BY <1>1 DEF MigrationInv, Knows, MigrateKnows
<1>3. CASE Claimable(f) = {}
  <2>1. Ends(c) /\ UNCHANGED <<kind, disk, stored, latest, took, edits, starts>>
        /\ stops' \in 0 .. MaxStops
      BY <1>1, <1>3 DEF Claim, Ends, ghosts, MigrationInv, MigrationTyped
  <2> QED BY <1>1, <2>1, JustEnds
<1>4. CASE Claimable(f) # {}
  <2> DEFINE m == [cmd[c] EXCEPT !.name = Claimed(f), !.pc = "store"]
  <2>1. cmd' = [cmd EXCEPT ![c] = m]
      BY <1>4 DEF Claim
  <2>2. Claimed(f) \in Names /\ \A g \in Paths \ {f} : Claimed(f) \notin manifests[g]
    <3>1. \A g \in Paths : ~Deleting(g)
        BY <1>1, DeletingIs
    <3> QED BY <1>2, <1>4, <3>1, ClaimedIsFree
  <2>3. /\ m \in Command /\ m.saved = cmd[c].saved /\ m.content = cmd[c].content
        /\ m.op = "migrate" /\ m.file = f /\ m.pc = "store" /\ m.name = Claimed(f)
    <3>1. "store" \in MigrationPlaces
        BY DEF MigrationPlaces, Deletions
    <3> QED BY <1>1, <2>2, <3>1 DEF Command
  <2> HIDE DEF m
  <2>4. m.content.val <= Written /\ cmd[c].pc \notin Deletions /\ ToSave(c)
      BY <1>1, <2>3 DEF MigrationInv, TextsOk, Deletions, ToSave
  <2>5. cmd'[c] = m /\ (Knows(c)' => Kept(c))
      BY <1>1, <2>1, <2>3, <2>4, GoesOnAs
  <2>6. MigrateKnows(c)'
      BY <1>1, <1>2, <2>2, <2>3, <2>5 DEF MigrateKnows, IsText, stored
  <2> QED BY <2>3, <2>5, <2>6, KnowsItsOwn
<1> QED BY <1>3, <1>4

\* What a removal is to delete stays its own, up to the deletions.
LEMMA RemoveKnowsStill ==
    ASSUME NEW c, RemoveKnows(c), SameCommand(c), UNCHANGED manifests, index \subseteq index',
           cmd[c].pc \notin Deletions
    PROVE  RemoveKnows(c)'
<1>1. /\ cmd'[c].op = cmd[c].op /\ cmd'[c].file = cmd[c].file
      /\ cmd'[c].drop = cmd[c].drop /\ cmd'[c].delete = cmd[c].delete
    BY DEF SameCommand
<1> QED BY <1>1, Zenon DEF RemoveKnows

\* What an unmount or a removal is to write back is the text.
LEMMA BackWillWrite ==
    ASSUME NEW c, NEW f \in Paths, cmd'[c].file = f,
           cmd'[c].op \in {"remove", "unmount"}, cmd'[c].pc \in {"clear", "write"},
           registry'[f] # NoName => cmd'[c].mounted,
           cmd'[c].op = "unmount" => cmd'[c].mounted,
           HasBackup(f)', Copied(f)' \/ (\E n \in Names : Serving(f, n))',
           cmd'[c].content = Text(latest'[f])
    PROVE  BackKnows(c)'
<1>1. NoName' = NoName /\ Text(latest[f])' = Text(latest'[f])
    BY DEF NoName, Text
<1>2. CASE cmd'[c].pc = "clear"
    BY <1>1, <1>2, Zenon DEF BackKnows, Deletions
<1>3. CASE cmd'[c].pc = "write"
    BY <1>1, <1>3, Zenon DEF BackKnows, Deletions
<1> QED BY <1>2, <1>3

\* What an unmount or a removal writes is what the mount serves.
LEMMA Resolving ==
    ASSUME OneInvocation, MigrationInv, NEW c \in Invocations, Resolve(c)
    PROVE  Kept(c)
<1>0. PICK f, n : f = cmd[c].file /\ n = cmd[c].name
    OBVIOUS
<1>1. /\ cmd[c].op \in {"remove", "unmount"} /\ cmd[c].pc = "resolve" /\ cmd[c] \in Command
      /\ UNCHANGED <<kind, disk, stored, ghosts>>
    BY DEF Resolve, At, MigrationInv, MigrationTyped
<1>2. /\ f \in Paths /\ HasBackup(f) /\ Serving(f, n) /\ n \in Names
      /\ registry[f] # NoName => cmd[c].mounted
      /\ cmd[c].op = "unmount" => cmd[c].mounted
      /\ RemoveKnows(c)
    BY <1>0, <1>1 DEF MigrationInv, Knows, BackKnows
<1>3. CASE secret[n].val = 0
  <2>1. Ends(c) /\ UNCHANGED <<kind, disk, stored, latest, took, edits, starts>>
        /\ stops' \in 0 .. MaxStops
      BY <1>0, <1>1, <1>3 DEF Resolve, Ends, ghosts, MigrationInv, MigrationTyped
  <2>2. cmd[c].pc \notin Deletions
      BY <1>1 DEF Deletions
  <2> QED BY <2>1, <2>2, JustEnds
<1>4. CASE secret[n].val # 0
  <2> DEFINE m == [cmd[c] EXCEPT !.content = Text(secret[n].val), !.pc = "clear"]
  <2>1. cmd' = [cmd EXCEPT ![c] = m]
      BY <1>0, <1>4 DEF Resolve
  <2>2. /\ secret[n].val = latest[f] /\ latest[f] \in Texts
        /\ Text(latest[f]) \in Contents /\ Text(latest[f]).val = latest[f]
        /\ latest[f] <= Written
    <3>1. secret[n].val = latest[f] /\ secret[n].val \in {0} \cup Texts
        BY <1>2 DEF Serving, MigrationInv, MigrationTyped
    <3> QED BY <1>2, <1>4, <3>1, ContentFacts DEF MigrationInv, TextsOk
  <2>3. /\ m \in Command /\ m.saved = cmd[c].saved /\ m.content = Text(latest[f])
        /\ m.op = cmd[c].op /\ m.file = f /\ m.pc = "clear" /\ m.name = n
        /\ m.mounted = cmd[c].mounted /\ m.drop = cmd[c].drop /\ m.delete = cmd[c].delete
    <3>1. "clear" \in MigrationPlaces
        BY DEF MigrationPlaces, Deletions
    <3> QED BY <1>0, <1>1, <2>2, <3>1 DEF Command
  <2> HIDE DEF m
  <2>4. m.content.val <= Written /\ cmd[c].pc \notin Deletions /\ m.pc \notin Deletions
      BY <1>1, <2>2, <2>3 DEF Deletions
  <2>5. cmd'[c] = m /\ (Knows(c)' => Kept(c))
    <3>1. cmd'[c] = m
        BY <2>1, <1>1 DEF MigrationInv, MigrationTyped
    <3>2. ~ToSave(c)'
        BY <1>1, <2>3, <3>1 DEF ToSave
    <3> QED BY <1>0, <1>1, <2>1, <2>3, <2>4, <3>2, GoesOnAs
  <2>6. BackKnows(c)'
    <3>1. HasBackup(f)' /\ (\E k \in Names : Serving(f, k))' /\ registry' = registry
          /\ latest' = latest
        BY <1>1, <1>2 DEF HasBackup, BackupsOf, Serving, stored, ghosts, Names
    <3>2. /\ cmd'[c].op \in {"remove", "unmount"} /\ cmd'[c].file = f /\ cmd'[c].pc = "clear"
          /\ cmd'[c].content = Text(latest'[f]) /\ cmd'[c].mounted = cmd[c].mounted
          /\ cmd'[c].op = cmd[c].op
        BY <1>1, <2>3, <2>5, <3>1
    <3> QED BY <1>2, <3>1, <3>2, BackWillWrite
  <2>7. RemoveKnows(c)'
      BY <1>0, <1>1, <1>2, <2>3, <2>4, <2>5 DEF RemoveKnows, stored
  <2> QED BY <1>1, <2>3, <2>5, <2>6, <2>7, KnowsItsOwn
<1> QED BY <1>3, <1>4

\* The same index and entries are the same backups.
LEMMA BackupsStay ==
    ASSUME MigrationTyped, UNCHANGED <<index, entry>>, NEW f, latest'[f] = latest[f]
    PROVE  /\ HasBackup(f)' <=> HasBackup(f)
           /\ Copied(f)' <=> Copied(f)
           /\ LatestBackup(f)' = LatestBackup(f)
<1>1. SameBackups(f)
    BY DEF SameBackups
<1>2. LatestBackup(f)' = LatestBackup(f) /\ (HasBackup(f)' <=> HasBackup(f))
    BY DEF LatestBackup, HasBackup, BackupsOf
<1> QED BY <1>1, <1>2, NewestStays, CopyStays

\* What an undo goes back to is a text of the user's.
LEMMA UndoGets ==
    ASSUME OneInvocation, MigrationInv, NEW c \in Invocations, Get(c), cmd[c].op = "undo"
    PROVE  Kept(c)
<1>0. PICK f, i : f = cmd[c].file /\ i = cmd[c].id
    OBVIOUS
<1> DEFINE m == [cmd[c] EXCEPT !.content = entry[i], !.pc = "backup"]
<1>1. /\ cmd[c].pc = "get" /\ cmd[c] \in Command
      /\ UNCHANGED <<kind, disk, stored, ghosts>>
    BY DEF Get, At, MigrationInv, MigrationTyped
<1>2. f \in Paths /\ HasBackup(f) /\ i = LatestBackup(f) /\ registry[f] = NoName
    BY <1>0, <1>1 DEF MigrationInv, Knows, UndoKnows
<1>3. i \in DOMAIN entry /\ IsText(entry[i]) /\ took[f] <= entry[i].val
  <2>1. ~Deleting(f)
      BY DeletingIs
  <2> QED BY <1>2, <2>1 DEF MigrationInv, FileOk, VaultOk, Backed
<1>4. cmd' = [cmd EXCEPT ![c] = m]
    BY <1>0, <1>3 DEF Get
<1>5. /\ m \in Command /\ m.saved = cmd[c].saved /\ m.content = entry[i]
      /\ m.op = "undo" /\ m.file = f /\ m.pc = "backup"
  <2>1. "backup" \in MigrationPlaces /\ entry[i] \in Contents
      BY <1>3 DEF MigrationPlaces, Deletions, MigrationInv, MigrationTyped
  <2> QED BY <1>0, <1>1, <2>1 DEF Command
<1> HIDE DEF m
<1>6. m.content.val <= Written /\ cmd[c].pc \notin Deletions /\ ToSave(c)
    BY <1>1, <1>3, <1>5 DEF Deletions, ToSave, MigrationInv, TextsOk
<1>7. cmd'[c] = m /\ (Knows(c)' => Kept(c))
    BY <1>0, <1>1, <1>4, <1>5, <1>6, GoesOnAs
<1>8. UndoKnows(c)'
  <2>1. HasBackup(f)' /\ registry' = registry /\ took' = took
      BY <1>1, <1>2 DEF HasBackup, BackupsOf, stored, ghosts
  <2>2. /\ cmd'[c].op = "undo" /\ cmd'[c].file = f /\ cmd'[c].pc = "backup"
        /\ IsText(cmd'[c].content) /\ took'[f] <= cmd'[c].content.val
      BY <1>3, <1>5, <1>7, <2>1
  <2> QED BY <1>2, <2>1, <2>2 DEF UndoKnows, NoName, IsText
<1> QED BY <1>5, <1>7, <1>8, KnowsItsOwn

\* A removal finds its backup, and leaves a file that reads as it alone.
LEMMA RemoveGets ==
    ASSUME OneInvocation, MigrationInv, NEW c \in Invocations, Get(c), cmd[c].op = "remove"
    PROVE  Kept(c)
<1>0. PICK f, i : f = cmd[c].file /\ i = cmd[c].id
    OBVIOUS
<1>1. /\ cmd[c].pc = "get" /\ cmd[c] \in Command
      /\ UNCHANGED <<kind, disk, stored, ghosts>>
      /\ UNCHANGED <<kind, disk, stored, latest, took, edits, starts>> /\ stops' \in 0 .. MaxStops
    BY DEF Get, At, ghosts, MigrationInv, MigrationTyped
<1>2. /\ f \in Paths /\ Copied(f) /\ i = LatestBackup(f) /\ registry[f] = NoName
      /\ RemoveKnows(c)
    BY <1>0, <1>1 DEF MigrationInv, Knows, BackKnows
<1>3. i \in DOMAIN entry /\ entry[i] = Text(latest[f]) /\ IsText(entry[i])
    BY <1>2, ContentFacts DEF Copied
<1>4. Copied(f)' /\ registry' = registry /\ UNCHANGED <<latest, index, manifests>>
    BY <1>1, <1>2, BackupsStay DEF MigrationInv, stored, ghosts
<1>5. cmd[c].pc \notin Deletions /\ ToSave(c)
    BY <1>1 DEF Deletions, ToSave
<1>6. CASE disk[f] = entry[i]
  <2>1. GoesTo(c, "secrets") /\ "secrets" \in MigrationPlaces /\ "secrets" \notin Deletions
      BY <1>0, <1>6 DEF Get, GoesOn, MigrationPlaces, Deletions
  <2>2. cmd' \in [Invocations -> Command] /\ cmd'[c].pc = "secrets" /\ SameCommand(c)
      BY <2>1, Advances DEF MigrationInv
  <2>3. BackKnows(c)'
    <3>1. /\ cmd'[c].op = "remove" /\ cmd'[c].file = f /\ cmd'[c].pc = "secrets"
          /\ registry'[f] = NoName' /\ IsText(disk'[f])
        BY <1>0, <1>1, <1>2, <1>3, <1>4, <1>6, <2>2 DEF SameCommand, NoName
    <3> QED BY <1>2, <3>1 DEF BackKnows, Deletions, IsText, NoName
  <2>4. RemoveKnows(c)'
      BY <1>2, <1>4, <1>5, <2>2, RemoveKnowsStill
  <2>5. cmd'[c].op = "remove" /\ cmd'[c].saved = cmd[c].saved /\ cmd'[c].content.val <= Written
      BY <2>2 DEF SameCommand, MigrationInv, TextsOk
  <2>6. \A g : ~Deleting(g)
      BY <1>5, DeletingIs
  <2> QED BY <1>1, <1>5, <2>2, <2>3, <2>4, <2>5, <2>6, KnowsItsOwn, OnlyReads
<1>7. CASE disk[f] # entry[i]
  <2> DEFINE m == [cmd[c] EXCEPT !.content = entry[i], !.pc = "backup"]
  <2>1. cmd' = [cmd EXCEPT ![c] = m]
      BY <1>0, <1>3, <1>7 DEF Get
  <2>2. /\ m \in Command /\ m.saved = cmd[c].saved /\ m.content = entry[i]
        /\ m.op = "remove" /\ m.file = f /\ m.pc = "backup"
        /\ m.drop = cmd[c].drop /\ m.delete = cmd[c].delete
    <3>1. "backup" \in MigrationPlaces /\ entry[i] \in Contents
        BY <1>3 DEF MigrationPlaces, Deletions, MigrationInv, MigrationTyped
    <3> QED BY <1>0, <1>1, <3>1 DEF Command
  <2> HIDE DEF m
  <2>3. m.content.val <= Written
      BY <1>3, <2>2 DEF MigrationInv, TextsOk
  <2>4. cmd'[c] = m /\ (Knows(c)' => Kept(c))
      BY <1>0, <1>1, <1>5, <2>1, <2>2, <2>3, GoesOnAs
  <2>5. BackKnows(c)'
    <3>1. /\ cmd'[c].op = "remove" /\ cmd'[c].file = f /\ cmd'[c].pc = "backup"
          /\ registry'[f] = NoName' /\ cmd'[c].content = Text(latest'[f])
        BY <1>2, <1>3, <1>4, <2>2, <2>4 DEF NoName
    <3> QED BY <1>2, <1>4, <3>1 DEF BackKnows, Deletions, NoName
  <2>6. RemoveKnows(c)'
      BY <1>0, <1>1, <1>2, <1>4, <1>5, <2>2, <2>4 DEF RemoveKnows, Deletions
  <2> QED BY <2>2, <2>4, <2>5, <2>6, KnowsItsOwn
<1> QED BY <1>6, <1>7

-------------------------------------------------------------------------------
(* jit migrate. *)

\* Steps that save nothing and write no text.
LEMMA NumbersStay ==
    ASSUME OneInvocation, MigrationInv, NEW c \in Invocations,
           UNCHANGED <<index, entry, latest, took, edits, starts>>,
           cmd'[c].saved \in {0, cmd[c].saved}, ToSave(c)' => ToSave(c),
           cmd'[c].content.val <= Written
    PROVE  IdsOk' /\ TextsOk'
<1>1. IdsOk'
    BY IdsStay DEF MigrationInv
<1>2. TextsOk'
    BY DEF MigrationInv, TextsOk, Written, OneInvocation
<1> QED BY <1>1, <1>2

\* The files a command does not touch.
LEMMA OthersStay ==
    ASSUME OneInvocation, MigrationInv, NEW c \in Invocations, NEW f,
           cmd[c].op # "remove" \/ cmd[c].pc \notin Deletions,
           \A g \in Paths \ {f} : SameText(g) /\ SameVault(g) /\ SameBackups(g)
    PROVE  \A g \in Paths \ {f} : FileOk(g)'
<1> SUFFICES ASSUME NEW g \in Paths \ {f}
             PROVE  FileOk(g)'
    OBVIOUS
<1>1. FileOk(g) /\ MigrationTyped
    BY DEF MigrationInv
<1>2. ~Deleting(g)
    BY DeletingIs
<1> QED BY <1>1, <1>2, FileStays

\* A migrating command, and what it knows of the text it found.
LEMMA Migrating ==
    ASSUME OneInvocation, MigrationInv, NEW c \in Invocations, NEW f, NEW n,
           cmd[c].op = "migrate", f = cmd[c].file, n = cmd[c].name
    PROVE  /\ f \in Paths /\ cmd[c] \in Command /\ FileOk(f) /\ ~Deleting(f)
           /\ cmd[c].pc # "claim" => n \in Names /\ \A g \in Paths \ {f} : n \notin manifests[g]
           /\ cmd[c].pc \in {"claim", "store", "manifest", "backup", "record", "clear"} =>
                 /\ IsText(disk[f]) /\ disk[f] = Text(latest[f])
                 /\ latest[f] \in Texts /\ latest[f] # 0 /\ took[f] <= latest[f]
<1>1. /\ f \in Paths
      /\ cmd[c].pc # "claim" => n \in Names /\ \A g \in Paths \ {f} : n \notin manifests[g]
      /\ cmd[c].pc \in {"claim", "store", "manifest", "backup", "record", "clear"} =>
            IsText(disk[f])
    BY DEF MigrationInv, Knows, MigrateKnows
<1>2. cmd[c] \in Command /\ FileOk(f) /\ disk[f] \in Contents
    BY <1>1 DEF MigrationInv, MigrationTyped
<1>3. IsText(disk[f]) => /\ disk[f] = Text(latest[f]) /\ latest[f] \in Texts
                         /\ latest[f] # 0 /\ took[f] <= latest[f]
  <2>1. IsText(disk[f]) => disk[f] = Text(latest[f]) /\ disk[f].val \in Texts
      BY <1>2, ContentKinds DEF FileOk, TextOk
  <2>2. Text(latest[f]).val = latest[f]
      BY ContentFacts
  <2>3. \A v \in Texts : v # 0
      BY PathsCounted
  <2> QED BY <1>2, <2>1, <2>2, <2>3 DEF FileOk, TextOk
<1>4. ~Deleting(f)
    BY DeletingIs
<1> QED BY <1>1, <1>2, <1>3, <1>4

\* A migration stores the text in its own profile.
LEMMA Storing ==
    ASSUME OneInvocation, MigrationInv, NEW c \in Invocations, Store(c)
    PROVE  Kept(c)
<1>0. PICK f, n : f = cmd[c].file /\ n = cmd[c].name
    OBVIOUS
<1>1. /\ cmd[c].op = "migrate" /\ cmd[c].pc = "store" /\ GoesTo(c, "manifest")
      /\ UNCHANGED <<kind, disk, manifests, registry, entry, index, ghosts>>
    BY DEF Store, At
<1>2. /\ f \in Paths /\ n \in Names /\ FileOk(f) /\ ~Deleting(f)
      /\ \A g \in Paths \ {f} : n \notin manifests[g]
      /\ IsText(disk[f]) /\ disk[f] = Text(latest[f])
      /\ latest[f] \in Texts /\ latest[f] # 0
    BY <1>0, <1>1, Migrating
<1>3. cmd[c].content = disk[f]
    BY <1>0, <1>1 DEF MigrationInv, Knows, MigrateKnows
<1>4. /\ secret' = [secret EXCEPT ![n] = [val |-> latest[f], owner |-> f]]
      /\ secret'[n] = [val |-> latest[f], owner |-> f]
      /\ \A k \in Names \ {n} : secret'[k] = secret[k]
      /\ secret' \in [Names -> [val : {0} \cup Texts, owner : Paths \cup {NoPath}]]
  <2>1. cmd[c].content.val = latest[f]
      BY <1>2, <1>3, ContentFacts
  <2>2. secret \in [Names -> [val : {0} \cup Texts, owner : Paths \cup {NoPath}]]
      BY DEF MigrationInv, MigrationTyped
  <2>3. secret' = [secret EXCEPT ![n] = [val |-> latest[f], owner |-> f]]
      BY <1>0, <2>1 DEF Store
  <2> QED BY <1>2, <2>2, <2>3
<1>5. /\ cmd' \in [Invocations -> Command] /\ cmd'[c].pc = "manifest" /\ SameCommand(c)
      /\ "manifest" \in MigrationPlaces
  <2>1. "manifest" \in MigrationPlaces
      BY DEF MigrationPlaces
  <2> QED BY <1>1, <2>1, Advances DEF MigrationInv
<1>6. MigrationTyped'
    BY <1>1, <1>4, <1>5 DEF MigrationInv, MigrationTyped, ghosts
<1>7. IdsOk' /\ TextsOk'
  <2>1. ToSave(c) /\ UNCHANGED <<index, entry, latest, took, edits, starts>>
      BY <1>1 DEF ToSave, ghosts
  <2>2. cmd'[c].saved = cmd[c].saved /\ cmd'[c].content.val <= Written
      BY <1>5 DEF SameCommand, MigrationInv, TextsOk
  <2> QED BY <2>1, <2>2, NumbersStay
<1>8. \A g \in Paths \ {f} : FileOk(g)'
  <2>1. \A g \in Paths \ {f} : SameText(g) /\ SameVault(g) /\ SameBackups(g)
    <3>1. \A g \in Paths : manifests[g] \subseteq Names
        BY DEF MigrationInv, MigrationTyped
    <3> QED BY <1>1, <1>2, <1>4, <3>1 DEF SameText, SameVault, SameBackups, ghosts
  <2> QED BY <1>1, <2>1, OthersStay
<1>9. FileOk(f)'
  <2>1. \A k \in manifests[f] : k \in Names /\ (k = n \/ secret'[k] = secret[k])
      BY <1>2, <1>4 DEF MigrationInv, MigrationTyped
  <2>2. \A k : Serving(f, k) => Serving(f, k)'
      BY <1>1, <1>4, <2>1 DEF Serving, ghosts
  <2>3. SameBackups(f) /\ latest'[f] = latest[f] /\ took'[f] = took[f]
      BY <1>1 DEF SameBackups, ghosts
  <2>4. (HasBackup(f)' <=> HasBackup(f)) /\ (Backed(f)' <=> Backed(f))
      BY <2>3, NewestStays, CopyStays DEF SameNewest, MigrationInv
  <2>5. TextOk(f)'
      BY <1>1, <1>2, <2>3 DEF TextOk, Safe, FileOk, Text, ghosts
  <2>6. DiskOk(f)'
    <3>1. disk'[f].kind # "refers" /\ IsText(disk[f])'
        BY <1>1, <1>2, ContentFacts DEF IsText
    <3> QED BY <1>1, <1>2, <2>2, <2>4, <3>1 DEF DiskOk, FileOk, NoName
  <2>7. VaultOk(f)'
      BY <1>1, <1>2, <1>4, <2>1, <2>4 DEF VaultOk, FileOk
  <2> QED BY <2>5, <2>6, <2>7 DEF FileOk
<1>10. MigrateKnows(c)'
    BY <1>0, <1>1, <1>2, <1>4, <1>5 DEF MigrateKnows, SameCommand, IsText, ghosts
<1> QED BY <1>1, <1>5, <1>6, <1>7, <1>8, <1>9, <1>10, KnowsItsOwn DEF Kept, SameCommand

\* A migration writes the manifest of its profile.
LEMMA WritingManifest ==
    ASSUME OneInvocation, MigrationInv, NEW c \in Invocations, WriteManifest(c)
    PROVE  Kept(c)
<1>0. PICK f, n : f = cmd[c].file /\ n = cmd[c].name
    OBVIOUS
<1>1. /\ cmd[c].op = "migrate" /\ cmd[c].pc = "manifest" /\ GoesTo(c, "backup")
      /\ UNCHANGED <<kind, disk, secret, registry, entry, index, ghosts>>
    BY DEF WriteManifest, At
<1>2. /\ f \in Paths /\ n \in Names /\ FileOk(f) /\ ~Deleting(f)
      /\ \A g \in Paths \ {f} : n \notin manifests[g]
      /\ IsText(disk[f]) /\ disk[f] = Text(latest[f]) /\ latest[f] # 0
    BY <1>0, <1>1, Migrating
<1>3. secret[n] = [val |-> latest[f], owner |-> f]
    BY <1>0, <1>1 DEF MigrationInv, Knows, MigrateKnows
<1>4. /\ manifests'[f] = manifests[f] \cup {n}
      /\ \A g \in Paths \ {f} : manifests'[g] = manifests[g]
      /\ manifests' \in [Paths -> SUBSET Names]
  <2>1. manifests \in [Paths -> SUBSET Names]
      BY DEF MigrationInv, MigrationTyped
  <2> QED BY <1>0, <1>2, <2>1 DEF WriteManifest
<1>5. cmd' \in [Invocations -> Command] /\ cmd'[c].pc = "backup" /\ SameCommand(c)
  <2>1. "backup" \in MigrationPlaces
      BY DEF MigrationPlaces
  <2> QED BY <1>1, <2>1, Advances DEF MigrationInv
<1>6. MigrationTyped'
    BY <1>1, <1>4, <1>5 DEF MigrationInv, MigrationTyped, ghosts
<1>7. IdsOk' /\ TextsOk'
  <2>1. ToSave(c) /\ UNCHANGED <<index, entry, latest, took, edits, starts>>
      BY <1>1 DEF ToSave, ghosts
  <2>2. cmd'[c].saved = cmd[c].saved /\ cmd'[c].content.val <= Written
      BY <1>5 DEF SameCommand, MigrationInv, TextsOk
  <2> QED BY <2>1, <2>2, NumbersStay
<1>8. \A g \in Paths \ {f} : FileOk(g)'
  <2>1. \A g \in Paths \ {f} : SameText(g) /\ SameVault(g) /\ SameBackups(g)
      BY <1>1, <1>2, <1>4 DEF SameText, SameVault, SameBackups, ghosts
  <2> QED BY <1>1, <2>1, OthersStay
<1>9. /\ \A k : Serving(f, k) => Serving(f, k)'
      /\ Serving(f, n)'
    BY <1>1, <1>3, <1>4 DEF Serving, ghosts
<1>10. FileOk(f)'
  <2>3. SameBackups(f) /\ latest'[f] = latest[f] /\ took'[f] = took[f]
      BY <1>1 DEF SameBackups, ghosts
  <2>4. (HasBackup(f)' <=> HasBackup(f)) /\ (Backed(f)' <=> Backed(f))
      BY <2>3, NewestStays, CopyStays DEF SameNewest, MigrationInv
  <2>5. TextOk(f)'
      BY <1>1, <1>2, <2>3 DEF TextOk, Safe, FileOk, Text, ghosts
  <2>6. DiskOk(f)'
    <3>1. disk'[f].kind # "refers" /\ IsText(disk[f])'
        BY <1>1, <1>2, ContentFacts DEF IsText
    <3> QED BY <1>1, <1>2, <1>9, <2>4, <3>1 DEF DiskOk, FileOk, NoName
  <2>7. VaultOk(f)'
      BY <1>1, <1>2, <1>3, <1>4, <2>4 DEF VaultOk, FileOk
  <2> QED BY <2>5, <2>6, <2>7 DEF FileOk
<1>11. MigrateKnows(c)'
  <2>1. \A g \in Paths \ {f} : n \notin manifests'[g]
      BY <1>2, <1>4
  <2> QED BY <1>0, <1>1, <1>2, <1>5, <1>9, <2>1 DEF MigrateKnows, SameCommand, IsText, ghosts
<1> QED BY <1>1, <1>5, <1>6, <1>7, <1>8, <1>10, <1>11, KnowsItsOwn DEF Kept, SameCommand

-------------------------------------------------------------------------------
(* Backups and their records, whichever command saves. *)

\* The bytes go under a new id: no record's bytes change.
LEMMA Saves ==
    ASSUME OneInvocation, MigrationInv, NEW c \in Invocations, Backup(c),
           IsRegular(disk[cmd[c].file]), cmd[c].file \in Paths
    PROVE  /\ MigrationTyped' /\ IdsOk' /\ TextsOk' /\ (\A f \in Paths : FileOk(f)')
           /\ UNCHANGED <<kind, disk, secret, manifests, registry, index, ghosts>>
           /\ cmd'[c].pc = "record" /\ Saved(c)'
           /\ cmd'[c].op = cmd[c].op /\ cmd'[c].file = cmd[c].file
           /\ cmd'[c].name = cmd[c].name /\ cmd'[c].content = cmd[c].content
           /\ cmd'[c].mounted = cmd[c].mounted
           /\ cmd'[c].drop = cmd[c].drop /\ cmd'[c].delete = cmd[c].delete
           /\ \A f \in Paths : SameBackups(f)
<1>0. PICK f \in Paths : f = cmd[c].file
    OBVIOUS
<1> DEFINE m == [cmd[c] EXCEPT !.pc = "record", !.saved = NextId]
<1>1. /\ cmd[c].op \in {"migrate", "undo", "remove"} /\ cmd[c].pc = "backup"
      /\ entry' = [i \in DOMAIN entry \cup {NextId} |-> IF i = NextId THEN disk[f] ELSE entry[i]]
      /\ cmd' = [cmd EXCEPT ![c] = m]
      /\ UNCHANGED <<kind, disk, secret, manifests, registry, index, ghosts>>
    BY <1>0 DEF Backup, At
<1>2. /\ NextId \in Nat \ {0} /\ NextId <= starts /\ NextId \in 1 .. MaxStarts
      /\ \A i \in UsedIds : i < NextId
  <2>1. ToSave(c)
      BY <1>1 DEF ToSave
  <2>2. \A i \in UsedIds : i < starts
      BY <2>1 DEF MigrationInv, IdsOk
  <2>3. NextId <= starts \/ starts = 0
      BY <2>2, NextIdIsNew, WrittenCounts DEF MigrationInv
  <2>4. cmd[c].saved \in UsedIds /\ cmd[c].saved \in Nat
      BY MigrationAssumption DEF UsedIds, MigrationInv, MigrationTyped, Command
  <2>5. starts \in 0 .. MaxStarts /\ MaxStarts \in Nat
      BY WrittenCounts DEF MigrationInv, MigrationTyped
  <2> QED BY <2>2, <2>3, <2>4, <2>5, NextIdIsNew DEF MigrationInv
<1>3. /\ m \in Command /\ m.pc = "record" /\ m.saved = NextId /\ m.op = cmd[c].op
      /\ m.file = f /\ m.name = cmd[c].name /\ m.content = cmd[c].content
      /\ m.mounted = cmd[c].mounted /\ m.drop = cmd[c].drop /\ m.delete = cmd[c].delete
  <2>1. "record" \in MigrationPlaces /\ NextId \in 0 .. MaxStarts
      BY <1>2 DEF MigrationPlaces
  <2>2. cmd[c] \in Command
      BY DEF MigrationInv, MigrationTyped
  <2> QED BY <1>0, <2>1, <2>2 DEF Command
<1> HIDE DEF m
<1>4. /\ cmd' \in [Invocations -> Command] /\ cmd'[c] = m
      /\ UsedIds' = DOMAIN entry' \cup {r.id : r \in index'} \cup {NextId}
  <2>1. UsedIds' = DOMAIN entry' \cup {r.id : r \in index'} \cup {m.saved}
      BY <1>1, <1>3, Becomes DEF MigrationInv
  <2>2. cmd' \in [Invocations -> Command] /\ cmd'[c] = m
      BY <1>1, <1>3, Becomes DEF MigrationInv
  <2> QED BY <1>3, <2>1, <2>2
<1>5. /\ disk[f] \in Contents /\ disk[f].val <= Written
  <2>1. disk[f] \in Contents /\ FileOk(f) /\ latest[f] <= Written
      BY DEF MigrationInv, MigrationTyped, TextsOk
  <2>2. IsText(disk[f]) => disk[f].val = latest[f]
      BY <2>1, ContentFacts DEF FileOk, TextOk
  <2>3. ~IsText(disk[f]) => disk[f].val = 0
      BY <2>1, ContentKinds
  <2> QED BY <2>1, <2>2, <2>3, WrittenCounts DEF MigrationInv
<1>6. /\ DOMAIN entry' = DOMAIN entry \cup {NextId} /\ entry'[NextId] = disk[f]
      /\ \A i \in DOMAIN entry : i # NextId /\ entry'[i] = entry[i]
      /\ NextId \notin DOMAIN entry
  <2>1. \A i \in DOMAIN entry : i < NextId /\ i \in Nat
      BY <1>2 DEF UsedIds, MigrationInv, MigrationTyped
  <2>2. \A i \in DOMAIN entry : i # NextId
      BY <1>2, <2>1
  <2> QED BY <1>1, <2>2
<1>7. MigrationTyped'
  <2>1. \A i \in DOMAIN entry' : IsRegular(entry'[i]) /\ entry'[i] \in Contents
      BY <1>0, <1>5, <1>6 DEF MigrationInv, MigrationTyped
  <2>2. (\A i \in DOMAIN entry : IsRegular(entry[i]) /\ entry[i] \in Contents)'
      BY <2>1 DEF IsRegular, Contents, Text, Refers, Pipe, Absent, Texts, Names, NoName
  <2>3. DOMAIN entry' \subseteq 1 .. MaxStarts
      BY <1>2, <1>6 DEF MigrationInv, MigrationTyped
  <2> QED BY <1>1, <1>4, <2>2, <2>3 DEF MigrationInv, MigrationTyped, ghosts
<1>8. IdsOk'
  <2>1. UsedIds' \subseteq UsedIds \cup {NextId}
      BY <1>1, <1>4, <1>6 DEF UsedIds
  <2>2. \A i \in UsedIds' : i <= starts'
      BY <1>1, <1>2, <2>1 DEF MigrationInv, IdsOk, ghosts
  <2>3. \A d \in Invocations : ~ToSave(d)'
      BY <1>3, <1>4 DEF ToSave, OneInvocation
  <2>4. \A r, s \in index' : r.id = s.id => r = s
      BY <1>1 DEF MigrationInv, IdsOk
  <2> QED BY <2>2, <2>3, <2>4, Zenon DEF IdsOk
<1>9. TextsOk'
  <2>1. Written' = Written /\ UNCHANGED <<latest, took>>
      BY <1>1 DEF Written, ghosts
  <2>2. \A i \in DOMAIN entry' : entry'[i].val <= Written
      BY <1>5, <1>6 DEF MigrationInv, TextsOk
  <2>3. \A d \in Invocations : cmd'[d].content.val <= Written
      BY <1>3, <1>4 DEF MigrationInv, TextsOk, OneInvocation
  <2> QED BY <2>1, <2>2, <2>3 DEF MigrationInv, TextsOk
<1>10. \A g \in Paths : SameBackups(g) /\ SameText(g) /\ SameVault(g)
  <2>1. \A r \in index : r.id \in UsedIds
      BY DEF UsedIds
  <2>2. \A r \in index : r.id # NextId
    <3>1. \A r \in index : r.id \in Nat
        BY DEF MigrationInv, MigrationTyped, Records
    <3> QED BY <1>2, <2>1, <3>1
  <2> QED BY <1>1, <1>6, <2>2 DEF SameBackups, SameText, SameVault, ghosts
<1>11. \A g \in Paths : FileOk(g)'
  <2>1. \A g : ~Deleting(g)
      BY <1>1, DeletingIs DEF Deletions
  <2> QED BY <1>10, <2>1, FileStays DEF MigrationInv
<1>12. Saved(c)'
  <2>1. cmd'[c].saved = NextId /\ cmd'[c].file = f
      BY <1>3, <1>4
  <2>2. \A r \in index' : r.id < NextId
      BY <1>1, <1>2 DEF UsedIds
  <2>3. entry'[NextId] = disk'[f] /\ NextId \in DOMAIN entry'
      BY <1>1, <1>6
  <2> QED BY <2>1, <2>2, <2>3 DEF Saved
<1> QED BY <1>0, <1>1, <1>3, <1>4, <1>7, <1>8, <1>9, <1>10, <1>11, <1>12

\* A migration saves the bytes of the file ...
LEMMA MigrateSaves ==
    ASSUME OneInvocation, MigrationInv, NEW c \in Invocations, Backup(c), cmd[c].op = "migrate"
    PROVE  Kept(c)
<1>0. PICK f, n : f = cmd[c].file /\ n = cmd[c].name
    OBVIOUS
<1>1. cmd[c].pc = "backup"
    BY DEF Backup, At
<1>2. /\ f \in Paths /\ n \in Names /\ \A g \in Paths \ {f} : n \notin manifests[g]
      /\ IsText(disk[f]) /\ disk[f] \in Contents
    BY <1>0, <1>1, Migrating DEF MigrationInv, MigrationTyped
<1>3. Serving(f, n)
    BY <1>0, <1>1 DEF MigrationInv, Knows, MigrateKnows
<1>4. IsRegular(disk[f])
    BY <1>2, ContentKinds
<1>5. /\ MigrationTyped' /\ IdsOk' /\ TextsOk' /\ (\A g \in Paths : FileOk(g)')
      /\ UNCHANGED <<kind, disk, secret, manifests, registry, index, ghosts>>
      /\ cmd'[c].pc = "record" /\ Saved(c)'
      /\ cmd'[c].op = "migrate" /\ cmd'[c].file = f /\ cmd'[c].name = n
    BY <1>0, <1>2, <1>4, Saves
<1>6. Serving(f, n)'
    BY <1>3, <1>5 DEF Serving, ghosts
<1>7. MigrateKnows(c)'
    BY <1>2, <1>5, <1>6 DEF MigrateKnows, IsText
<1> QED BY <1>5, <1>7, KnowsItsOwn DEF Kept

\* The record follows the bytes.
LEMMA Recording ==
    ASSUME OneInvocation, MigrationInv, NEW c \in Invocations, Record(c),
           NEW f \in Paths, cmd[c].file = f, Saved(c)
    PROVE  /\ MigrationTyped' /\ IdsOk' /\ TextsOk' /\ (\A g \in Paths \ {f} : FileOk(g)')
           /\ UNCHANGED <<kind, disk, secret, manifests, registry, entry, ghosts>>
           /\ cmd'[c].pc = "clear" /\ SameCommand(c)
           /\ index' = index \cup {[id |-> cmd[c].saved, file |-> f,
                                    snapshot |-> cmd[c].op # "migrate"]}
           /\ cmd[c].saved \in DOMAIN entry /\ entry[cmd[c].saved] = disk[f]
           /\ \A r \in index : r.id < cmd[c].saved
<1>1. /\ cmd[c].op \in {"migrate", "undo", "remove"} /\ cmd[c].pc = "record"
      /\ UNCHANGED <<kind, disk, secret, manifests, registry, entry, ghosts>>
      /\ GoesTo(c, "clear")
      /\ index' = index \cup {[id |-> cmd[c].saved, file |-> f,
                               snapshot |-> cmd[c].op # "migrate"]}
    BY DEF Record, At
<1>2. /\ cmd[c].saved \in DOMAIN entry /\ entry[cmd[c].saved] = disk[f]
      /\ \A r \in index : r.id < cmd[c].saved
    BY DEF Saved
<1>3. /\ cmd' \in [Invocations -> Command] /\ cmd'[c].pc = "clear" /\ SameCommand(c)
      /\ UsedIds' = DOMAIN entry' \cup {r.id : r \in index'} \cup {cmd[c].saved}
  <2>1. "clear" \in MigrationPlaces
      BY DEF MigrationPlaces
  <2> QED BY <1>1, <2>1, Advances DEF MigrationInv
<1> DEFINE new == [id |-> cmd[c].saved, file |-> f, snapshot |-> cmd[c].op # "migrate"]
<1>4. new \in Records /\ new.id = cmd[c].saved /\ new.file = f
  <2>1. cmd[c].saved \in 1 .. MaxStarts
      BY <1>2 DEF MigrationInv, MigrationTyped
  <2> QED BY <2>1 DEF Records
<1>5. index' = index \cup {new}
    BY <1>1
<1> HIDE DEF new
<1>6. MigrationTyped'
    BY <1>1, <1>3, <1>4, <1>5 DEF MigrationInv, MigrationTyped, ghosts
<1>7. IdsOk'
  <2>1. UsedIds' \subseteq UsedIds
      BY <1>1, <1>3, <1>4, <1>5 DEF UsedIds
  <2>2. \A i \in UsedIds' : i <= starts'
      BY <1>1, <2>1 DEF MigrationInv, IdsOk, ghosts
  <2>3. \A d \in Invocations : ~ToSave(d)'
      BY <1>1, <1>3 DEF ToSave, OneInvocation
  <2>4. \A r \in index : r.id # new.id
    <3>1. \A r \in index \cup {new} : r.id \in Nat
        BY <1>4 DEF MigrationInv, MigrationTyped, Records
    <3> QED BY <1>2, <1>4, <3>1
  <2>5. \A r, s \in index' : r.id = s.id => r = s
      BY <1>5, <2>4 DEF MigrationInv, IdsOk
  <2> QED BY <2>2, <2>3, <2>5, Zenon DEF IdsOk
<1>8. TextsOk'
    BY <1>1, <1>3 DEF MigrationInv, TextsOk, Written, OneInvocation, SameCommand, ghosts
<1>9. \A g \in Paths \ {f} : FileOk(g)'
  <2>1. \A g \in Paths \ {f} : SameText(g) /\ SameVault(g) /\ SameBackups(g)
      BY <1>1, <1>4, <1>5 DEF SameText, SameVault, SameBackups, ghosts
  <2>2. cmd[c].pc \notin Deletions
      BY <1>1 DEF Deletions
  <2> QED BY <2>1, <2>2, OthersStay
<1> QED BY <1>1, <1>2, <1>3, <1>6, <1>7, <1>8, <1>9

\* The new record of a migration is its file's newest backup, and of its text.
LEMMA MigrateRecords ==
    ASSUME OneInvocation, MigrationInv, NEW c \in Invocations, Record(c), cmd[c].op = "migrate"
    PROVE  Kept(c)
<1>0. PICK f, n : f = cmd[c].file /\ n = cmd[c].name
    OBVIOUS
<1>1. cmd[c].pc = "record"
    BY DEF Record, At
<1>2. /\ f \in Paths /\ n \in Names /\ \A g \in Paths \ {f} : n \notin manifests[g]
      /\ IsText(disk[f]) /\ disk[f] = Text(latest[f]) /\ took[f] <= latest[f]
      /\ FileOk(f) /\ ~Deleting(f)
    BY <1>0, <1>1, Migrating
<1>3. Serving(f, n) /\ Saved(c)
    BY <1>0, <1>1 DEF MigrationInv, Knows, MigrateKnows
<1> DEFINE new == [id |-> cmd[c].saved, file |-> f, snapshot |-> FALSE]
<1>4. /\ MigrationTyped' /\ IdsOk' /\ TextsOk' /\ (\A g \in Paths \ {f} : FileOk(g)')
      /\ UNCHANGED <<kind, disk, secret, manifests, registry, entry, ghosts>>
      /\ cmd'[c].pc = "clear" /\ SameCommand(c)
      /\ index' = index \cup {new}
      /\ cmd[c].saved \in DOMAIN entry /\ entry[cmd[c].saved] = disk[f]
      /\ \A r \in index : r.id < cmd[c].saved
    BY <1>0, <1>2, <1>3, Recording
<1>5. HasBackup(f)' /\ LatestBackup(f)' = cmd[c].saved
  <2>1. BackupsOf(f)' \in SUBSET Records /\ new \in BackupsOf(f)'
      BY <1>4 DEF MigrationTyped, BackupsOf
  <2>2. \A r \in BackupsOf(f)' : r.id <= new.id
    <3>1. \A r \in BackupsOf(f)' : r = new \/ r \in index
        BY <1>4 DEF BackupsOf
    <3>2. \A r \in BackupsOf(f)' : r.id \in Nat
        BY <2>1 DEF Records
    <3>3. new.id = cmd[c].saved /\ new.id \in Nat
        BY <2>1, <3>2
    <3> HIDE DEF new
    <3> QED BY <1>4, <3>1, <3>2, <3>3
  <2>3. Max({r.id : r \in BackupsOf(f)'}) = new.id
    <3> HIDE DEF new
    <3> QED BY <2>1, <2>2, NewestRecordIs
  <2> QED BY <2>1, <2>3 DEF HasBackup, LatestBackup
<1>6. entry' = entry /\ latest' = latest /\ took' = took
    BY <1>4 DEF ghosts
<1>7. Copied(f)'
  <2>1. entry'[LatestBackup(f)'] = Text(latest'[f]) /\ LatestBackup(f)' \in DOMAIN entry'
      BY <1>2, <1>4, <1>5, <1>6
  <2> QED BY <1>5, <2>1 DEF Copied, Text, NoName
<1>8. Backed(f)'
    BY <1>2, <1>4, <1>5, <1>6, ContentFacts DEF Backed, IsText
<1>9. Serving(f, n)' /\ \A k : Serving(f, k) => Serving(f, k)'
    BY <1>3, <1>4, <1>6 DEF Serving
<1>10. FileOk(f)'
  <2>1. IsText(disk[f])' /\ disk'[f].kind # "refers" /\ disk' = disk
      BY <1>2, <1>4, ContentFacts DEF IsText
  <2>2. TextOk(f)'
      BY <1>2, <1>6, <2>1 DEF TextOk, Safe, FileOk, Text
  <2>3. DiskOk(f)'
      BY <1>2, <1>4, <1>5, <1>9, <2>1 DEF DiskOk, FileOk, NoName
  <2>4. VaultOk(f)'
      BY <1>2, <1>4, <1>8 DEF VaultOk, FileOk
  <2> QED BY <2>2, <2>3, <2>4 DEF FileOk
<1>11. MigrateKnows(c)'
    BY <1>0, <1>1, <1>2, <1>4, <1>7, <1>9 DEF MigrateKnows, SameCommand, IsText
<1> QED BY <1>4, <1>10, <1>11, KnowsItsOwn DEF Kept, SameCommand

\* An undo, and what it knows of its file.
LEMMA Undoing ==
    ASSUME OneInvocation, MigrationInv, NEW c \in Invocations, NEW f,
           cmd[c].op = "undo", f = cmd[c].file
    PROVE  /\ f \in Paths /\ cmd[c] \in Command /\ FileOk(f) /\ ~Deleting(f) /\ HasBackup(f)
           /\ VaultOk(f) /\ disk[f] \in Contents
           /\ cmd[c].pc # "unregister" => registry[f] = NoName
           /\ cmd[c].pc \in {"backup", "record", "clear", "write"} =>
                 IsText(cmd[c].content) /\ took[f] <= cmd[c].content.val
           /\ cmd[c].pc = "record" => Saved(c)
           /\ cmd[c].pc = "clear" /\ IsText(disk[f]) => Snapped(f, latest[f])
<1>1. f \in Paths /\ HasBackup(f)
    BY DEF MigrationInv, Knows, UndoKnows
<1>2. ~Deleting(f)
    BY DeletingIs
<1>3. cmd[c] \in Command /\ FileOk(f) /\ disk[f] \in Contents
    BY <1>1 DEF MigrationInv, MigrationTyped
<1>4. VaultOk(f)
    BY <1>2, <1>3 DEF FileOk
<1>5. UndoKnows(c)
    BY DEF MigrationInv, Knows
<1> QED BY <1>1, <1>2, <1>3, <1>4, <1>5, Zenon DEF UndoKnows

\* A removal or an unmount, and what it knows.
LEMMA GoingBack ==
    ASSUME OneInvocation, MigrationInv, NEW c \in Invocations, NEW f,
           cmd[c].op \in {"remove", "unmount"}, f = cmd[c].file
    PROVE  /\ f \in Paths /\ cmd[c] \in Command /\ FileOk(f) /\ disk[f] \in Contents
           /\ BackKnows(c) /\ RemoveKnows(c)
           /\ cmd[c].op = "unmount" => cmd[c].mounted
           /\ registry[f] # NoName =>
                cmd[c].mounted /\ cmd[c].pc \in {"resolve", "clear", "write", "unregister"}
<1>1. BackKnows(c) /\ RemoveKnows(c)
    BY DEF MigrationInv, Knows
<1>2. f \in Paths
    BY <1>1 DEF BackKnows
<1>3. cmd[c] \in Command /\ FileOk(f) /\ disk[f] \in Contents
    BY <1>2 DEF MigrationInv, MigrationTyped
<1> QED BY <1>1, <1>2, <1>3, Zenon DEF BackKnows

\* A command that finds nothing regular to save goes on to empty the path.
LEMMA NothingToSave ==
    ASSUME OneInvocation, MigrationInv, NEW c \in Invocations, Backup(c),
           cmd[c].op # "migrate", ~IsRegular(disk[cmd[c].file])
    PROVE  /\ cmd'[c].pc = "clear" /\ SameCommand(c)
           /\ UNCHANGED <<kind, disk, stored, ghosts>>
           /\ Knows(c)' => Kept(c)
<1>1. /\ cmd[c].op \in {"undo", "remove"} /\ cmd[c].pc = "backup" /\ GoesTo(c, "clear")
      /\ UNCHANGED <<kind, disk, stored, ghosts>>
    BY DEF Backup, At, stored
<1>2. "clear" \in MigrationPlaces /\ ToSave(c) /\ cmd[c].pc \notin Deletions
    BY <1>1 DEF MigrationPlaces, ToSave, Deletions
<1>3. cmd' \in [Invocations -> Command] /\ cmd'[c].pc = "clear" /\ SameCommand(c)
    BY <1>1, <1>2, Advances DEF MigrationInv
<1>4. /\ cmd'[c].saved = cmd[c].saved /\ cmd'[c].content.val <= Written
      /\ UNCHANGED <<kind, disk, stored, latest, took, edits, starts>> /\ stops' \in 0 .. MaxStops
    BY <1>1, <1>3 DEF SameCommand, ghosts, MigrationInv, MigrationTyped, TextsOk
<1>5. \A f : ~Deleting(f)
    BY <1>2, DeletingIs
<1> QED BY <1>1, <1>2, <1>3, <1>4, <1>5, OnlyReads

\* An undo saves what is at the path ...
LEMMA UndoSaves ==
    ASSUME OneInvocation, MigrationInv, NEW c \in Invocations, Backup(c), cmd[c].op = "undo"
    PROVE  Kept(c)
<1>0. PICK f : f = cmd[c].file
    OBVIOUS
<1>1. cmd[c].pc = "backup"
    BY DEF Backup, At
<1>2. /\ f \in Paths /\ HasBackup(f) /\ registry[f] = NoName /\ disk[f] \in Contents
      /\ IsText(cmd[c].content) /\ took[f] <= cmd[c].content.val
    BY <1>0, <1>1, Undoing
<1>3. CASE IsRegular(disk[f])
  <2>1. /\ MigrationTyped' /\ IdsOk' /\ TextsOk' /\ (\A g \in Paths : FileOk(g)')
        /\ UNCHANGED <<kind, disk, secret, manifests, registry, index, ghosts>>
        /\ cmd'[c].pc = "record" /\ Saved(c)'
        /\ cmd'[c].op = "undo" /\ cmd'[c].file = f /\ cmd'[c].content = cmd[c].content
      BY <1>0, <1>2, <1>3, Saves
  <2>2. HasBackup(f)' /\ registry'[f] = NoName' /\ took' = took
      BY <1>2, <2>1 DEF HasBackup, BackupsOf, NoName, ghosts
  <2>3. IsText(cmd[c].content)' /\ took'[f] <= cmd'[c].content.val
      BY <1>2, <2>1, <2>2 DEF IsText
  <2>4. UndoKnows(c)'
      BY <1>2, <2>1, <2>2, <2>3, Zenon DEF UndoKnows
  <2> QED BY <2>1, <2>4, KnowsItsOwn DEF Kept
<1>4. CASE ~IsRegular(disk[f])
  <2>1. /\ cmd'[c].pc = "clear" /\ SameCommand(c)
        /\ UNCHANGED <<kind, disk, stored, ghosts>>
        /\ Knows(c)' => Kept(c)
      BY <1>0, <1>4, NothingToSave
  <2>2. HasBackup(f)' /\ registry'[f] = NoName' /\ took' = took
      BY <1>2, <2>1 DEF HasBackup, BackupsOf, NoName, ghosts, stored
  <2>3. /\ cmd'[c].op = "undo" /\ cmd'[c].file = f
        /\ IsText(cmd[c].content)' /\ took'[f] <= cmd'[c].content.val
      BY <1>0, <1>2, <2>1, <2>2 DEF IsText, SameCommand
  <2>4. ~IsText(disk[f])'
      BY <1>2, <1>4, <2>1, ContentKinds DEF IsText
  <2>5. UndoKnows(c)'
      BY <1>2, <2>1, <2>2, <2>3, <2>4, Zenon DEF UndoKnows
  <2> QED BY <2>1, <2>3, <2>5, KnowsItsOwn
<1> QED BY <1>3, <1>4

\* A removal saves what is at the path.
LEMMA RemoveSaves ==
    ASSUME OneInvocation, MigrationInv, NEW c \in Invocations, Backup(c), cmd[c].op = "remove"
    PROVE  Kept(c)
<1>0. PICK f : f = cmd[c].file
    OBVIOUS
<1>1. cmd[c].pc = "backup" /\ cmd[c].pc \notin Deletions
    BY DEF Backup, At, Deletions
<1>2. /\ f \in Paths /\ registry[f] = NoName /\ disk[f] \in Contents
      /\ BackKnows(c) /\ RemoveKnows(c)
    BY <1>0, <1>1, GoingBack
<1>3. Copied(f) /\ cmd[c].content = Text(latest[f])
    BY <1>0, <1>1, <1>2 DEF BackKnows
<1>4. CASE IsRegular(disk[f])
  <2>1. /\ MigrationTyped' /\ IdsOk' /\ TextsOk' /\ (\A g \in Paths : FileOk(g)')
        /\ UNCHANGED <<kind, disk, secret, manifests, registry, index, ghosts>>
        /\ cmd'[c].pc = "record" /\ Saved(c)'
        /\ cmd'[c].op = "remove" /\ cmd'[c].file = f /\ cmd'[c].content = cmd[c].content
        /\ cmd'[c].drop = cmd[c].drop /\ cmd'[c].delete = cmd[c].delete
        /\ SameBackups(f)
      BY <1>0, <1>2, <1>4, Saves
  <2>2. Copied(f)' /\ registry'[f] = NoName' /\ cmd'[c].content = Text(latest[f])'
    <3>1. SameNewest(f) /\ latest' = latest
        BY <2>1, NewestStays DEF MigrationInv, ghosts
    <3> QED BY <1>2, <1>3, <2>1, <3>1, CopyStays DEF NoName, Text
  <2>3. BackKnows(c)'
      BY <1>2, <2>1, <2>2, Zenon DEF BackKnows, Deletions
  <2>4. RemoveKnows(c)'
      BY <1>0, <1>1, <1>2, <2>1, Zenon DEF RemoveKnows
  <2> QED BY <2>1, <2>3, <2>4, KnowsItsOwn DEF Kept
<1>5. CASE ~IsRegular(disk[f])
  <2>1. /\ cmd'[c].pc = "clear" /\ SameCommand(c)
        /\ UNCHANGED <<kind, disk, stored, ghosts>>
        /\ Knows(c)' => Kept(c)
      BY <1>0, <1>5, NothingToSave
  <2>2. /\ HasBackup(f)' /\ Copied(f)' /\ registry'[f] = NoName'
        /\ cmd'[c].op = "remove" /\ cmd'[c].file = f
        /\ cmd'[c].content = Text(latest'[f]) /\ UNCHANGED <<index, manifests>>
      BY <1>0, <1>2, <1>3, <2>1, BackupsStay DEF MigrationInv, stored, ghosts, SameCommand, NoName,
            Copied
  <2>3. BackKnows(c)'
      BY <1>2, <2>1, <2>2, BackWillWrite DEF NoName
  <2>4. RemoveKnows(c)'
      BY <1>1, <1>2, <2>1, <2>2, RemoveKnowsStill
  <2> QED BY <2>1, <2>2, <2>3, <2>4, KnowsItsOwn
<1> QED BY <1>4, <1>5

\* A snapshot is no backup, but it is of what the file read as.
LEMMA UndoRecords ==
    ASSUME OneInvocation, MigrationInv, NEW c \in Invocations, Record(c),
           cmd[c].op \in {"undo", "remove"}, NEW f \in Paths, cmd[c].file = f, Saved(c),
           registry[f] = NoName
    PROVE  /\ MigrationTyped' /\ IdsOk' /\ TextsOk' /\ (\A g \in Paths : FileOk(g)')
           /\ UNCHANGED <<kind, disk, secret, manifests, registry, entry, ghosts>>
           /\ cmd'[c].pc = "clear" /\ SameCommand(c) /\ index \subseteq index'
           /\ SameNewest(f)
           /\ \A v : disk[f] = Text(v) => Snapped(f, v)'
<1> DEFINE new == [id |-> cmd[c].saved, file |-> f, snapshot |-> cmd[c].op # "migrate"]
<1>1. /\ MigrationTyped' /\ IdsOk' /\ TextsOk' /\ (\A g \in Paths \ {f} : FileOk(g)')
      /\ UNCHANGED <<kind, disk, secret, manifests, registry, entry, ghosts>>
      /\ cmd'[c].pc = "clear" /\ SameCommand(c)
      /\ index' = index \cup {new}
      /\ cmd[c].saved \in DOMAIN entry /\ entry[cmd[c].saved] = disk[f]
    BY Recording
<1>2. new.snapshot /\ new.file = f /\ new.id = cmd[c].saved
    OBVIOUS
<1> HIDE DEF new
<1>3. BackupsOf(f)' = BackupsOf(f)
    BY <1>1, <1>2 DEF BackupsOf
<1>4. SameNewest(f)
    BY <1>1, <1>3 DEF SameNewest, HasBackup, LatestBackup
<1>5. \A v : disk[f] = Text(v) => Snapped(f, v)'
    BY <1>1, <1>2 DEF Snapped, Text, NoName
<1>6. \A v : Snapped(f, v) => Snapped(f, v)'
    BY <1>1 DEF Snapped, Text, NoName
<1>7. FileOk(f)'
  <2>1. FileOk(f) /\ VaultOk(f)
    <3>1. ~Deleting(f)
      <4>1. cmd[c].pc \notin Deletions
          BY DEF Record, At, Deletions
      <4> QED BY <4>1, DeletingIs
    <3> QED BY <3>1 DEF MigrationInv, FileOk
  <2>2. /\ Copied(f)' <=> Copied(f)
        /\ Backed(f)' <=> Backed(f)
        /\ HasBackup(f)' <=> HasBackup(f)
        /\ UNCHANGED <<kind, disk, secret, manifests, registry, entry, latest, took>>
      BY <1>1, <1>4, CopyStays, Zenon DEF SameNewest, ghosts
  <2>3. \A n : Serving(f, n)' <=> Serving(f, n)
      BY <2>2 DEF Serving
  <2>4. Safe(f) => Safe(f)'
    <3>1. Snapped(f, latest[f]) => Snapped(f, latest[f])'
      <4>1. PICK v : v = latest[f] /\ v = latest'[f]
          BY <2>2
      <4>2. Snapped(f, v) => Snapped(f, v)'
          BY <1>6
      <4> QED BY <4>1, <4>2 DEF Snapped
    <3>2. disk[f] = Text(latest[f]) => (disk[f] = Text(latest[f]))'
        BY <2>2 DEF Text, NoName
    <3>3. (\E n \in Names : Serving(f, n)) => (\E n \in Names : Serving(f, n))'
        BY <2>3 DEF Names
    <3> QED BY <2>2, <3>1, <3>2, <3>3, Zenon DEF Safe
  <2>5. TextOk(f)'
      BY <2>1, <2>2, <2>4 DEF FileOk, TextOk, IsText, Text, NoName
  <2>6. DiskOk(f)'
      BY <2>1, <2>2, <2>3 DEF FileOk, DiskOk, IsText, NoName
  <2>7. VaultOk(f)'
      BY <2>1, <2>2 DEF VaultOk
  <2> QED BY <2>5, <2>6, <2>7, Zenon DEF FileOk
<1> QED BY <1>1, <1>4, <1>5, <1>7

\* ... and records them.
LEMMA UndoRecorded ==
    ASSUME OneInvocation, MigrationInv, NEW c \in Invocations, Record(c), cmd[c].op = "undo"
    PROVE  Kept(c)
<1>0. PICK f : f = cmd[c].file
    OBVIOUS
<1>1. cmd[c].pc = "record"
    BY DEF Record, At
<1>2. /\ f \in Paths /\ HasBackup(f) /\ registry[f] = NoName /\ FileOk(f) /\ Saved(c)
      /\ IsText(cmd[c].content) /\ took[f] <= cmd[c].content.val
    BY <1>0, <1>1, Undoing
<1>3. /\ MigrationTyped' /\ IdsOk' /\ TextsOk' /\ (\A g \in Paths : FileOk(g)')
      /\ UNCHANGED <<kind, disk, secret, manifests, registry, entry, ghosts>>
      /\ cmd'[c].pc = "clear" /\ SameCommand(c) /\ SameNewest(f)
      /\ \A v : disk[f] = Text(v) => Snapped(f, v)'
    BY <1>0, <1>2, UndoRecords
<1>4. /\ HasBackup(f)' /\ registry'[f] = NoName' /\ took' = took /\ latest' = latest
      /\ cmd'[c].op = "undo" /\ cmd'[c].file = f
      /\ IsText(cmd[c].content)' /\ took'[f] <= cmd'[c].content.val
    BY <1>0, <1>2, <1>3 DEF SameNewest, NoName, ghosts, SameCommand, IsText
<1>5. IsText(disk[f])' => Snapped(f, latest[f])'
  <2>1. IsText(disk[f])' => disk[f] = Text(latest[f])
      BY <1>2, <1>3 DEF IsText, FileOk, TextOk
  <2>2. PICK v : v = latest[f] /\ v = latest'[f]
      BY <1>4
  <2>3. IsText(disk[f])' => Snapped(f, v)'
      BY <1>3, <2>1, <2>2
  <2> QED BY <2>2, <2>3 DEF Snapped
<1>6. UndoKnows(c)'
    BY <1>2, <1>3, <1>4, <1>5, Zenon DEF UndoKnows
<1> QED BY <1>3, <1>4, <1>6, KnowsItsOwn DEF Kept

\* A removal records what it saved.
LEMMA RemoveRecorded ==
    ASSUME OneInvocation, MigrationInv, NEW c \in Invocations, Record(c), cmd[c].op = "remove"
    PROVE  Kept(c)
<1>0. PICK f : f = cmd[c].file
    OBVIOUS
<1>1. cmd[c].pc = "record" /\ cmd[c].pc \notin Deletions
    BY DEF Record, At, Deletions
<1>2. f \in Paths /\ registry[f] = NoName /\ BackKnows(c) /\ RemoveKnows(c)
    BY <1>0, <1>1, GoingBack
<1>3. Copied(f) /\ cmd[c].content = Text(latest[f]) /\ Saved(c)
    BY <1>0, <1>1, <1>2 DEF BackKnows
<1>4. /\ MigrationTyped' /\ IdsOk' /\ TextsOk' /\ (\A g \in Paths : FileOk(g)')
      /\ UNCHANGED <<kind, disk, secret, manifests, registry, entry, ghosts>>
      /\ cmd'[c].pc = "clear" /\ SameCommand(c) /\ SameNewest(f) /\ index \subseteq index'
    BY <1>0, <1>2, <1>3, UndoRecords
<1>5. /\ HasBackup(f)' /\ Copied(f)' /\ registry'[f] = NoName'
      /\ cmd'[c].op = "remove" /\ cmd'[c].file = f /\ cmd'[c].content = Text(latest'[f])
  <2>1. latest' = latest
      BY <1>4 DEF ghosts
  <2>2. Copied(f)'
      BY <1>3, <1>4, <2>1, CopyStays
  <2> QED BY <1>0, <1>2, <1>3, <1>4, <2>1, <2>2 DEF SameNewest, NoName, SameCommand, Copied
<1>6. BackKnows(c)'
    BY <1>2, <1>4, <1>5, BackWillWrite DEF NoName
<1>7. RemoveKnows(c)'
    BY <1>1, <1>2, <1>4, RemoveKnowsStill
<1> QED BY <1>4, <1>5, <1>6, <1>7, KnowsItsOwn DEF Kept

-------------------------------------------------------------------------------
(* The path is emptied. *)

\* Whoever empties it, what else holds the text is enough.
LEMMA ClearedFile ==
    ASSUME OneInvocation, MigrationInv, NEW c \in Invocations, Clear(c),
           NEW f \in Paths, f = cmd[c].file,
           latest[f] # 0 => (\E n \in Names : Serving(f, n)) \/ Copied(f) \/ Snapped(f, latest[f]),
           HasBackup(f),
           cmd[c].op = "migrate" => Copied(f) /\ disk[f] = Text(latest[f]) /\ latest[f] # 0
    PROVE  /\ MigrationTyped' /\ IdsOk' /\ TextsOk' /\ (\A g \in Paths : FileOk(g)')
           /\ UNCHANGED <<kind, stored, latest>> /\ SameCommand(c)
           /\ cmd'[c].pc = IF cmd[c].op = "migrate" THEN "place" ELSE "write"
           /\ disk'[f] = Absent
           /\ HasBackup(f)' /\ (Copied(f)' <=> Copied(f))
           /\ \A n : Serving(f, n)' <=> Serving(f, n)
           /\ cmd[c].op # "migrate" => took' = took
<1>1. /\ cmd[c].op \in {"migrate", "undo", "remove", "unmount"} /\ cmd[c].pc = "clear"
      /\ UNCHANGED <<kind, stored, latest, edits, starts, stops>>
      /\ disk' = [disk EXCEPT ![f] = Absent]
      /\ took' = [took EXCEPT ![f] =
                     IF cmd[c].op = "migrate" /\ IsText(disk[f]) THEN disk[f].val ELSE @]
      /\ GoesTo(c, IF cmd[c].op = "migrate" THEN "place" ELSE "write")
    BY DEF Clear, At
<1>2. PICK pc : pc = IF cmd[c].op = "migrate" THEN "place" ELSE "write"
    OBVIOUS
<1>3. pc \in MigrationPlaces /\ GoesTo(c, pc) /\ cmd[c].pc \notin Deletions
    BY <1>1, <1>2 DEF MigrationPlaces, Deletions
<1>4. cmd' \in [Invocations -> Command] /\ cmd'[c].pc = pc /\ SameCommand(c)
    BY <1>3, Advances DEF MigrationInv
<1>5. /\ disk' \in [Paths -> Contents] /\ disk'[f] = Absent
      /\ \A g \in Paths \ {f} : disk'[g] = disk[g]
    BY <1>1, ContentFacts DEF MigrationInv, MigrationTyped
<1>6. /\ took' \in [Paths -> {0} \cup Texts]
      /\ \A g \in Paths \ {f} : took'[g] = took[g]
      /\ IF cmd[c].op = "migrate" THEN took'[f] = latest[f] ELSE took' = took
  <2>1. took \in [Paths -> {0} \cup Texts] /\ latest[f] \in {0} \cup Texts
      BY DEF MigrationInv, MigrationTyped
  <2>2. CASE cmd[c].op = "migrate"
    <3>1. IsText(disk[f]) /\ disk[f].val = latest[f]
        BY <2>2, ContentFacts
    <3> QED BY <1>1, <2>1, <2>2, <3>1
  <2>3. CASE cmd[c].op # "migrate"
      BY <1>1, <2>1, <2>3
  <2> QED BY <2>2, <2>3
<1>7. MigrationTyped'
    BY <1>1, <1>4, <1>5, <1>6 DEF MigrationInv, MigrationTyped, stored
<1>8. ~ToSave(c)' /\ cmd'[c].saved = cmd[c].saved /\ cmd'[c].content = cmd[c].content
    BY <1>2, <1>4 DEF ToSave, SameCommand
<1>9. IdsOk'
    BY <1>1, <1>8, IdsStay DEF MigrationInv, stored
<1>10. TextsOk'
  <2>1. \A g \in Paths : took'[g] <= Written
      BY <1>6 DEF MigrationInv, TextsOk
  <2> QED BY <1>1, <1>8, <2>1 DEF MigrationInv, TextsOk, Written, OneInvocation, stored
<1>11. \A g \in Paths : SameVault(g) /\ SameBackups(g)
    BY <1>1 DEF SameVault, SameBackups, stored
<1>12. \A g \in Paths \ {f} : FileOk(g)'
  <2>1. \A g \in Paths \ {f} : SameText(g)
      BY <1>1, <1>5, <1>6 DEF SameText
  <2> QED BY <1>3, <1>11, <2>1, OthersStay
<1>13. /\ HasBackup(f)' /\ LatestBackup(f)' = LatestBackup(f) /\ entry' = entry
       /\ Copied(f)' <=> Copied(f)
       /\ Snapped(f, latest[f])' <=> Snapped(f, latest[f])
       /\ \A n : Serving(f, n)' <=> Serving(f, n)
  <2>1. SameNewest(f) /\ latest'[f] = latest[f]
      BY <1>1, <1>11, NewestStays DEF MigrationInv
  <2>2. (Copied(f)' <=> Copied(f)) /\ (Snapped(f, latest[f])' <=> Snapped(f, latest[f]))
      BY <1>11, <2>1, CopyStays, SnapshotsStay
  <2> QED BY <1>1, <1>11, <2>1, <2>2, ServiceStays DEF SameNewest, stored
<1>14. FileOk(f)'
  <2>1. FileOk(f) /\ VaultOk(f)
    <3>1. ~Deleting(f)
        BY <1>3, DeletingIs
    <3> QED BY <3>1 DEF MigrationInv, FileOk
  <2>2. ~IsText(disk[f])' /\ disk'[f].kind # "refers"
      BY <1>5, ContentFacts DEF IsText
  <2>3. latest'[f] # 0 => Safe(f)'
    <3>1. (\E n \in Names : Serving(f, n)) => (\E n \in Names : Serving(f, n))'
        BY <1>13 DEF Names
    <3> QED BY <1>1, <1>13, <3>1, Zenon DEF Safe
  <2>4. latest'[f] # 0 => took'[f] <= latest'[f]
    <3>1. latest[f] <= latest[f]
      <4>1. latest[f] \in {0} \cup Texts
          BY DEF MigrationInv, MigrationTyped
      <4>2. \A v \in Texts : v \in Nat
          BY PathsCounted
      <4>3. latest[f] \in Nat
          BY <4>1, <4>2
      <4> QED BY <4>3
    <3> QED BY <1>1, <1>6, <2>1, <3>1 DEF FileOk, TextOk
  <2>5. TextOk(f)'
      BY <2>2, <2>3, <2>4 DEF TextOk
  <2>6. DiskOk(f)'
      BY <1>1, <1>13, <2>1, <2>2 DEF DiskOk, FileOk, stored, NoName
  <2>7. VaultOk(f)'
    <3>1. Backed(f)'
      <4>1. CASE cmd[c].op = "migrate"
        <5>1. Copied(f) /\ took'[f] = latest[f] /\ latest[f] \in Nat
            BY <1>6, <4>1, PathsCounted DEF MigrationInv, MigrationTyped
        <5> QED BY <1>13, <5>1, ContentFacts DEF Copied, Backed, IsText
      <4>2. CASE cmd[c].op # "migrate"
          BY <1>6, <1>13, <2>1, <4>2 DEF VaultOk, Backed, IsText
      <4> QED BY <4>1, <4>2
    <3>2. \A n \in manifests'[f] : secret'[n].owner = f /\ secret'[n].val # 0
        BY <1>1, <2>1 DEF VaultOk, stored
    <3> QED BY <3>1, <3>2 DEF VaultOk
  <2> QED BY <2>5, <2>6, <2>7, Zenon DEF FileOk
<1>15. \A g \in Paths : FileOk(g)'
    BY <1>12, <1>14
<1> QED BY <1>1, <1>2, <1>4, <1>5, <1>6, <1>7, <1>9, <1>10, <1>13, <1>15

\* A migration clears a file that its backup holds.
LEMMA MigrateClears ==
    ASSUME OneInvocation, MigrationInv, NEW c \in Invocations, Clear(c), cmd[c].op = "migrate"
    PROVE  Kept(c)
<1>0. PICK f, n : f = cmd[c].file /\ n = cmd[c].name
    OBVIOUS
<1>1. cmd[c].pc = "clear"
    BY DEF Clear, At
<1>2. /\ f \in Paths /\ n \in Names /\ \A g \in Paths \ {f} : n \notin manifests[g]
      /\ disk[f] = Text(latest[f]) /\ latest[f] # 0
    BY <1>0, <1>1, Migrating
<1>3. Serving(f, n) /\ Copied(f) /\ HasBackup(f)
    BY <1>0, <1>1 DEF MigrationInv, Knows, MigrateKnows, Copied
<1>4. /\ MigrationTyped' /\ IdsOk' /\ TextsOk' /\ (\A g \in Paths : FileOk(g)')
      /\ UNCHANGED <<kind, stored, latest>> /\ SameCommand(c) /\ cmd'[c].pc = "place"
      /\ disk'[f] = Absent
      /\ (Copied(f)' <=> Copied(f)) /\ (Serving(f, n)' <=> Serving(f, n))
    BY <1>0, <1>2, <1>3, ClearedFile
<1>5. /\ cmd'[c].op = "migrate" /\ cmd'[c].file = f /\ cmd'[c].name = n
      /\ manifests' = manifests /\ disk'[f] = Absent'
    BY <1>0, <1>4 DEF SameCommand, stored, Absent, NoName
<1>6. MigrateKnows(c)'
    BY <1>2, <1>3, <1>4, <1>5 DEF MigrateKnows
<1> QED BY <1>4, <1>5, <1>6, KnowsItsOwn DEF Kept

\* An undo clears a file that a snapshot or a backup holds.
LEMMA UndoClears ==
    ASSUME OneInvocation, MigrationInv, NEW c \in Invocations, Clear(c), cmd[c].op = "undo"
    PROVE  Kept(c)
<1>0. PICK f : f = cmd[c].file
    OBVIOUS
<1>1. cmd[c].pc = "clear"
    BY DEF Clear, At
<1>2. /\ f \in Paths /\ HasBackup(f) /\ registry[f] = NoName /\ FileOk(f)
      /\ IsText(cmd[c].content) /\ took[f] <= cmd[c].content.val
      /\ IsText(disk[f]) => Snapped(f, latest[f])
    BY <1>0, <1>1, Undoing
<1>3. latest[f] # 0 =>
         (\E n \in Names : Serving(f, n)) \/ Copied(f) \/ Snapped(f, latest[f])
  <2>1. disk[f] = Text(latest[f]) => IsText(disk[f])
      BY ContentFacts
  <2> QED BY <1>2, <2>1 DEF FileOk, TextOk, Safe
<1>4. /\ MigrationTyped' /\ IdsOk' /\ TextsOk' /\ (\A g \in Paths : FileOk(g)')
      /\ UNCHANGED <<kind, stored, latest>> /\ SameCommand(c) /\ cmd'[c].pc = "write"
      /\ HasBackup(f)' /\ took' = took
    BY <1>0, <1>1, <1>2, <1>3, ClearedFile
<1>5. /\ cmd'[c].op = "undo" /\ cmd'[c].file = f /\ registry'[f] = NoName'
      /\ IsText(cmd[c].content)' /\ took'[f] <= cmd'[c].content.val
    BY <1>0, <1>2, <1>4 DEF SameCommand, stored, NoName, IsText
<1>6. UndoKnows(c)'
    BY <1>2, <1>4, <1>5, Zenon DEF UndoKnows
<1> QED BY <1>4, <1>5, <1>6, KnowsItsOwn DEF Kept

\* An unmount or a removal clears a file whose text it holds.
LEMMA BackClears ==
    ASSUME OneInvocation, MigrationInv, NEW c \in Invocations, Clear(c),
           cmd[c].op \in {"remove", "unmount"}
    PROVE  Kept(c)
<1>0. PICK f : f = cmd[c].file
    OBVIOUS
<1>1. cmd[c].pc = "clear" /\ cmd[c].pc \notin Deletions
    BY DEF Clear, At, Deletions
<1>2. /\ f \in Paths /\ BackKnows(c) /\ RemoveKnows(c)
      /\ cmd[c].op = "unmount" => cmd[c].mounted
      /\ registry[f] # NoName => cmd[c].mounted
    BY <1>0, <1>1, GoingBack
<1>3. /\ HasBackup(f) /\ (Copied(f) \/ \E n \in Names : Serving(f, n))
      /\ cmd[c].content = Text(latest[f])
    BY <1>0, <1>1, <1>2 DEF BackKnows
<1>4. /\ MigrationTyped' /\ IdsOk' /\ TextsOk' /\ (\A g \in Paths : FileOk(g)')
      /\ UNCHANGED <<kind, stored, latest>> /\ SameCommand(c) /\ cmd'[c].pc = "write"
      /\ HasBackup(f)' /\ (Copied(f)' <=> Copied(f))
      /\ \A n : Serving(f, n)' <=> Serving(f, n)
    BY <1>0, <1>1, <1>2, <1>3, ClearedFile
<1>5. /\ cmd'[c].op = cmd[c].op /\ cmd'[c].file = f /\ cmd'[c].content = Text(latest'[f])
      /\ cmd'[c].mounted = cmd[c].mounted /\ registry' = registry /\ manifests' = manifests
      /\ index \subseteq index'
    BY <1>0, <1>3, <1>4 DEF SameCommand, stored
<1>6. Copied(f)' \/ (\E n \in Names : Serving(f, n))'
    BY <1>3, <1>4 DEF Names
<1>7. BackKnows(c)'
    BY <1>2, <1>4, <1>5, <1>6, BackWillWrite
<1>8. RemoveKnows(c)'
    BY <1>1, <1>2, <1>4, <1>5, RemoveKnowsStill
<1> QED BY <1>4, <1>5, <1>7, <1>8, KnowsItsOwn DEF Kept

-------------------------------------------------------------------------------
(* The rest of a migration. *)

\* Something of jit's own is put where the path was empty, or over what is there.
LEMMA PlacedFile ==
    ASSUME OneInvocation, MigrationInv, NEW c \in Invocations,
           NEW f \in Paths, f = cmd[c].file, NEW x \in Contents, ~IsText(x),
           cmd[c].pc \notin Deletions, UNCHANGED <<kind, stored, ghosts>>,
           disk' = [disk EXCEPT ![f] = x], cmd' \in [Invocations -> Command],
           cmd'[c].saved \in {0, cmd[c].saved}, cmd'[c].content.val <= Written, ~ToSave(c)',
           latest[f] # 0 => (\E n \in Names : Serving(f, n)) \/ Copied(f),
           HasBackup(f),
           x.kind = "refers" => \/ kind[f] = "bak" /\ Serving(f, x.name)
                                \/ kind[f] = "tfvars" /\ Copied(f),
           Knows(c)'
    PROVE  Kept(c)
<1>1. /\ disk' \in [Paths -> Contents] /\ disk'[f] = x
      /\ \A g \in Paths \ {f} : disk'[g] = disk[g]
    BY DEF MigrationInv, MigrationTyped
<1>2. MigrationTyped'
    BY <1>1 DEF MigrationInv, MigrationTyped, stored, ghosts
<1>3. IdsOk' /\ TextsOk'
    BY NumbersStay DEF stored, ghosts
<1>4. \A g \in Paths : SameVault(g) /\ SameBackups(g)
    BY DEF SameVault, SameBackups, stored
<1>5. \A g \in Paths \ {f} : FileOk(g)'
  <2>1. \A g \in Paths \ {f} : SameText(g)
      BY <1>1 DEF SameText, ghosts
  <2> QED BY <1>4, <2>1, OthersStay
<1>6. /\ HasBackup(f)' /\ (Copied(f)' <=> Copied(f)) /\ (Backed(f)' <=> Backed(f))
      /\ \A n : Serving(f, n)' <=> Serving(f, n)
      /\ UNCHANGED <<kind, registry, manifests, secret, latest, took>>
    BY <1>4, NewestStays, CopyStays, ServiceStays DEF SameNewest, MigrationInv, stored, ghosts
<1>7. FileOk(f)'
  <2>1. FileOk(f) /\ VaultOk(f)
    <3>1. ~Deleting(f)
        BY DeletingIs
    <3> QED BY <3>1 DEF MigrationInv, FileOk
  <2>2. latest'[f] # 0 => Safe(f)'
    <3>1. (\E n \in Names : Serving(f, n)) => (\E n \in Names : Serving(f, n))'
        BY <1>6 DEF Names
    <3> QED BY <1>6, <3>1, Zenon DEF Safe
  <2>3. ~IsText(disk[f])'
      BY <1>1 DEF IsText
  <2>4. TextOk(f)'
      BY <1>6, <2>1, <2>2, <2>3 DEF TextOk, FileOk
  <2>5. DiskOk(f)'
      BY <1>1, <1>6, <2>1, <2>3 DEF DiskOk, FileOk, NoName
  <2>6. VaultOk(f)'
      BY <1>6, <2>1 DEF VaultOk
  <2> QED BY <2>4, <2>5, <2>6, Zenon DEF FileOk
<1>8. \A g \in Paths : FileOk(g)'
    BY <1>5, <1>7
<1> QED BY <1>2, <1>3, <1>8 DEF Kept

\* A migration puts a mount or a reference in place of the text.
LEMMA Placing ==
    ASSUME OneInvocation, MigrationInv, NEW c \in Invocations, Place(c)
    PROVE  Kept(c)
<1>0. PICK f, n : f = cmd[c].file /\ n = cmd[c].name
    OBVIOUS
<1>1. /\ cmd[c].op = "migrate" /\ cmd[c].pc = "place" /\ cmd[c].pc \notin Deletions
      /\ UNCHANGED <<kind, stored, ghosts>>
    BY DEF Place, At, Deletions
<1>2. /\ f \in Paths /\ n \in Names /\ \A g \in Paths \ {f} : n \notin manifests[g]
      /\ cmd[c] \in Command
    BY <1>0, <1>1, Migrating
<1>3. \/ kind[f] = "live" /\ IsText(disk[f])
      \/ disk[f] = Absent /\ Serving(f, n) /\ Copied(f)
    BY <1>0, <1>1 DEF MigrationInv, Knows, MigrateKnows
<1>4. CASE disk[f] # Absent /\ kind[f] = "live"
  <2>1. /\ UNCHANGED <<kind, disk, stored, latest, took, edits, starts>>
        /\ stops' \in 0 .. MaxStops /\ Ends(c)
      BY <1>0, <1>1, <1>4 DEF Place, ghosts, MigrationInv, MigrationTyped
  <2> QED BY <1>1, <2>1, JustEnds
<1>5. CASE disk[f] = Absent /\ kind[f] = "live"
  <2>1. disk' = [disk EXCEPT ![f] = Pipe] /\ GoesTo(c, "register")
      BY <1>0, <1>5 DEF Place
  <2>2. cmd' \in [Invocations -> Command] /\ cmd'[c].pc = "register" /\ SameCommand(c)
    <3>1. "register" \in MigrationPlaces
        BY DEF MigrationPlaces
    <3> QED BY <2>1, <3>1, Advances DEF MigrationInv
  <2>3. /\ cmd'[c].op = "migrate" /\ cmd'[c].file = f /\ cmd'[c].name = n
        /\ cmd'[c].saved = cmd[c].saved /\ cmd'[c].content.val <= Written /\ ~ToSave(c)'
      BY <1>0, <1>1, <2>2 DEF SameCommand, ToSave, MigrationInv, TextsOk
  <2>4. Serving(f, n) /\ Copied(f) /\ HasBackup(f)
      BY <1>3, <1>5, ContentFacts DEF Copied
  <2>5. MigrateKnows(c)'
    <3>1. Serving(f, n)' /\ kind'[f] = "live" /\ disk'[f] = Pipe' /\ manifests' = manifests
      <4>1. disk'[f] = Pipe
          BY <1>2, <2>1 DEF MigrationInv, MigrationTyped
      <4> QED BY <1>1, <1>5, <2>4, <4>1 DEF Serving, stored, ghosts, Pipe, NoName
    <3> QED BY <1>2, <2>2, <2>3, <3>1 DEF MigrateKnows
  <2>6. Knows(c)'
      BY <2>3, <2>5, KnowsItsOwn
  <2> QED BY <1>0, <1>1, <1>2, <2>1, <2>2, <2>3, <2>4, <2>6, ContentFacts, PlacedFile
<1>6. CASE kind[f] # "live"
  <2>1. disk' = [disk EXCEPT ![f] = Refers(n)] /\ Ends(c)
      BY <1>0, <1>6 DEF Place
  <2>2. Serving(f, n) /\ Copied(f) /\ HasBackup(f)
      BY <1>3, <1>6 DEF Copied
  <2>3. cmd' \in [Invocations -> Command] /\ cmd'[c] = Idle
      BY <2>1, Becomes, IdleIsCommand DEF Ends, MigrationInv
  <2>4. cmd'[c].op = "none" /\ cmd'[c].saved = 0 /\ cmd'[c].content.val <= Written
        /\ ~ToSave(c)' /\ Knows(c)'
    <3>1. cmd'[c].op = "none" /\ cmd'[c].saved = 0 /\ cmd'[c].content.val <= Written
        BY <2>3, IdleIsCommand, ContentFacts, WrittenCounts DEF MigrationInv
    <3> QED BY <3>1, KnowsItsOwn, NotToSave
  <2>5. Refers(n) \in Contents /\ ~IsText(Refers(n)) /\ Refers(n).name = n
      BY <1>2, ContentFacts
  <2>6. kind[f] = "bak" \/ kind[f] = "tfvars"
      BY <1>2, <1>6 DEF MigrationInv, MigrationTyped, Kinds
  <2> QED BY <1>0, <1>1, <1>2, <2>1, <2>2, <2>3, <2>4, <2>5, <2>6, PlacedFile
<1> QED BY <1>4, <1>5, <1>6

\* The mount is registered once the pipe is there.
LEMMA Registering ==
    ASSUME OneInvocation, MigrationInv, NEW c \in Invocations, Register(c)
    PROVE  Kept(c)
<1>0. PICK f, n : f = cmd[c].file /\ n = cmd[c].name
    OBVIOUS
<1>1. /\ cmd[c].op = "migrate" /\ cmd[c].pc = "register" /\ cmd[c].pc \notin Deletions
      /\ registry' = [registry EXCEPT ![f] = n] /\ Ends(c)
      /\ UNCHANGED <<kind, disk, secret, manifests, entry, index, ghosts>>
    BY <1>0 DEF Register, At, Deletions
<1>2. f \in Paths /\ n \in Names /\ FileOk(f) /\ ~Deleting(f)
    BY <1>0, <1>1, Migrating
<1>3. Serving(f, n) /\ kind[f] = "live" /\ disk[f] = Pipe
    BY <1>0, <1>1 DEF MigrationInv, Knows, MigrateKnows
<1>4. cmd' \in [Invocations -> Command] /\ cmd'[c] = Idle
    BY <1>1, Becomes, IdleIsCommand DEF Ends, MigrationInv
<1>5. cmd'[c].op = "none" /\ cmd'[c].saved = 0 /\ cmd'[c].content.val <= Written
      /\ ~ToSave(c)' /\ Knows(c)'
  <2>1. cmd'[c].op = "none" /\ cmd'[c].saved = 0 /\ cmd'[c].content.val <= Written
      BY <1>4, IdleIsCommand, ContentFacts, WrittenCounts DEF MigrationInv
  <2> QED BY <2>1, KnowsItsOwn, NotToSave
<1>6. /\ registry' \in [Paths -> Names \cup {NoName}] /\ registry'[f] = n
      /\ \A g \in Paths \ {f} : registry'[g] = registry[g]
    BY <1>1, <1>2 DEF MigrationInv, MigrationTyped
<1>7. MigrationTyped'
    BY <1>1, <1>4, <1>6 DEF MigrationInv, MigrationTyped, ghosts
<1>8. IdsOk' /\ TextsOk'
    BY <1>1, <1>5, NumbersStay DEF ghosts
<1>9. \A g \in Paths \ {f} : FileOk(g)'
  <2>1. \A g \in Paths \ {f} : SameText(g) /\ SameVault(g) /\ SameBackups(g)
      BY <1>1, <1>6 DEF SameText, SameVault, SameBackups, ghosts
  <2> QED BY <1>1, <2>1, OthersStay
<1>10. FileOk(f)'
  <2>1. /\ HasBackup(f) /\ VaultOk(f) /\ TextOk(f) /\ ~IsText(disk[f])
        /\ disk[f].kind # "refers"
      BY <1>2, <1>3, ContentFacts DEF FileOk, DiskOk
  <2>2. SameBackups(f) /\ UNCHANGED <<kind, disk, secret, manifests, latest, took>>
      BY <1>1 DEF SameBackups, ghosts
  <2>3. /\ HasBackup(f)' /\ (Copied(f)' <=> Copied(f)) /\ (Backed(f)' <=> Backed(f))
        /\ Snapped(f, latest[f])' <=> Snapped(f, latest[f])
        /\ \A k : Serving(f, k)' <=> Serving(f, k)
      BY <2>1, <2>2, NewestStays, CopyStays, SnapshotsStay DEF SameNewest, MigrationInv, Serving
  <2>4. TextOk(f)'
    <3>1. (\E k \in Names : Serving(f, k)) => (\E k \in Names : Serving(f, k))'
        BY <2>3 DEF Names
    <3>2. ~IsText(disk[f])' /\ disk[f] # Text(latest[f])
        BY <2>1, <2>2, ContentFacts DEF IsText
    <3>3. Safe(f) => Safe(f)'
        BY <2>3, <3>1, <3>2, Zenon DEF Safe
    <3> QED BY <2>1, <2>2, <3>2, <3>3 DEF TextOk
  <2>5. DiskOk(f)'
    <3>1. PICK k : k = registry'[f]
        OBVIOUS
    <3>2. Serving(f, n)'
        BY <1>3, <2>3
    <3> QED BY <1>3, <1>6, <2>1, <2>2, <2>3, <3>2 DEF DiskOk, NoName, IsText
  <2>6. VaultOk(f)'
      BY <2>1, <2>2, <2>3 DEF VaultOk
  <2> QED BY <2>4, <2>5, <2>6, Zenon DEF FileOk
<1>11. \A g \in Paths : FileOk(g)'
    BY <1>9, <1>10
<1> QED BY <1>5, <1>7, <1>8, <1>11 DEF Kept

-------------------------------------------------------------------------------
(* Files that are written. *)

\* A mount is taken from the registry.
LEMMA Unregistered ==
    ASSUME OneInvocation, MigrationInv, NEW c \in Invocations, Unregister(c),
           NEW f \in Paths, f = cmd[c].file,
           cmd' \in [Invocations -> Command],
           cmd'[c].saved \in {0, cmd[c].saved}, cmd'[c].content.val <= Written,
           ToSave(c)' => ToSave(c),
           Knows(c)'
    PROVE  Kept(c)
<1>1. /\ cmd[c].pc \notin Deletions /\ registry' = [registry EXCEPT ![f] = NoName]
      /\ UNCHANGED <<kind, disk, secret, manifests, entry, index, ghosts>>
    BY DEF Unregister, At, Deletions
<1>2. /\ registry' \in [Paths -> Names \cup {NoName}] /\ registry'[f] = NoName
      /\ \A g \in Paths \ {f} : registry'[g] = registry[g]
    BY <1>1 DEF MigrationInv, MigrationTyped
<1>3. MigrationTyped'
    BY <1>1, <1>2 DEF MigrationInv, MigrationTyped, ghosts
<1>4. IdsOk' /\ TextsOk'
    BY <1>1, NumbersStay DEF ghosts
<1>5. \A g \in Paths \ {f} : FileOk(g)'
  <2>1. \A g \in Paths \ {f} : SameText(g) /\ SameVault(g) /\ SameBackups(g)
      BY <1>1, <1>2 DEF SameText, SameVault, SameBackups, ghosts
  <2> QED BY <1>1, <2>1, OthersStay
<1>6. FileOk(f)'
  <2>1. VaultOk(f) /\ TextOk(f) /\ DiskOk(f)
    <3>1. ~Deleting(f)
        BY <1>1, DeletingIs
    <3> QED BY <3>1 DEF MigrationInv, FileOk
  <2>2. SameBackups(f) /\ UNCHANGED <<kind, disk, secret, manifests, latest, took>>
      BY <1>1 DEF SameBackups, ghosts
  <2>3. /\ HasBackup(f)' <=> HasBackup(f)
        /\ (Copied(f)' <=> Copied(f)) /\ (Backed(f)' <=> Backed(f))
        /\ Snapped(f, latest[f])' <=> Snapped(f, latest[f])
        /\ \A k : Serving(f, k)' <=> Serving(f, k)
      BY <2>2, NewestStays, CopyStays, SnapshotsStay DEF SameNewest, MigrationInv, Serving
  <2>4. TextOk(f)'
    <3>1. (\E k \in Names : Serving(f, k)) => (\E k \in Names : Serving(f, k))'
        BY <2>3 DEF Names
    <3>2. disk[f] = Text(latest[f]) => (disk[f] = Text(latest[f]))'
        BY <2>2 DEF Text, NoName
    <3>3. Safe(f) => Safe(f)'
        BY <2>3, <3>1, <3>2, Zenon DEF Safe
    <3> QED BY <2>1, <2>2, <3>2, <3>3 DEF TextOk, IsText
  <2>5. DiskOk(f)'
      BY <1>2, <2>1, <2>2, <2>3 DEF DiskOk, NoName, IsText
  <2>6. VaultOk(f)'
      BY <2>1, <2>2, <2>3 DEF VaultOk
  <2> QED BY <2>4, <2>5, <2>6, Zenon DEF FileOk
<1>7. \A g \in Paths : FileOk(g)'
    BY <1>5, <1>6
<1> QED BY <1>3, <1>4, <1>7 DEF Kept

\* An undo unregisters the mount.
LEMMA UndoUnregisters ==
    ASSUME OneInvocation, MigrationInv, NEW c \in Invocations, Unregister(c), cmd[c].op = "undo"
    PROVE  Kept(c)
<1>0. PICK f : f = cmd[c].file
    OBVIOUS
<1>1. cmd[c].pc = "unregister" /\ GoesTo(c, "get") /\ index' = index /\ entry' = entry
    BY DEF Unregister, At
<1>2. f \in Paths /\ HasBackup(f) /\ cmd[c].id = LatestBackup(f)
    BY <1>0, <1>1 DEF MigrationInv, Knows, UndoKnows
<1>3. cmd' \in [Invocations -> Command] /\ cmd'[c].pc = "get" /\ SameCommand(c)
  <2>1. "get" \in MigrationPlaces
      BY DEF MigrationPlaces
  <2> QED BY <1>1, <2>1, Advances DEF MigrationInv
<1>4. /\ cmd'[c].op = "undo" /\ cmd'[c].file = f /\ cmd'[c].id = LatestBackup(f)
      /\ cmd'[c].saved = cmd[c].saved /\ cmd'[c].content.val <= Written /\ ToSave(c)
    BY <1>0, <1>1, <1>2, <1>3 DEF SameCommand, ToSave, MigrationInv, TextsOk
<1>5. HasBackup(f)' /\ LatestBackup(f)' = LatestBackup(f) /\ registry'[f] = NoName'
  <2>1. registry'[f] = NoName
      BY <1>0, <1>2 DEF Unregister, MigrationInv, MigrationTyped
  <2> QED BY <1>1, <1>2, <2>1 DEF HasBackup, LatestBackup, BackupsOf, NoName
<1>6. UndoKnows(c)'
    BY <1>2, <1>3, <1>4, <1>5, Zenon DEF UndoKnows
<1>7. Knows(c)'
    BY <1>4, <1>6, KnowsItsOwn
<1> QED BY <1>0, <1>2, <1>3, <1>4, <1>7, Unregistered

\* An unmount or a removal unregisters the mount.
LEMMA BackUnregisters ==
    ASSUME OneInvocation, MigrationInv, NEW c \in Invocations, Unregister(c),
           cmd[c].op \in {"remove", "unmount"}
    PROVE  Kept(c)
<1>0. PICK f : f = cmd[c].file
    OBVIOUS
<1>1. /\ cmd[c].pc = "unregister" /\ cmd[c].pc \notin Deletions /\ GoesOn(c)
      /\ UNCHANGED <<index, entry, manifests, disk>>
    BY DEF Unregister, At, Deletions
<1>2. f \in Paths /\ BackKnows(c) /\ RemoveKnows(c)
    BY <1>0, <1>1, GoingBack
<1>3. IsText(disk[f])
    BY <1>0, <1>1, <1>2 DEF BackKnows
<1>4. CASE cmd[c].op = "unmount"
  <2>1. cmd' \in [Invocations -> Command] /\ cmd'[c] = Idle
      BY <1>1, <1>4, Becomes, IdleIsCommand DEF GoesOn, Ends, MigrationInv
  <2>2. cmd'[c].op = "none" /\ cmd'[c].saved = 0 /\ cmd'[c].content.val <= Written
      BY <2>1, IdleIsCommand, ContentFacts, WrittenCounts DEF MigrationInv
  <2> QED BY <1>0, <1>2, <2>1, <2>2, KnowsItsOwn, NotToSave, Unregistered
<1>5. CASE cmd[c].op = "remove"
  <2>1. cmd' \in [Invocations -> Command] /\ cmd'[c].pc = "secrets" /\ SameCommand(c)
    <3>1. "secrets" \in MigrationPlaces /\ GoesTo(c, "secrets")
        BY <1>1, <1>5 DEF MigrationPlaces, GoesOn
    <3> QED BY <3>1, Advances DEF MigrationInv
  <2>2. /\ cmd'[c].op = "remove" /\ cmd'[c].file = f
        /\ cmd'[c].saved = cmd[c].saved /\ cmd'[c].content.val <= Written
      BY <1>0, <1>5, <2>1 DEF SameCommand, MigrationInv, TextsOk
  <2>3. ~ToSave(c)'
      BY <2>1, <2>2 DEF ToSave
  <2>4. BackKnows(c)'
    <3>1. registry'[f] = NoName' /\ IsText(disk[f])'
      <4>1. registry'[f] = NoName
          BY <1>0, <1>2 DEF Unregister, MigrationInv, MigrationTyped
      <4> QED BY <1>1, <1>3, <4>1 DEF NoName, IsText
    <3> QED BY <1>2, <2>1, <2>2, <3>1, Zenon DEF BackKnows, Deletions
  <2>5. RemoveKnows(c)'
      BY <1>1, <1>2, <2>1, RemoveKnowsStill
  <2> QED BY <1>0, <1>2, <2>1, <2>2, <2>3, <2>4, <2>5, KnowsItsOwn, Unregistered
<1> QED BY <1>4, <1>5

\* The user's text x is put at the path, by whomever.
LEMMA Rewritten ==
    ASSUME MigrationInv, NEW f \in Paths, NEW x \in Contents, IsText(x), took[f] <= x.val,
           disk' = [disk EXCEPT ![f] = x], latest' = [latest EXCEPT ![f] = x.val],
           UNCHANGED <<kind, stored, took>>,
           registry[f] = NoName \/ latest[f] = x.val,
           \A g \in Paths : Deleting(g) => Deleting(g)'
    PROVE  /\ disk' \in [Paths -> Contents] /\ latest' \in [Paths -> {0} \cup Texts]
           /\ disk'[f] = x /\ latest'[f] = x.val
           /\ \A g \in Paths : FileOk(g)'
<1>1. /\ disk' \in [Paths -> Contents] /\ latest' \in [Paths -> {0} \cup Texts]
      /\ disk'[f] = x /\ latest'[f] = x.val
      /\ \A g \in Paths \ {f} : disk'[g] = disk[g] /\ latest'[g] = latest[g]
  <2>1. x.val \in Texts
      BY ContentKinds
  <2> QED BY <2>1 DEF MigrationInv, MigrationTyped
<1>2. \A g \in Paths : SameVault(g) /\ SameBackups(g)
    BY DEF SameVault, SameBackups, stored
<1>3. \A g \in Paths \ {f} : FileOk(g)'
  <2>1. \A g \in Paths \ {f} : SameText(g)
      BY <1>1 DEF SameText
  <2> QED BY <1>2, <2>1, FileStays DEF MigrationInv
<1>4. FileOk(f)'
  <2>1. x = Text(x.val)
      BY ContentKinds
  <2>2. TextOk(f)'
    <3>1. (disk[f] = Text(latest[f]))'
        BY <1>1, <2>1 DEF Text, NoName
    <3> QED BY <1>1, <3>1 DEF TextOk, Safe
  <2>3. IsText(disk[f])' /\ disk'[f].kind # "refers"
      BY <1>1 DEF IsText
  <2>4. DiskOk(f)'
    <3>1. registry[f] # NoName => kind[f] = "live" /\ Serving(f, registry[f]) /\ HasBackup(f)
        BY DEF MigrationInv, FileOk, DiskOk
    <3>2. registry[f] # NoName => latest'[f] = latest[f]
        BY <1>1
    <3>3. registry' = registry /\ kind' = kind /\ (HasBackup(f) => HasBackup(f)')
        BY DEF stored, HasBackup, BackupsOf
    <3>4. registry[f] # NoName => Serving(f, registry[f])'
        BY <3>1, <3>2 DEF Serving, stored
    <3> QED BY <2>3, <3>1, <3>3, <3>4 DEF DiskOk, NoName
  <2>5. VaultOk(f) => VaultOk(f)'
    <3>1. SameNewest(f)
        BY <1>2, NewestStays DEF MigrationInv
    <3> QED BY <3>1, CopyStays DEF VaultOk, SameNewest, stored
  <2>6. ~Deleting(f)' => VaultOk(f)
      BY DEF MigrationInv, FileOk
  <2> QED BY <2>2, <2>4, <2>5, <2>6, Zenon DEF FileOk
<1> QED BY <1>1, <1>3, <1>4

\* What WriteBack leaves, as it is or with the text at the path.
LEMMA Writing ==
    ASSUME OneInvocation, MigrationInv, NEW c \in Invocations, WriteBack(c),
           NEW f \in Paths, f = cmd[c].file, NEW x \in Contents, x = cmd[c].content,
           disk[f] = Absent \/ cmd[c].name # NoName,
           IsText(x), took[f] <= x.val, registry[f] = NoName \/ latest[f] = x.val,
           cmd[c].op # "undo" => latest[f] = x.val,
           cmd' \in [Invocations -> Command],
           cmd'[c].saved \in {0, cmd[c].saved}, cmd'[c].content.val <= Written, ~ToSave(c)'
    PROVE  /\ MigrationTyped' /\ IdsOk' /\ TextsOk' /\ (\A g \in Paths : FileOk(g)')
           /\ UNCHANGED <<kind, stored>> /\ disk'[f] = x /\ latest'[f] = x.val
<1>1. /\ cmd[c].op \in {"undo", "remove", "unmount"} /\ cmd[c].pc \notin Deletions
      /\ disk' = [disk EXCEPT ![f] = x]
      /\ latest' = [latest EXCEPT ![f] = IF cmd[c].op = "undo" THEN x.val ELSE @]
      /\ UNCHANGED <<kind, stored, took, edits, starts, stops>>
    BY DEF WriteBack, At, Deletions
<1>2. latest' = [latest EXCEPT ![f] = x.val]
  <2>1. CASE cmd[c].op = "undo"
      BY <1>1, <2>1
  <2>2. CASE cmd[c].op # "undo"
      BY <1>1, <2>2
  <2> QED BY <2>1, <2>2
<1>3. \A g \in Paths : ~Deleting(g)
    BY <1>1, DeletingIs
<1>4. /\ disk' \in [Paths -> Contents] /\ latest' \in [Paths -> {0} \cup Texts]
      /\ disk'[f] = x /\ latest'[f] = x.val
      /\ \A g \in Paths : FileOk(g)'
    BY <1>1, <1>2, <1>3, Rewritten
<1>5. MigrationTyped'
    BY <1>1, <1>4 DEF MigrationInv, MigrationTyped, stored
<1>6. IdsOk'
    BY <1>1, IdsStay DEF MigrationInv, stored
<1>7. TextsOk'
  <2>1. x.val <= Written /\ \A g \in Paths : latest[g] <= Written
      BY DEF MigrationInv, TextsOk
  <2>2. \A g \in Paths : latest'[g] <= Written
      BY <1>2, <2>1 DEF MigrationInv, MigrationTyped
  <2> QED BY <1>1, <2>2 DEF MigrationInv, TextsOk, Written, OneInvocation, stored
<1> QED BY <1>1, <1>4, <1>5, <1>6, <1>7

\* An undo writes the text of the backup.
LEMMA UndoWrites ==
    ASSUME OneInvocation, MigrationInv, NEW c \in Invocations, WriteBack(c), cmd[c].op = "undo"
    PROVE  Kept(c)
<1>0. PICK f, x : f = cmd[c].file /\ x = cmd[c].content
    OBVIOUS
<1>1. cmd[c].pc = "write" /\ cmd[c].pc \notin Deletions
    BY DEF WriteBack, At, Deletions
<1>2. /\ f \in Paths /\ registry[f] = NoName /\ x \in Contents
      /\ IsText(x) /\ took[f] <= x.val
    BY <1>0, <1>1, Undoing DEF Command
<1>3. Ends(c)
    BY DEF WriteBack, GoesOn
<1>4. CASE disk[f] = Absent \/ cmd[c].name # NoName
  <2>1. cmd' \in [Invocations -> Command] /\ cmd'[c] = Idle
      BY <1>3, Becomes, IdleIsCommand DEF Ends, MigrationInv
  <2>2. cmd'[c].op = "none" /\ cmd'[c].saved = 0 /\ cmd'[c].content.val <= Written
      BY <2>1, IdleIsCommand, ContentFacts, WrittenCounts DEF MigrationInv
  <2>3. ~ToSave(c)' /\ Knows(c)'
      BY <2>2, KnowsItsOwn, NotToSave
  <2>4. MigrationTyped' /\ IdsOk' /\ TextsOk' /\ (\A g \in Paths : FileOk(g)')
      BY <1>0, <1>2, <1>4, <2>1, <2>2, <2>3, Writing
  <2> QED BY <2>3, <2>4 DEF Kept
<1>5. CASE ~(disk[f] = Absent \/ cmd[c].name # NoName)
  <2>1. UNCHANGED <<kind, disk, stored, latest, took, edits, starts>> /\ stops' \in 0 .. MaxStops
      BY <1>0, <1>5 DEF WriteBack, MigrationInv, MigrationTyped
  <2> QED BY <1>1, <1>3, <2>1, JustEnds
<1> QED BY <1>4, <1>5

\* An unmount or a removal writes the text back.
LEMMA BackWrites ==
    ASSUME OneInvocation, MigrationInv, NEW c \in Invocations, WriteBack(c),
           cmd[c].op \in {"remove", "unmount"}
    PROVE  Kept(c)
<1>0. PICK f, x : f = cmd[c].file /\ x = cmd[c].content
    OBVIOUS
<1>1. cmd[c].pc = "write" /\ cmd[c].pc \notin Deletions
    BY DEF WriteBack, At, Deletions
<1>2. /\ f \in Paths /\ BackKnows(c) /\ RemoveKnows(c) /\ cmd[c] \in Command
      /\ cmd[c].op = "unmount" => cmd[c].mounted
      /\ registry[f] # NoName => cmd[c].mounted
      /\ FileOk(f)
    BY <1>0, <1>1, GoingBack
<1>3. /\ x = Text(latest[f]) /\ x \in Contents /\ IsText(x) /\ x.val = latest[f]
      /\ took[f] <= x.val
  <2>1. x = Text(latest[f])
      BY <1>0, <1>1, <1>2 DEF BackKnows
  <2>2. x \in Contents /\ IsText(x) /\ x.val = latest[f]
      BY <1>0, <1>2, <2>1, ContentFacts DEF Command
  <2>3. latest[f] # 0
    <3>1. x.val \in Texts
        BY <2>2, ContentKinds
    <3> QED BY <2>2, <3>1, PathsCounted
  <2> QED BY <1>2, <2>1, <2>2, <2>3 DEF FileOk, TextOk
<1>4. CASE ~(disk[f] = Absent \/ cmd[c].name # NoName)
  <2>1. UNCHANGED <<kind, disk, stored, latest, took, edits, starts>> /\ stops' \in 0 .. MaxStops
        /\ Ends(c)
      BY <1>0, <1>4 DEF WriteBack, MigrationInv, MigrationTyped
  <2> QED BY <1>1, <2>1, JustEnds
<1>5. CASE disk[f] = Absent \/ cmd[c].name # NoName
  <2>1. IF cmd[c].mounted THEN GoesTo(c, "unregister") ELSE GoesTo(c, "secrets")
      BY <1>0, <1>2, <1>5 DEF WriteBack, GoesOn
  <2>2. PICK pc : pc = IF cmd[c].mounted THEN "unregister" ELSE "secrets"
      OBVIOUS
  <2>3. cmd' \in [Invocations -> Command] /\ cmd'[c].pc = pc /\ SameCommand(c)
    <3>1. pc \in MigrationPlaces /\ GoesTo(c, pc)
        BY <2>1, <2>2 DEF MigrationPlaces
    <3> QED BY <3>1, Advances DEF MigrationInv
  <2>4. /\ cmd'[c].op = cmd[c].op /\ cmd'[c].file = f /\ cmd'[c].mounted = cmd[c].mounted
        /\ cmd'[c].saved = cmd[c].saved /\ cmd'[c].content.val <= Written /\ ~ToSave(c)'
    <3>1. pc \notin {"claim", "store", "manifest", "backup", "get"}
        BY <2>2
    <3> QED BY <1>0, <2>3, <3>1 DEF SameCommand, ToSave, MigrationInv, TextsOk
  <2>5. /\ MigrationTyped' /\ IdsOk' /\ TextsOk' /\ (\A g \in Paths : FileOk(g)')
        /\ UNCHANGED <<kind, stored>> /\ disk'[f] = x
      BY <1>0, <1>2, <1>3, <1>5, <2>3, <2>4, Writing
  <2>6. BackKnows(c)'
    <3>1. IsText(disk[f])' /\ (registry'[f] # NoName' => cmd'[c].mounted)
          /\ (cmd'[c].op = "unmount" => cmd'[c].mounted) /\ cmd'[c].op \in {"remove", "unmount"}
        BY <1>2, <1>3, <2>4, <2>5 DEF IsText, stored, NoName
    <3>2. CASE pc = "unregister"
        BY <1>2, <2>3, <2>4, <3>1, <3>2, Zenon DEF BackKnows, Deletions
    <3>3. CASE pc = "secrets"
      <4>1. registry'[f] = NoName' /\ cmd'[c].op = "remove"
          BY <1>2, <2>2, <2>4, <3>1, <3>3
      <4> QED BY <1>2, <2>3, <2>4, <3>1, <3>3, <4>1, Zenon DEF BackKnows, Deletions
    <3> QED BY <2>2, <3>2, <3>3
  <2>7. RemoveKnows(c)'
    <3>1. manifests' = manifests /\ index \subseteq index'
        BY <2>5 DEF stored
    <3> QED BY <1>1, <1>2, <2>3, <3>1, RemoveKnowsStill
  <2> QED BY <2>4, <2>5, <2>6, <2>7, KnowsItsOwn DEF Kept
<1> QED BY <1>4, <1>5

-------------------------------------------------------------------------------
(* The user. *)

\* A save leaves a command what it knows: it works on another file, or reads this one later.
LEMMA KnowsOnEdit ==
    ASSUME OneInvocation, NoLiberties, MigrationInv, NEW c \in Invocations, NEW f \in Paths,
           Edit(f), disk'[f] = Text(NewText),
           \A g \in Paths \ {f} : disk'[g] = disk[g] /\ latest'[g] = latest[g]
    PROVE  Knows(c)'
<1>1. /\ Untouched(f) /\ UNCHANGED <<kind, secret, manifests, registry, entry, index, cmd, took>>
    BY DEF Edit, NoLiberties, stored
<1>2. Knows(c) /\ MigrationTyped
    BY DEF MigrationInv
<1>3. /\ IsText(disk'[f])
      /\ \A g \in Paths \ {f} : /\ disk'[g] = disk[g] /\ latest'[g] = latest[g]
                                /\ Copied(g)' <=> Copied(g)
                                /\ Snapped(g, latest[g])' <=> Snapped(g, latest[g])
                                /\ \A n : Serving(g, n)' <=> Serving(g, n)
      /\ \A g : (HasBackup(g)' <=> HasBackup(g)) /\ LatestBackup(g)' = LatestBackup(g)
  <2>1. \A g \in Paths : SameBackups(g)
      BY <1>1 DEF SameBackups
  <2>2. \A g \in Paths \ {f} : SameNewest(g) /\ latest'[g] = latest[g]
      BY <1>2, <2>1, NewestStays
  <2>3. \A g \in Paths \ {f} : Copied(g)' <=> Copied(g)
      BY <2>2, CopyStays
  <2>4. \A g \in Paths \ {f} : Snapped(g, latest[g])' <=> Snapped(g, latest[g])
      BY <2>1, <2>2, SnapshotsStay
  <2>5. \A g \in Paths \ {f} : \A n : Serving(g, n)' <=> Serving(g, n)
      BY <1>1, <2>2 DEF Serving
  <2>6. \A g : (HasBackup(g)' <=> HasBackup(g)) /\ LatestBackup(g)' = LatestBackup(g)
      BY <1>1 DEF HasBackup, LatestBackup, BackupsOf
  <2> QED BY <2>2, <2>3, <2>4, <2>5, <2>6, ContentFacts
<1>4. cmd[c].file = f =>
          \/ cmd[c].op = "migrate" /\ kind[f] = "live" /\ cmd[c].pc = "place"
          \/ cmd[c].op = "undo" /\ cmd[c].pc \in {"get", "backup", "write"}
          \/ cmd[c].op = "remove" /\ cmd[c].pc \in {"secrets"} \cup Deletions
    BY <1>1 DEF Untouched
<1>5. PICK g, n : g = cmd[c].file /\ n = cmd[c].name
    OBVIOUS
<1>6. CASE cmd[c].op = "migrate"
  <2>1. g \in Paths /\ MigrateKnows(c)
      BY <1>2, <1>5, <1>6 DEF Knows, MigrateKnows
  <2>2. CASE g = f
    <3>1. MigrateKnows(c)'
        BY <1>1, <1>3, <1>4, <1>5, <1>6, <2>1, <2>2 DEF MigrateKnows, IsText
    <3> QED BY <1>1, <1>6, <3>1, KnowsItsOwn
  <2>3. CASE g # f
    <3>1. Saved(c) => Saved(c)'
        BY <1>1, <1>3, <1>5, <2>1, <2>3 DEF Saved
    <3>2. /\ IsText(disk[g])' <=> IsText(disk[g])
          /\ Text(latest[g])' = Text(latest[g])
        BY <1>3, <2>1, <2>3 DEF IsText, Text, NoName
    <3>3. disk'[g] = disk[g] /\ latest'[g] = latest[g] /\ (Copied(g)' <=> Copied(g))
          /\ (Serving(g, n)' <=> Serving(g, n)) /\ Absent' = Absent /\ Pipe' = Pipe
        BY <1>3, <2>1, <2>3 DEF Absent, Pipe, NoName
    <3>4. MigrateKnows(c)'
        BY <1>1, <1>5, <2>1, <3>1, <3>2, <3>3 DEF MigrateKnows
    <3> QED BY <1>1, <1>6, <3>4, KnowsItsOwn
  <2> QED BY <2>2, <2>3
<1>7. CASE cmd[c].op = "undo"
  <2>1. g \in Paths /\ UndoKnows(c)
      BY <1>2, <1>5, <1>7 DEF Knows, UndoKnows
  <2>2. /\ HasBackup(g)' <=> HasBackup(g)
        /\ LatestBackup(g)' = LatestBackup(g) /\ registry' = registry /\ NoName' = NoName
        /\ IsText(cmd[c].content)' <=> IsText(cmd[c].content)
      BY <1>1, <1>3 DEF NoName, IsText
  <2>3. CASE g = f
    <3>1. cmd[c].pc \in {"get", "backup", "write"}
        BY <1>4, <1>5, <1>7, <2>3
    <3>2. UndoKnows(c)'
        BY <1>1, <1>5, <2>1, <2>2, <3>1, Zenon DEF UndoKnows
    <3> QED BY <1>1, <1>7, <3>2, KnowsItsOwn
  <2>4. CASE g # f
    <3>1. Saved(c) => Saved(c)'
        BY <1>1, <1>3, <1>5, <2>1, <2>4 DEF Saved
    <3>2. /\ IsText(disk[g])' <=> IsText(disk[g])
          /\ Snapped(g, latest[g])' <=> Snapped(g, latest[g])
        BY <1>3, <2>1, <2>4 DEF IsText
    <3>3. UndoKnows(c)'
        BY <1>1, <1>5, <2>1, <2>2, <3>1, <3>2, Zenon DEF UndoKnows
    <3> QED BY <1>1, <1>7, <3>3, KnowsItsOwn
  <2> QED BY <2>3, <2>4
<1>8. CASE cmd[c].op \in {"remove", "unmount"}
  <2>1. g \in Paths /\ BackKnows(c) /\ RemoveKnows(c)
      BY <1>2, <1>5, <1>8 DEF Knows, BackKnows
  <2>2. /\ HasBackup(g)' <=> HasBackup(g)
        /\ LatestBackup(g)' = LatestBackup(g) /\ registry' = registry /\ NoName' = NoName
      BY <1>1, <1>3 DEF NoName
  <2>3. RemoveKnows(c)'
      BY <1>1, <2>1, Zenon DEF RemoveKnows
  <2>4. CASE g = f
    <3>1. cmd[c].op = "remove" /\ cmd[c].pc \in {"secrets"} \cup Deletions
        BY <1>4, <1>5, <1>8, <2>4
    <3>2. registry[f] = NoName /\ IsText(disk[f])'
        BY <1>1, <1>3 DEF Untouched, IsText
    <3>3. /\ cmd[c].pc \notin {"resolve", "get", "backup", "record", "clear", "write", "unregister"}
          /\ cmd[c].pc = "store" => ~HasBackup(f)
        BY <1>5, <2>1, <2>4, <3>1 DEF BackKnows, Deletions
    <3>4. BackKnows(c)'
        BY <1>1, <1>5, <2>2, <2>4, <3>1, <3>2, <3>3 DEF BackKnows, Deletions
    <3> QED BY <1>1, <2>3, <3>1, <3>4, KnowsItsOwn
  <2>5. CASE g # f
    <3>1. Saved(c) => Saved(c)'
        BY <1>1, <1>3, <1>5, <2>1, <2>5 DEF Saved
    <3>2. /\ IsText(disk[g])' <=> IsText(disk[g])
          /\ Copied(g)' <=> Copied(g)
          /\ Serving(g, n)' <=> Serving(g, n)
          /\ (\E m \in Names : Serving(g, m))' <=> (\E m \in Names : Serving(g, m))
          /\ Text(latest[g])' = Text(latest[g])
        BY <1>3, <2>1, <2>5 DEF IsText, Names, Text, NoName
    <3>3. BackKnows(c)'
        BY <1>1, <1>5, <2>1, <2>2, <3>1, <3>2, Zenon DEF BackKnows, Deletions
    <3> QED BY <1>1, <1>8, <2>3, <3>3, KnowsItsOwn
  <2> QED BY <2>4, <2>5
<1>9. CASE cmd[c].op = "prune"
  <2>1. PruneKnows(c) /\ StaleRecords' = StaleRecords
      BY <1>1, <1>2, <1>3 DEF Knows, StaleRecords
  <2>2. PruneKnows(c)'
      BY <1>1, <2>1 DEF PruneKnows
  <2> QED BY <1>1, <1>9, <2>2, KnowsItsOwn
<1>10. CASE cmd[c].op = "none"
    BY <1>1, <1>10, KnowsItsOwn
<1>11. cmd[c].op \in Ops
    BY <1>2 DEF MigrationTyped, Command
<1> QED BY <1>6, <1>7, <1>8, <1>9, <1>10, <1>11 DEF Ops

\* One more text is written.
LEMMA WiderTexts ==
    ASSUME MigrationTyped, TextsOk, NEW f \in Paths,
           UNCHANGED <<entry, cmd, took>>, Written' = Written + 1,
           latest' = [latest EXCEPT ![f] = Written + 1]
    PROVE  TextsOk'
<1>1. Written \in Nat
    BY WrittenCounts
<1>2. \A v \in {0} \cup Texts : v \in Nat
    BY PathsCounted
<1>3. \A g \in Paths : latest'[g] <= Written + 1 /\ took[g] <= Written + 1
  <2>1. \A g \in Paths : latest[g] \in Nat /\ took[g] \in Nat
      BY <1>2 DEF MigrationTyped
  <2>2. \A g \in Paths : latest'[g] = Written + 1 \/ latest'[g] = latest[g]
      BY DEF MigrationTyped
  <2> QED BY <1>1, <2>1, <2>2 DEF TextsOk
<1>4. \A y \in Contents : y.val \in Nat
  <2>1. \A y \in Contents : y.val \in {0} \cup Texts
      BY ContentKinds
  <2> QED BY <1>2, <2>1
<1>5. \A i \in DOMAIN entry : entry[i].val <= Written + 1
  <2>1. \A i \in DOMAIN entry : entry[i].val <= Written /\ entry[i].val \in Nat
      BY <1>4 DEF MigrationTyped, TextsOk
  <2> QED BY <1>1, <2>1
<1>6. \A d \in Invocations : cmd[d].content.val <= Written + 1
  <2>1. \A d \in Invocations : cmd[d].content.val <= Written /\ cmd[d].content.val \in Nat
      BY <1>4 DEF MigrationTyped, TextsOk, Command
  <2> QED BY <1>1, <2>1
<1> QED BY <1>3, <1>5, <1>6 DEF TextsOk

\* The user edits a file.
LEMMA Editing ==
    ASSUME OneInvocation, NoLiberties, MigrationInv, NEW f \in Paths, Edit(f)
    PROVE  MigrationInv'
<1>1. /\ edits < MaxEdits /\ edits' = edits + 1 /\ registry[f] = NoName
      /\ disk' = [disk EXCEPT ![f] = Text(NewText)]
      /\ latest' = [latest EXCEPT ![f] = NewText]
      /\ UNCHANGED <<kind, stored, cmd, took, starts, stops>>
    BY DEF Edit, NoLiberties, Untouched
<1>2. NewText = Written + 1 /\ NewText \in Texts
    BY <1>1, WrittenCounts DEF NewText, Written, MigrationInv
<1> DEFINE x == Text(NewText)
<1>3. x \in Contents /\ IsText(x) /\ x.val = NewText
    BY <1>2, ContentFacts
<1>4. \A g \in Paths : latest[g] <= Written /\ took[g] <= Written /\ took[g] \in Nat
  <2>1. \A g \in Paths : took[g] \in {0} \cup Texts
      BY DEF MigrationInv, MigrationTyped
  <2>2. \A v \in Texts : v \in Nat
      BY PathsCounted
  <2> QED BY <2>1, <2>2 DEF MigrationInv, TextsOk
<1>5. Written \in Nat /\ Written' = Written + 1 /\ edits \in Nat /\ MaxEdits \in Nat
  <2>1. Written \in Nat /\ edits \in Nat /\ MaxEdits \in Nat /\ Cardinality(Paths) \in Nat
      BY WrittenCounts, PathsCounted DEF MigrationInv
  <2> QED BY <1>1, <2>1 DEF Written
<1>6. \A g : Deleting(g) => Deleting(g)'
    BY <1>1 DEF Deleting
<1>7. /\ disk' \in [Paths -> Contents] /\ latest' \in [Paths -> {0} \cup Texts]
      /\ disk'[f] = x /\ latest'[f] = NewText
      /\ \A g \in Paths : FileOk(g)'
  <2>1. took[f] <= x.val
      BY <1>2, <1>3, <1>4, <1>5
  <2>2. latest' = [latest EXCEPT ![f] = x.val] /\ disk' = [disk EXCEPT ![f] = x]
      BY <1>1, <1>3
  <2> HIDE DEF x
  <2> QED BY <1>1, <1>3, <1>6, <2>1, <2>2, Rewritten
<1>8. MigrationTyped'
    BY <1>1, <1>5, <1>7 DEF MigrationInv, MigrationTyped, stored
<1>9. IdsOk'
    BY <1>1, Zenon DEF MigrationInv, IdsOk, UsedIds, ToSave, stored
<1>10. TextsOk'
  <2>1. UNCHANGED <<entry, cmd, took>>
      BY <1>1 DEF stored
  <2> QED BY <1>1, <1>2, <1>5, <2>1, WiderTexts DEF MigrationInv
<1>11. \A c \in Invocations : Knows(c)'
  <2>1. \A g \in Paths \ {f} : disk'[g] = disk[g] /\ latest'[g] = latest[g]
      BY <1>1 DEF MigrationInv, MigrationTyped
  <2> QED BY <1>7, <2>1, KnowsOnEdit
<1> QED BY <1>7, <1>8, <1>9, <1>10, <1>11 DEF MigrationInv

\* `jit vault set` gives the profile that serves f, and no other file's, a new text.
LEMMA SettingVault ==
    ASSUME OneInvocation, MigrationInv, NEW c \in Invocations, NEW f \in Paths, VaultSet(c, f)
    PROVE  MigrationInv'
<1>1. /\ edits < MaxEdits /\ edits' = edits + 1 /\ cmd[c] = Idle
      /\ latest' = [latest EXCEPT ![f] = NewText]
      /\ UNCHANGED <<kind, disk, manifests, registry, entry, index, cmd, took, starts, stops>>
    BY DEF VaultSet
<1>2. PICK n \in manifests[f] :
         /\ secret[n].val # 0
         /\ \/ registry[f] = n /\ disk[f] = Pipe
            \/ kind[f] = "bak" /\ disk[f] = Refers(n)
         /\ secret' = [secret EXCEPT ![n].val = NewText]
    BY DEF VaultSet
<1>3. NewText = Written + 1 /\ NewText \in Texts
    BY <1>1, WrittenCounts DEF NewText, Written, MigrationInv
<1>4. n \in Names /\ \A g \in Paths : FileOk(g) /\ VaultOk(g)
  <2>1. \A g \in Paths : ~Deleting(g)
      BY <1>1, DeletingIs, IdleIsCommand
  <2> QED BY <1>2, <2>1 DEF MigrationInv, MigrationTyped, FileOk
<1>5. /\ secret' \in [Names -> [val : {0} \cup Texts, owner : Paths \cup {NoPath}]]
      /\ secret'[n] = [val |-> NewText, owner |-> f]
      /\ \A k \in Names \ {n} : secret'[k] = secret[k]
  <2>1. secret \in [Names -> [val : {0} \cup Texts, owner : Paths \cup {NoPath}]]
      BY DEF MigrationInv, MigrationTyped
  <2>2. secret[n].owner = f
      BY <1>2, <1>4 DEF VaultOk
  <2>3. secret' = [secret EXCEPT ![n] = [val |-> NewText, owner |-> f]]
    <3>1. secret[n] \in [val : {0} \cup Texts, owner : Paths \cup {NoPath}]
        BY <1>4, <2>1
    <3>2. [secret[n] EXCEPT !.val = NewText] = [val |-> NewText, owner |-> f]
        BY <2>2, <3>1
    <3> QED BY <1>2, <3>2
  <2> QED BY <1>3, <1>4, <2>1, <2>3
<1>6. /\ latest' \in [Paths -> {0} \cup Texts] /\ latest'[f] = NewText
      /\ \A g \in Paths \ {f} : latest'[g] = latest[g]
    BY <1>1, <1>3 DEF MigrationInv, MigrationTyped
<1>7. Written \in Nat /\ Written' = Written + 1 /\ edits \in Nat /\ MaxEdits \in Nat
  <2>1. Written \in Nat /\ edits \in Nat /\ MaxEdits \in Nat /\ Cardinality(Paths) \in Nat
      BY WrittenCounts, PathsCounted DEF MigrationInv
  <2> QED BY <1>1, <2>1 DEF Written
<1>8. MigrationTyped'
    BY <1>1, <1>5, <1>6, <1>7 DEF MigrationInv, MigrationTyped
<1>9. IdsOk'
    BY <1>1, Zenon DEF MigrationInv, IdsOk, UsedIds, ToSave
<1>10. TextsOk'
    BY <1>1, <1>3, <1>7, WiderTexts DEF MigrationInv
<1>11. \A g \in Paths : SameBackups(g)
    BY <1>1 DEF SameBackups
<1>12. \A g \in Paths \ {f} : FileOk(g)'
  <2>1. \A g \in Paths \ {f} : n \notin manifests[g]
      BY <1>2, <1>4 DEF VaultOk
  <2>2. \A g \in Paths : manifests[g] \subseteq Names
      BY DEF MigrationInv, MigrationTyped
  <2>3. \A g \in Paths \ {f} : SameText(g) /\ SameVault(g)
      BY <1>1, <1>5, <1>6, <2>1, <2>2 DEF SameText, SameVault
  <2>4. cmd[c].op # "remove"
      BY <1>1, IdleIsCommand
  <2> QED BY <1>11, <2>3, <2>4, OthersStay
<1>13. Serving(f, n)'
    BY <1>1, <1>2, <1>5, <1>6 DEF Serving
<1>14. FileOk(f)'
  <2>1. ~IsText(disk[f])' /\ ~IsText(disk[f]) /\ Pipe.kind # "refers" /\ Refers(n).name = n
    <3>1. ~IsText(disk[f])
        BY <1>2, ContentFacts
    <3> QED BY <1>1, <3>1, ContentFacts DEF IsText
  <2>2. TextOk(f)'
    <3>1. took[f] <= Written /\ took[f] \in Nat
      <4>1. took[f] \in {0} \cup Texts /\ took[f] <= Written
          BY DEF MigrationInv, MigrationTyped, TextsOk
      <4>2. \A v \in Texts : v \in Nat
          BY PathsCounted
      <4> QED BY <4>1, <4>2
    <3>2. took'[f] <= latest'[f]
        BY <1>1, <1>3, <1>6, <1>7, <3>1
    <3>3. (\E k \in Names : Serving(f, k))'
        BY <1>4, <1>13 DEF Names
    <3> QED BY <2>1, <3>2, <3>3 DEF TextOk, Safe
  <2>3. DiskOk(f)'
    <3>1. /\ registry[f] # NoName => kind[f] = "live" /\ registry[f] \in Names
          /\ HasBackup(f)
        BY <1>4, <2>1 DEF FileOk, DiskOk, MigrationInv, MigrationTyped
    <3>2. HasBackup(f)'
        BY <1>1, <3>1 DEF HasBackup, BackupsOf
    <3>3. registry[f] # NoName => registry[f] = n
      <4>1. CASE registry[f] = n
          BY <4>1
      <4>2. CASE kind[f] = "bak"
          BY <3>1, <4>2
      <4> QED BY <1>2, <4>1, <4>2
    <3>4. disk[f].kind = "refers" => kind[f] = "bak" /\ disk[f].name = n
        BY <1>2, <2>1
    <3> QED BY <1>1, <1>13, <3>1, <3>2, <3>3, <3>4 DEF DiskOk, NoName
  <2>4. VaultOk(f)'
    <3>1. HasBackup(f)' => Backed(f)'
        BY <1>1, <1>4, <1>11, NewestStays, CopyStays DEF SameNewest, VaultOk, MigrationInv
    <3>2. \A k \in manifests'[f] : secret'[k].owner = f /\ secret'[k].val # 0
      <4>1. NewText # 0
          BY <1>3, <1>7
      <4>2. manifests[f] \subseteq Names
          BY DEF MigrationInv, MigrationTyped
      <4> QED BY <1>1, <1>4, <1>5, <4>1, <4>2 DEF VaultOk
    <3> QED BY <3>1, <3>2 DEF VaultOk
  <2> QED BY <2>2, <2>3, <2>4, Zenon DEF FileOk
<1>15. \A g \in Paths : FileOk(g)'
    BY <1>12, <1>14
<1>16. \A d \in Invocations : Knows(d)'
  <2>1. \A d \in Invocations : cmd'[d].op = "none"
      BY <1>1, IdleIsCommand DEF OneInvocation
  <2> QED BY <2>1, KnowsItsOwn
<1> QED BY <1>8, <1>9, <1>10, <1>15, <1>16 DEF MigrationInv

-------------------------------------------------------------------------------
(* Deletions. *)

\* A step that leaves a file's path, and its service and backups as far as they are needed.
LEMMA FileSpared ==
    ASSUME NEW f \in Paths, FileOk(f), VaultOk(f),
           SameText(f), SameVault(f), SameNewest(f), latest[f] # 0 => Safe(f)'
    PROVE  FileOk(f)'
<1>1. latest'[f] = latest[f] /\ took'[f] = took[f]
    BY DEF SameText
<1>2. /\ Copied(f)' <=> Copied(f)
      /\ Backed(f)' <=> Backed(f)
      /\ HasBackup(f)' <=> HasBackup(f)
      /\ \A n : Serving(f, n)' <=> Serving(f, n)
    BY <1>1, CopyStays, ServiceStays, Zenon DEF SameNewest
<1>3. TextOk(f)'
    BY <1>1 DEF FileOk, TextOk, SameText, IsText, Text, NoName
<1>4. DiskOk(f)'
    BY <1>2 DEF FileOk, DiskOk, SameText, SameVault, IsText, NoName
<1>5. VaultOk(f)'
    BY <1>2 DEF VaultOk, SameVault
<1> QED BY <1>3, <1>4, <1>5, Zenon DEF FileOk

\* The file of a removal is back, and is all that is left of the text.
LEMMA RemovedFile ==
    ASSUME NEW f \in Paths, FileOk(f), SameText(f), registry'[f] = registry[f],
           IsText(disk[f]), registry[f] = NoName, Deleting(f)' \/ VaultOk(f)'
    PROVE  FileOk(f)'
<1>1. disk[f] = Text(latest[f])
    BY DEF FileOk, TextOk
<1>2. TextOk(f)'
    BY <1>1 DEF FileOk, TextOk, Safe, SameText, IsText, Text, NoName
<1>3. DiskOk(f)'
  <2>1. disk[f].kind # "refers"
      BY DEF IsText
  <2> QED BY <2>1 DEF DiskOk, SameText, IsText, NoName
<1> QED BY <1>2, <1>3, Zenon DEF FileOk

\* A removal at its deletions, and one step of it.
LEMMA Removing ==
    ASSUME OneInvocation, MigrationInv, NEW c \in Invocations, NEW f,
           cmd[c].op = "remove", f = cmd[c].file, cmd[c].pc \in {"secrets"} \cup Deletions
    PROVE  /\ f \in Paths /\ cmd[c] \in Command /\ IsText(disk[f]) /\ registry[f] = NoName
           /\ FileOk(f)
           /\ \A g \in Paths \ {f} : FileOk(g) /\ VaultOk(g) /\ cmd[c].delete \cap manifests[g] = {}
           /\ \A r \in cmd[c].drop : r.file = f
           /\ cmd[c].pc \in {"secrets", "entries"} => cmd[c].drop \subseteq index
           /\ cmd[c].pc = "store" => ~HasBackup(f)
<1>1. /\ f \in Paths /\ cmd[c] \in Command /\ FileOk(f) /\ BackKnows(c) /\ RemoveKnows(c)
      /\ registry[f] # NoName => cmd[c].pc \in {"resolve", "clear", "write", "unregister"}
    BY GoingBack
<1>2. registry[f] = NoName
    BY <1>1 DEF Deletions
<1>3. IsText(disk[f]) /\ (cmd[c].pc = "store" => ~HasBackup(f))
    BY <1>1 DEF BackKnows
<1>4. \A g \in Paths \ {f} : FileOk(g) /\ VaultOk(g)
  <2>1. \A g \in Paths \ {f} : ~Deleting(g)
      BY DeletingIs
  <2> QED BY <2>1 DEF MigrationInv, FileOk
<1>5. /\ \A g \in Paths \ {f} : cmd[c].delete \cap manifests[g] = {}
      /\ \A r \in cmd[c].drop : r.file = f
      /\ cmd[c].pc \in {"secrets", "entries"} => cmd[c].drop \subseteq index
    BY <1>1 DEF RemoveKnows, Deletions
<1> QED BY <1>1, <1>2, <1>3, <1>4, <1>5

\* What goes on deleting still knows.
LEMMA RemovingStill ==
    ASSUME OneInvocation, MigrationInv, NEW c \in Invocations, NEW f, NEW pc \in Deletions,
           cmd[c].op = "remove", f = cmd[c].file, cmd[c].pc \in {"secrets"} \cup Deletions,
           GoesTo(c, pc), UNCHANGED <<disk, registry, manifests>>,
           pc = "entries" => cmd[c].drop \subseteq index',
           pc = "store" => ~HasBackup(f)'
    PROVE  /\ cmd' \in [Invocations -> Command] /\ cmd'[c].saved = cmd[c].saved
           /\ cmd'[c].content.val <= Written /\ ~ToSave(c)' /\ Deleting(f)' /\ Knows(c)'
<1>1. cmd' \in [Invocations -> Command] /\ cmd'[c].pc = pc /\ SameCommand(c)
  <2>1. pc \in MigrationPlaces
      BY DEF MigrationPlaces
  <2> QED BY <2>1, Advances DEF MigrationInv
<1>2. /\ cmd'[c].op = "remove" /\ cmd'[c].file = f /\ cmd'[c].saved = cmd[c].saved
      /\ cmd'[c].drop = cmd[c].drop /\ cmd'[c].delete = cmd[c].delete
      /\ cmd'[c].content.val <= Written
    BY <1>1 DEF SameCommand, MigrationInv, TextsOk
<1>3. Deleting(f)'
    BY <1>1, <1>2 DEF Deleting
<1>4. pc \notin {"resolve", "get", "backup", "record", "clear", "write", "unregister", "secrets"}
    BY DEF Deletions
<1>5. ~ToSave(c)'
    BY <1>1, <1>2, <1>4 DEF ToSave
<1>6. /\ f \in Paths /\ IsText(disk[f]) /\ registry[f] = NoName
      /\ \A g \in Paths \ {f} : cmd[c].delete \cap manifests[g] = {}
      /\ \A r \in cmd[c].drop : r.file = f
    BY Removing
<1>7. IsText(disk[f])' /\ registry'[f] = NoName' /\ (pc = "store" => ~HasBackup(f)')
    BY <1>6 DEF IsText, NoName
<1>8. BackKnows(c)'
  <2>1. /\ cmd'[c].op # "unmount" /\ cmd'[c].file \in Paths /\ cmd'[c].pc \in Deletions
        /\ registry'[cmd'[c].file] = NoName' /\ IsText(disk[f])'
        /\ cmd'[c].pc = "store" => ~HasBackup(f)'
        /\ cmd'[c].pc \notin {"resolve", "get", "backup", "record", "clear", "write"}
      BY <1>1, <1>2, <1>4, <1>6, <1>7
  <2> QED BY <1>2, <2>1 DEF BackKnows, Deletions, IsText
<1>9. RemoveKnows(c)'
    BY <1>1, <1>2, <1>6 DEF RemoveKnows, Deletions
<1> QED BY <1>1, <1>2, <1>3, <1>5, <1>8, <1>9, KnowsItsOwn

\* A removal deletes the secrets only its file had.
LEMMA DeletingSecrets ==
    ASSUME OneInvocation, MigrationInv, NEW c \in Invocations, DeleteSecrets(c)
    PROVE  Kept(c)
<1>0. PICK f : f = cmd[c].file
    OBVIOUS
<1>1. /\ cmd[c].op = "remove" /\ cmd[c].pc = "secrets" /\ GoesTo(c, "entries")
      /\ secret' = [n \in Names |-> IF n \in cmd[c].delete THEN NoSecret ELSE secret[n]]
      /\ UNCHANGED <<kind, disk, manifests, registry, entry, index, ghosts>>
    BY DEF DeleteSecrets, At
<1>2. /\ f \in Paths /\ IsText(disk[f]) /\ registry[f] = NoName /\ FileOk(f)
      /\ \A g \in Paths \ {f} : cmd[c].delete \cap manifests[g] = {}
      /\ cmd[c].drop \subseteq index
    BY <1>0, <1>1, Removing
<1>3. /\ cmd' \in [Invocations -> Command] /\ cmd'[c].saved = cmd[c].saved
      /\ cmd'[c].content.val <= Written /\ ~ToSave(c)' /\ Deleting(f)' /\ Knows(c)'
  <2>1. "entries" \in Deletions
      BY DEF Deletions
  <2> QED BY <1>0, <1>1, <1>2, <2>1, RemovingStill
<1>4. secret' \in [Names -> [val : {0} \cup Texts, owner : Paths \cup {NoPath}]]
  <2>1. NoSecret \in [val : {0} \cup Texts, owner : Paths \cup {NoPath}]
      BY DEF NoSecret
  <2> QED BY <1>1, <2>1 DEF MigrationInv, MigrationTyped
<1>5. MigrationTyped'
    BY <1>1, <1>3, <1>4 DEF MigrationInv, MigrationTyped, ghosts
<1>6. IdsOk' /\ TextsOk'
    BY <1>1, <1>3, NumbersStay DEF ghosts
<1>7. \A g \in Paths \ {f} : FileOk(g)'
  <2>1. \A g \in Paths \ {f} : SameText(g) /\ SameVault(g) /\ SameBackups(g)
    <3>1. \A g \in Paths : manifests[g] \subseteq Names
        BY DEF MigrationInv, MigrationTyped
    <3> QED BY <1>1, <1>2, <3>1 DEF SameText, SameVault, SameBackups, ghosts
  <2>2. cmd[c].pc \notin Deletions
      BY <1>1 DEF Deletions
  <2> QED BY <2>1, <2>2, OthersStay
<1>8. FileOk(f)'
    BY <1>1, <1>2, <1>3, RemovedFile DEF SameText, ghosts
<1>9. \A g \in Paths : FileOk(g)'
    BY <1>7, <1>8
<1> QED BY <1>3, <1>5, <1>6, <1>9 DEF Kept

\* Ids tell the records apart: what goes of a removal's records is its own.
LEMMA OnlyItsEntries ==
    ASSUME MigrationInv, NEW f, NEW dropping \in SUBSET index, \A r \in dropping : r.file = f,
           entry' = WithoutEntries(entry, dropping), index' \in {index, index \ dropping},
           NEW g, g # f
    PROVE  SameBackups(g)
<1>1. /\ DOMAIN entry' = DOMAIN entry \ {r.id : r \in dropping}
      /\ \A i \in DOMAIN entry' : entry'[i] = entry[i]
    BY DEF WithoutEntries
<1>2. \A r \in index : r.file = g => r.id \notin {s.id : s \in dropping}
    BY DEF MigrationInv, IdsOk
<1>3. \A r : r \in index' /\ r.file = g <=> r \in index /\ r.file = g
    BY <1>2
<1> QED BY <1>1, <1>2, <1>3 DEF SameBackups

\* Entries go, and those that stay are the same.
LEMMA FewerEntries ==
    ASSUME MigrationTyped, NEW dropping, entry' = WithoutEntries(entry, dropping)
    PROVE  /\ DOMAIN entry' \subseteq DOMAIN entry
           /\ \A i \in DOMAIN entry' : entry'[i] = entry[i]
           /\ (\A i \in DOMAIN entry : IsRegular(entry[i]) /\ entry[i] \in Contents)'
           /\ DOMAIN entry' \subseteq 1 .. MaxStarts
<1>1. DOMAIN entry' \subseteq DOMAIN entry /\ \A i \in DOMAIN entry' : entry'[i] = entry[i]
    BY DEF WithoutEntries
<1>2. \A i \in DOMAIN entry' : IsRegular(entry'[i]) /\ entry'[i] \in Contents
    BY <1>1 DEF MigrationTyped
<1>3. (\A i \in DOMAIN entry : IsRegular(entry[i]) /\ entry[i] \in Contents)'
    BY <1>2 DEF IsRegular, Contents, Text, Refers, Pipe, Absent, Texts, Names, NoName
<1> QED BY <1>1, <1>3 DEF MigrationTyped

\* A removal deletes under its own file only, and its own file is back.
LEMMA Removes ==
    ASSUME OneInvocation, MigrationInv, NEW c \in Invocations, NEW f,
           cmd[c].op = "remove", f = cmd[c].file, cmd[c].pc \in Deletions,
           NEW dropping \in SUBSET index, \A r \in dropping : r.file = f,
           entry' = entry \/ entry' = WithoutEntries(entry, dropping),
           index' \in {index, index \ dropping},
           entry' = entry => \A g \in Paths \ {f} : SameBackups(g),
           UNCHANGED <<kind, disk, secret, registry, ghosts>>,
           manifests' \in [Paths -> SUBSET Names],
           \A g \in Paths \ {f} : manifests'[g] = manifests[g],
           cmd' \in [Invocations -> Command], cmd'[c].saved \in {0, cmd[c].saved},
           cmd'[c].content.val <= Written, ~ToSave(c)', Deleting(f)' \/ VaultOk(f)', Knows(c)'
    PROVE  Kept(c)
<1>1. /\ f \in Paths /\ IsText(disk[f]) /\ registry[f] = NoName /\ FileOk(f)
      /\ \A g \in Paths \ {f} : FileOk(g) /\ VaultOk(g)
    BY Removing
<1>2. /\ DOMAIN entry' \subseteq DOMAIN entry
      /\ \A i \in DOMAIN entry' : entry'[i] = entry[i]
      /\ (\A i \in DOMAIN entry : IsRegular(entry[i]) /\ entry[i] \in Contents)'
      /\ DOMAIN entry' \subseteq 1 .. MaxStarts
  <2>1. CASE entry' = WithoutEntries(entry, dropping)
      BY <2>1, FewerEntries DEF MigrationInv
  <2>2. CASE entry' = entry
    <3>1. \A i \in DOMAIN entry : IsRegular(entry[i]) /\ entry[i] \in Contents
        BY DEF MigrationInv, MigrationTyped
    <3>2. (\A i \in DOMAIN entry : IsRegular(entry[i]) /\ entry[i] \in Contents)'
        BY <2>2, <3>1 DEF IsRegular, Contents, Text, Refers, Pipe, Absent, Texts, Names, NoName
    <3> QED BY <2>2, <3>2 DEF MigrationInv, MigrationTyped
  <2> QED BY <2>1, <2>2
<1>3. MigrationTyped'
  <2>1. index' \subseteq Records
      BY DEF MigrationInv, MigrationTyped
  <2> QED BY <1>2, <2>1 DEF MigrationInv, MigrationTyped, ghosts
<1>4. IdsOk'
    BY <1>2, IdsStay DEF MigrationInv, ghosts
<1>5. TextsOk'
  <2>1. \A i \in DOMAIN entry' : entry'[i].val <= Written
      BY <1>2 DEF MigrationInv, TextsOk
  <2>2. \A d \in Invocations : cmd'[d].content.val <= Written
      BY DEF OneInvocation
  <2> QED BY <2>1, <2>2 DEF MigrationInv, TextsOk, Written, ghosts
<1>6. \A g \in Paths \ {f} : FileOk(g)'
  <2> SUFFICES ASSUME NEW g \in Paths \ {f}
               PROVE  FileOk(g)'
      OBVIOUS
  <2>1. SameBackups(g)
      BY OnlyItsEntries
  <2>2. SameText(g) /\ SameVault(g)
      BY <1>1 DEF SameText, SameVault, ghosts
  <2>3. ~Deleting(g)
      BY DeletingIs
  <2> QED BY <1>1, <2>1, <2>2, <2>3, FileStays DEF MigrationInv
<1>7. FileOk(f)'
    BY <1>1, RemovedFile DEF SameText, ghosts
<1>8. \A g \in Paths : FileOk(g)'
    BY <1>6, <1>7
<1> QED BY <1>3, <1>4, <1>5, <1>8 DEF Kept

\* A removal deletes the entries of its records, ...
LEMMA RemovesEntries ==
    ASSUME OneInvocation, MigrationInv, NEW c \in Invocations, DeleteEntries(c),
           cmd[c].op = "remove"
    PROVE  Kept(c)
<1>0. PICK f, dropping : f = cmd[c].file /\ dropping = cmd[c].drop
    OBVIOUS
<1>1. /\ cmd[c].pc = "entries" /\ cmd[c].pc \in Deletions /\ GoesTo(c, "records")
      /\ entry' = WithoutEntries(entry, dropping) /\ latest' = [g \in Paths |-> latest[g]]
      /\ UNCHANGED <<kind, disk, secret, manifests, registry, index, took, edits, starts, stops>>
    BY <1>0 DEF DeleteEntries, At, Deletions
<1>2. dropping \in SUBSET index /\ \A r \in dropping : r.file = f
    BY <1>0, <1>1, Removing
<1>3. latest' = latest
    BY <1>1 DEF MigrationInv, MigrationTyped
<1>4. /\ cmd' \in [Invocations -> Command] /\ cmd'[c].saved = cmd[c].saved
      /\ cmd'[c].content.val <= Written /\ ~ToSave(c)' /\ Deleting(f)' /\ Knows(c)'
  <2>1. "records" \in Deletions
      BY DEF Deletions
  <2> QED BY <1>0, <1>1, <2>1, RemovingStill
<1>5. /\ entry' = entry => \A g \in Paths \ {f} : SameBackups(g)
      /\ manifests' \in [Paths -> SUBSET Names]
    BY <1>1 DEF SameBackups, MigrationInv, MigrationTyped
<1> QED BY <1>0, <1>1, <1>2, <1>3, <1>4, <1>5, Removes DEF ghosts

\* ... drops the records, ...
LEMMA RemovesRecords ==
    ASSUME OneInvocation, MigrationInv, NEW c \in Invocations, DropRecords(c),
           cmd[c].op = "remove"
    PROVE  Kept(c)
<1>0. PICK f, dropping : f = cmd[c].file /\ dropping = cmd[c].drop \cap index
    OBVIOUS
<1>1. /\ cmd[c].pc = "records" /\ cmd[c].pc \in Deletions /\ GoesTo(c, "stragglers")
      /\ index' = index \ dropping
      /\ UNCHANGED <<kind, disk, secret, manifests, registry, entry, ghosts>>
    BY <1>0 DEF DropRecords, At, Deletions
<1>2. dropping \in SUBSET index /\ \A r \in dropping : r.file = f
    BY <1>0, <1>1, Removing
<1>4. /\ cmd' \in [Invocations -> Command] /\ cmd'[c].saved = cmd[c].saved
      /\ cmd'[c].content.val <= Written /\ ~ToSave(c)' /\ Deleting(f)' /\ Knows(c)'
  <2>1. "stragglers" \in Deletions
      BY DEF Deletions
  <2> QED BY <1>0, <1>1, <2>1, RemovingStill
<1>5. /\ \A g \in Paths \ {f} : SameBackups(g)
      /\ manifests' \in [Paths -> SUBSET Names]
    BY <1>1, <1>2 DEF SameBackups, MigrationInv, MigrationTyped
<1> QED BY <1>0, <1>1, <1>2, <1>4, <1>5, Removes

\* ... and those that came since, ...
LEMMA RemovesStragglers ==
    ASSUME OneInvocation, MigrationInv, NEW c \in Invocations, DropStragglers(c)
    PROVE  Kept(c)
<1>0. PICK f, dropping : f = cmd[c].file /\ dropping = {r \in index : r.file = f}
    OBVIOUS
<1>1. /\ cmd[c].op = "remove" /\ cmd[c].pc = "stragglers" /\ cmd[c].pc \in Deletions
      /\ GoesTo(c, "store")
      /\ index' = index \ dropping /\ entry' = WithoutEntries(entry, dropping)
      /\ UNCHANGED <<kind, disk, secret, manifests, registry, ghosts>>
    BY <1>0 DEF DropStragglers, At, Deletions
<1>2. dropping \in SUBSET index /\ \A r \in dropping : r.file = f
    BY <1>0
<1>3. ~HasBackup(f)'
    BY <1>0, <1>1 DEF HasBackup, BackupsOf
<1>4. /\ cmd' \in [Invocations -> Command] /\ cmd'[c].saved = cmd[c].saved
      /\ cmd'[c].content.val <= Written /\ ~ToSave(c)' /\ Deleting(f)' /\ Knows(c)'
  <2>1. "store" \in Deletions
      BY DEF Deletions
  <2> QED BY <1>0, <1>1, <1>3, <2>1, RemovingStill
<1>5. /\ \A g \in Paths \ {f} : SameBackups(g)
      /\ manifests' \in [Paths -> SUBSET Names]
    BY <1>1, <1>2, OnlyItsEntries DEF MigrationInv, MigrationTyped
<1> QED BY <1>0, <1>1, <1>2, <1>4, <1>5, Removes

\* ... and the store of the file, which then has none left.
LEMMA RemovesStore ==
    ASSUME OneInvocation, MigrationInv, NEW c \in Invocations, RemoveStore(c)
    PROVE  Kept(c)
<1>0. PICK f : f = cmd[c].file
    OBVIOUS
<1>1. /\ cmd[c].op = "remove" /\ cmd[c].pc = "store" /\ cmd[c].pc \in Deletions /\ Ends(c)
      /\ manifests' = [manifests EXCEPT ![f] = {}]
      /\ UNCHANGED <<kind, disk, secret, registry, entry, index, ghosts>>
    BY <1>0 DEF RemoveStore, At, Deletions
<1>2. f \in Paths /\ ~HasBackup(f)
    BY <1>0, <1>1, Removing
<1>3. /\ manifests' \in [Paths -> SUBSET Names] /\ manifests'[f] = {}
      /\ \A g \in Paths \ {f} : manifests'[g] = manifests[g]
    BY <1>1, <1>2 DEF MigrationInv, MigrationTyped
<1>4. cmd' \in [Invocations -> Command] /\ cmd'[c] = Idle
    BY <1>1, Becomes, IdleIsCommand DEF Ends, MigrationInv
<1>5. cmd'[c].op = "none" /\ cmd'[c].saved = 0 /\ cmd'[c].content.val <= Written
    BY <1>4, IdleIsCommand, ContentFacts, WrittenCounts DEF MigrationInv
<1>6. ~ToSave(c)' /\ Knows(c)'
    BY <1>5, KnowsItsOwn, NotToSave
<1>7. VaultOk(f)'
    BY <1>1, <1>2, <1>3 DEF VaultOk, HasBackup, BackupsOf
<1>8. \A g \in Paths \ {f} : SameBackups(g)
    BY <1>1 DEF SameBackups
<1>9. {} \in SUBSET index /\ \A r \in {} : r.file = f
    OBVIOUS
<1> QED BY <1>0, <1>1, <1>3, <1>4, <1>5, <1>6, <1>7, <1>8, <1>9, Removes

\* A prune lists every snapshot and no newest backup.
LEMMA StaleFacts ==
    ASSUME MigrationInv, NEW f
    PROVE  /\ \A r \in index : r.snapshot => r \in StaleRecords
           /\ \A r \in index : r.file = f /\ r \notin StaleRecords =>
                 HasBackup(f) /\ r.id = LatestBackup(f)
           /\ HasBackup(f) =>
                 \E b \in index : /\ b.file = f /\ ~b.snapshot /\ b.id = LatestBackup(f)
                                  /\ \A s \in StaleRecords : s.id # b.id
           /\ StaleRecords \subseteq index
<1>1. \A r \in index : r.file = f /\ r \notin StaleRecords =>
         HasBackup(f) /\ r.id = LatestBackup(f)
    BY DEF StaleRecords
<1>2. ASSUME NEW g, HasBackup(g)
      PROVE  \E b \in index : /\ b.file = g /\ ~b.snapshot /\ b.id = LatestBackup(g)
                              /\ \A s \in StaleRecords : s.id # b.id
  <2>1. PICK b \in BackupsOf(g) : b.id = LatestBackup(g)
      BY <1>2, LatestIs DEF MigrationInv
  <2>2. b \in index /\ b.file = g /\ ~b.snapshot
      BY DEF BackupsOf
  <2>3. b \notin StaleRecords /\ StaleRecords \subseteq index
      BY <1>2, <2>1, <2>2 DEF StaleRecords
  <2>4. \A s \in StaleRecords : s.id # b.id
      BY <2>2, <2>3 DEF MigrationInv, IdsOk
  <2> QED BY <2>1, <2>2, <2>4
<1>3. \A r \in index : r.snapshot => r \in StaleRecords
  <2> SUFFICES ASSUME NEW r \in index, r.snapshot, r \notin StaleRecords
               PROVE  FALSE
      OBVIOUS
  <2>1. HasBackup(r.file) /\ r.id = LatestBackup(r.file)
      BY DEF StaleRecords
  <2>2. PICK b \in index : ~b.snapshot /\ b.id = r.id
      BY <1>2, <2>1
  <2>3. b = r
      BY <2>2 DEF MigrationInv, IdsOk
  <2> QED BY <2>2, <2>3
<1> QED BY <1>1, <1>2, <1>3 DEF StaleRecords

\* The bytes of the snapshots and the older backups go; the text that only a
\* snapshot held is given up.
LEMMA PrunesEntries ==
    ASSUME OneInvocation, MigrationInv, NEW c \in Invocations, DeleteEntries(c),
           cmd[c].op = "prune"
    PROVE  Kept(c)
<1>0. PICK dropping : dropping = cmd[c].drop
    OBVIOUS
<1>1. /\ cmd[c].pc = "entries" /\ GoesTo(c, "records")
      /\ entry' = WithoutEntries(entry, dropping)
      /\ latest' = [f \in Paths |->
                    IF /\ Recoverable(f, latest[f], {r \in dropping : r.snapshot}, entry)
                       /\ ~Recoverable(f, latest[f], index, entry')
                    THEN 0 ELSE latest[f]]
      /\ UNCHANGED <<kind, disk, secret, manifests, registry, index, took, edits, starts, stops>>
    BY <1>0 DEF DeleteEntries, At
<1>2. PruneKnows(c) /\ dropping = StaleRecords /\ dropping \subseteq index /\ cmd[c].file = NoPath
    BY <1>0, StaleFacts DEF MigrationInv, Knows, PruneKnows
<1>3. /\ DOMAIN entry' = DOMAIN entry \ {r.id : r \in dropping}
      /\ \A i \in DOMAIN entry' : entry'[i] = entry[i]
    BY <1>1 DEF WithoutEntries
<1>4. cmd' \in [Invocations -> Command] /\ cmd'[c].pc = "records" /\ SameCommand(c)
  <2>1. "records" \in MigrationPlaces
      BY DEF MigrationPlaces, Deletions
  <2> QED BY <1>1, <2>1, Advances DEF MigrationInv
<1>5. /\ cmd'[c].op = "prune" /\ cmd'[c].saved = cmd[c].saved /\ cmd'[c].drop = dropping
      /\ cmd'[c].file = NoPath /\ cmd'[c].content.val <= Written
    BY <1>0, <1>2, <1>4 DEF SameCommand, MigrationInv, TextsOk
<1>6. \A f \in Paths : latest'[f] \in {0, latest[f]}
    BY <1>1
<1>7. MigrationTyped'
  <2>1. latest' \in [Paths -> {0} \cup Texts]
    <3>1. \A f \in Paths : latest'[f] \in {0} \cup Texts
        BY <1>6 DEF MigrationInv, MigrationTyped
    <3> QED BY <1>1, <3>1
  <2>2. /\ (\A i \in DOMAIN entry : IsRegular(entry[i]) /\ entry[i] \in Contents)'
        /\ DOMAIN entry' \subseteq 1 .. MaxStarts
      BY <1>1, FewerEntries DEF MigrationInv
  <2> QED BY <1>1, <1>4, <2>1, <2>2 DEF MigrationInv, MigrationTyped
<1>8. IdsOk'
  <2>1. ~ToSave(c)'
      BY <1>5, NotToSave
  <2> QED BY <1>1, <1>3, <1>5, <2>1, IdsStay DEF MigrationInv
<1>9. TextsOk'
  <2>1. \A f \in Paths : latest'[f] <= Written
    <3>1. Written \in Nat
        BY WrittenCounts DEF MigrationInv
    <3> QED BY <1>6, <3>1 DEF MigrationInv, TextsOk
  <2>2. \A i \in DOMAIN entry' : entry'[i].val <= Written
      BY <1>3 DEF MigrationInv, TextsOk
  <2>3. \A d \in Invocations : cmd'[d].content.val <= Written
      BY <1>5 DEF OneInvocation
  <2> QED BY <1>1, <2>1, <2>2, <2>3 DEF MigrationInv, TextsOk, Written
<1>10. \A f \in Paths : FileOk(f)'
  <2> SUFFICES ASSUME NEW f \in Paths
               PROVE  FileOk(f)'
      OBVIOUS
  <2>1. FileOk(f) /\ VaultOk(f)
    <3>1. ~Deleting(f)
        BY DeletingIs
    <3> QED BY <3>1 DEF MigrationInv, FileOk
  <2>2. SameNewest(f)
    <3>1. (HasBackup(f)' <=> HasBackup(f)) /\ LatestBackup(f)' = LatestBackup(f)
        BY <1>1 DEF HasBackup, LatestBackup, BackupsOf
    <3>2. HasBackup(f) => LatestBackup(f) \notin {r.id : r \in dropping}
        BY <1>2, StaleFacts
    <3>3. HasBackup(f) =>
             /\ LatestBackup(f) \in DOMAIN entry' <=> LatestBackup(f) \in DOMAIN entry
             /\ LatestBackup(f) \in DOMAIN entry => entry'[LatestBackup(f)] = entry[LatestBackup(f)]
        BY <1>3, <3>2
    <3> QED BY <3>1, <3>3, Zenon DEF SameNewest
  <2>3. Copied(f) => Recoverable(f, latest[f], index, entry')
    <3>1. ASSUME Copied(f)
          PROVE  Recoverable(f, latest[f], index, entry')
      <4>1. PICK b \in index : b.file = f /\ b.id = LatestBackup(f)
          BY <3>1, StaleFacts DEF Copied
      <4>2. b.id \in DOMAIN entry' /\ entry'[b.id] = Text(latest[f])
          BY <2>2, <3>1, <4>1 DEF Copied, SameNewest
      <4> QED BY <4>1, <4>2 DEF Recoverable
    <3> QED BY <3>1
  <2>4. (\E n \in Names : Serving(f, n)) => Recoverable(f, latest[f], index, entry')
      BY DEF Recoverable, Serving
  <2>5. disk[f] = Text(latest[f]) => Recoverable(f, latest[f], index, entry')
      BY DEF Recoverable
  <2>6. Recoverable(f, latest[f], index, entry') => latest'[f] = latest[f]
      BY <1>1
  <2>7. latest'[f] = latest[f] =>
           /\ Copied(f)' <=> Copied(f)
           /\ \A n : Serving(f, n)' <=> Serving(f, n)
           /\ (disk[f] = Text(latest[f]))' <=> disk[f] = Text(latest[f])
      BY <1>1, <2>2, CopyStays DEF Serving, Text, NoName
  <2>8. latest'[f] # 0 => Safe(f)'
    <3> SUFFICES ASSUME latest'[f] # 0
                 PROVE  Safe(f)'
        OBVIOUS
    <3>1. latest'[f] = latest[f] /\ latest[f] # 0
        BY <1>6
    <3>2. Safe(f)
        BY <2>1, <3>1 DEF FileOk, TextOk
    <3>3. disk[f] = Text(latest[f]) \/ (\E n \in Names : Serving(f, n)) \/ Copied(f)
      <4>1. CASE Snapped(f, latest[f])
        <5>1. PICK r \in index : r.file = f /\ r.snapshot /\ r.id \in DOMAIN entry
                                 /\ entry[r.id] = Text(latest[f])
            BY <4>1 DEF Snapped
        <5>2. r \in {s \in dropping : s.snapshot}
            BY <1>2, <5>1, StaleFacts
        <5>3. Recoverable(f, latest[f], {s \in dropping : s.snapshot}, entry)
            BY <5>1, <5>2 DEF Recoverable
        <5>4. Recoverable(f, latest[f], index, entry')
            BY <1>1, <3>1, <5>3
        <5>5. CASE \E s \in index :
                     s.file = f /\ s.id \in DOMAIN entry' /\ entry'[s.id] = Text(latest[f])
          <6>1. PICK s \in index : s.file = f /\ s.id \in DOMAIN entry'
                                   /\ entry'[s.id] = Text(latest[f])
              BY <5>5
          <6>2. s \notin dropping
              BY <1>3, <6>1
          <6>3. HasBackup(f) /\ s.id = LatestBackup(f)
              BY <1>2, <6>1, <6>2, StaleFacts
          <6> QED BY <1>3, <6>1, <6>3 DEF Copied
        <5>6. CASE \E n \in manifests[f] : secret[n] = [val |-> latest[f], owner |-> f]
          <6>1. manifests[f] \subseteq Names
              BY DEF MigrationInv, MigrationTyped
          <6> QED BY <5>6, <6>1 DEF Serving
        <5> QED BY <5>4, <5>5, <5>6 DEF Recoverable
      <4> QED BY <3>2, <4>1 DEF Safe
    <3>4. (\E n \in Names : Serving(f, n)) => (\E n \in Names : Serving(f, n))'
        BY <2>7, <3>1 DEF Names
    <3> QED BY <2>7, <3>1, <3>3, <3>4, Zenon DEF Safe
  <2>9. CASE latest'[f] = latest[f]
    <3>1. SameText(f) /\ SameVault(f)
        BY <1>1, <2>9 DEF SameText, SameVault
    <3> QED BY <2>1, <2>2, <2>8, <2>9, <3>1, FileSpared
  <2>10. CASE latest'[f] # latest[f]
    <3>1. latest'[f] = 0 /\ ~Copied(f) /\ ~(\E n \in Names : Serving(f, n))
          /\ disk[f] # Text(latest[f])
        BY <1>6, <2>3, <2>4, <2>5, <2>6, <2>10
    <3>2. ~IsText(disk[f])
        BY <2>1, <3>1 DEF FileOk, TextOk
    <3>3. registry[f] = NoName /\ disk[f].kind # "refers" /\ HasBackup(f)
      <4>1. registry[f] \in Names \cup {NoName} /\ disk[f] \in Contents
          BY DEF MigrationInv, MigrationTyped
      <4> QED BY <2>1, <3>1, <3>2, <4>1, ContentKinds DEF FileOk, DiskOk
    <3>4. TextOk(f)'
        BY <1>1, <3>1, <3>2 DEF TextOk, IsText
    <3>5. DiskOk(f)'
        BY <1>1, <2>2, <3>3 DEF DiskOk, SameNewest, NoName
    <3>6. VaultOk(f)'
        BY <1>1, <2>1, <2>2, CopyStays DEF VaultOk, SameNewest
    <3> QED BY <3>4, <3>5, <3>6, Zenon DEF FileOk
  <2> QED BY <2>9, <2>10
<1>11. Knows(c)'
  <2>1. StaleRecords' = StaleRecords
      BY <1>1 DEF StaleRecords, HasBackup, LatestBackup, BackupsOf
  <2>2. PruneKnows(c)'
      BY <1>2, <1>3, <1>4, <1>5, <2>1 DEF PruneKnows
  <2> QED BY <1>5, <2>2, KnowsItsOwn
<1> QED BY <1>7, <1>8, <1>9, <1>10, <1>11 DEF Kept

\* The records follow; no text was under them any more.
LEMMA PrunesRecords ==
    ASSUME OneInvocation, MigrationInv, NEW c \in Invocations, DropRecords(c),
           cmd[c].op = "prune"
    PROVE  Kept(c)
<1>0. PICK dropping : dropping = cmd[c].drop
    OBVIOUS
<1>1. /\ cmd[c].pc = "records" /\ Ends(c) /\ index' = index \ dropping
      /\ UNCHANGED <<kind, disk, secret, manifests, registry, entry, ghosts>>
    BY <1>0 DEF DropRecords, At
<1>2. dropping = StaleRecords /\ \A r \in dropping : r.id \notin DOMAIN entry
    BY <1>0, <1>1 DEF MigrationInv, Knows, PruneKnows
<1>3. cmd' \in [Invocations -> Command] /\ cmd'[c] = Idle
    BY <1>1, Becomes, IdleIsCommand DEF Ends, MigrationInv
<1>4. cmd'[c].op = "none" /\ cmd'[c].saved = 0 /\ cmd'[c].content.val <= Written
    BY <1>3, IdleIsCommand, ContentFacts, WrittenCounts DEF MigrationInv
<1>5. ~ToSave(c)' /\ Knows(c)'
    BY <1>4, KnowsItsOwn, NotToSave
<1>6. MigrationTyped'
    BY <1>1, <1>3 DEF MigrationInv, MigrationTyped, ghosts
<1>7. IdsOk'
    BY <1>1, <1>4, <1>5, IdsStay DEF MigrationInv, ghosts
<1>8. TextsOk'
    BY <1>1, <1>4 DEF MigrationInv, TextsOk, Written, OneInvocation, ghosts
<1>9. \A f \in Paths : FileOk(f)'
  <2> SUFFICES ASSUME NEW f \in Paths
               PROVE  FileOk(f)'
      OBVIOUS
  <2>1. FileOk(f) /\ VaultOk(f)
    <3>1. ~Deleting(f)
        BY DeletingIs
    <3> QED BY <3>1 DEF MigrationInv, FileOk
  <2>2. SameNewest(f)
    <3>1. CASE HasBackup(f)
      <4>1. PICK b \in index : /\ b.file = f /\ ~b.snapshot /\ b.id = LatestBackup(f)
                               /\ \A s \in StaleRecords : s.id # b.id
          BY <3>1, StaleFacts
      <4>2. /\ BackupsOf(f)' \in SUBSET Records /\ b \in BackupsOf(f)'
             /\ BackupsOf(f)' \subseteq BackupsOf(f)
          BY <1>1, <1>2, <4>1 DEF BackupsOf, MigrationInv, MigrationTyped
      <4>3. \A s \in BackupsOf(f)' : s.id <= b.id
          BY <3>1, <4>1, <4>2, LatestIs DEF MigrationInv
      <4>4. Max({s.id : s \in BackupsOf(f)'}) = b.id
          BY <4>2, <4>3, NewestRecordIs
      <4>5. HasBackup(f)' /\ LatestBackup(f)' = LatestBackup(f)
          BY <4>1, <4>2, <4>4 DEF HasBackup, LatestBackup
      <4> QED BY <1>1, <3>1, <4>5 DEF SameNewest
    <3>2. CASE ~HasBackup(f)
        BY <1>1, <3>2 DEF SameNewest, HasBackup, BackupsOf
    <3> QED BY <3>1, <3>2
  <2>3. SameText(f) /\ SameVault(f) /\ latest' = latest
      BY <1>1 DEF SameText, SameVault, ghosts
  <2>4. latest[f] # 0 => Safe(f)'
    <3>1. Snapped(f, latest[f]) => FALSE
        BY <1>2, StaleFacts DEF Snapped
    <3>2. /\ Copied(f)' <=> Copied(f)
          /\ \A n : Serving(f, n)' <=> Serving(f, n)
          /\ (disk[f] = Text(latest[f]))' <=> disk[f] = Text(latest[f])
        BY <2>2, <2>3, CopyStays, ServiceStays DEF Text, NoName, SameText
    <3>3. (\E n \in Names : Serving(f, n)) => (\E n \in Names : Serving(f, n))'
        BY <3>2 DEF Names
    <3>4. latest[f] # 0 => Safe(f)
        BY <2>1 DEF FileOk, TextOk
    <3> QED BY <3>1, <3>2, <3>3, <3>4, Zenon DEF Safe
  <2> QED BY <2>1, <2>2, <2>3, <2>4, FileSpared
<1> QED BY <1>5, <1>6, <1>7, <1>8, <1>9 DEF Kept

-------------------------------------------------------------------------------
(* The invariant, and what it gives. *)

\* The invariant holds in the initial states.
LEMMA MigrationStarts ==
    ASSUME OneInvocation, MigrationInit
    PROVE  MigrationInv
<1>0. /\ kind \in [Paths -> Kinds]
      /\ latest \in [Paths -> 1..Cardinality(Paths)]
      /\ disk = [f \in Paths |-> Text(latest[f])]
      /\ secret = [n \in Names |-> NoSecret]
      /\ manifests = [f \in Paths |-> {}]
      /\ registry = [f \in Paths |-> NoName]
      /\ entry = << >> /\ index = {}
      /\ cmd = [c \in Invocations |-> Idle]
      /\ took = [f \in Paths |-> 0]
      /\ edits = 0 /\ starts = 0 /\ stops = 0
    BY DEF MigrationInit
<1>1. DOMAIN entry = {}
    BY <1>0
<1>2. /\ Cardinality(Paths) \in Nat /\ 1..Cardinality(Paths) \subseteq Texts
      /\ 0 \in 0..MaxEdits /\ 0 \in 0..MaxStarts /\ 0 \in 0..MaxStops
  <2>1. MaxEdits \in Nat /\ MaxStarts \in Nat /\ MaxStops \in Nat
      BY MigrationAssumption
  <2> QED BY <2>1, PathsCounted DEF Texts
<1>3. MigrationTyped
  <2>1. \A v \in Texts : Text(v) \in Contents
      BY ContentFacts
  <2>2. disk \in [Paths -> Contents]
      BY <1>0, <1>2, <2>1
  <2>3. NoSecret \in [val : {0} \cup Texts, owner : Paths \cup {NoPath}]
      BY DEF NoSecret
  <2>4. cmd \in [Invocations -> Command]
      BY <1>0, IdleIsCommand
  <2>5. latest \in [Paths -> {0} \cup Texts]
      BY <1>0, <1>2
  <2> QED BY <1>0, <1>1, <1>2, <2>2, <2>3, <2>4, <2>5 DEF MigrationTyped
<1>4. \A c \in Invocations : cmd[c] = Idle /\ cmd[c].op = "none" /\ cmd[c].saved = 0
                             /\ cmd[c].content.val = 0
    BY <1>0, IdleIsCommand, ContentFacts
<1>5. IdsOk
  <2>1. \A i \in UsedIds : i = 0
      BY <1>0, <1>1, <1>4 DEF UsedIds
  <2>2. \A c \in Invocations : ~ToSave(c)
      BY <1>4 DEF ToSave
  <2> QED BY <1>0, <2>1, <2>2 DEF IdsOk
<1>6. TextsOk
    BY <1>0, <1>1, <1>2, <1>4 DEF TextsOk, Written
<1>7. \A f \in Paths : FileOk(f)
  <2> SUFFICES ASSUME NEW f \in Paths
               PROVE  FileOk(f)
      OBVIOUS
  <2>1. disk[f] = Text(latest[f]) /\ took[f] <= latest[f]
      BY <1>0, <1>2
  <2>2. ~HasBackup(f) /\ registry[f] = NoName /\ manifests[f] = {}
      BY <1>0 DEF HasBackup, BackupsOf
  <2>3. IsText(disk[f]) /\ disk[f].kind # "refers"
      BY <2>1, ContentFacts
  <2> QED BY <2>1, <2>2, <2>3 DEF FileOk, TextOk, Safe, DiskOk, VaultOk
<1>8. \A c \in Invocations : Knows(c)
    BY <1>4 DEF Knows, MigrateKnows, UndoKnows, BackKnows, RemoveKnows, PruneKnows
<1> QED BY <1>3, <1>5, <1>6, <1>7, <1>8 DEF MigrationInv

\* Every step of the command keeps it, ...
LEMMA MigrationCommandSteps ==
    ASSUME OneInvocation, NoLiberties, MigrationInv, NEW c \in Invocations,
           \/ StartPrune(c)
           \/ Claim(c) \/ Store(c) \/ WriteManifest(c) \/ Backup(c) \/ Record(c)
           \/ Clear(c) \/ Place(c) \/ Register(c)
           \/ Unregister(c) \/ Get(c) \/ Resolve(c) \/ WriteBack(c)
           \/ DeleteSecrets(c) \/ DeleteEntries(c) \/ DropRecords(c)
           \/ DropStragglers(c) \/ RemoveStore(c)
           \/ Stops(c)
    PROVE  Kept(c)
<1>1. CASE StartPrune(c)
    BY <1>1, PruneStarts
<1>2. CASE Claim(c)
    BY <1>2, Claiming
<1>3. CASE Store(c)
    BY <1>3, Storing
<1>4. CASE WriteManifest(c)
    BY <1>4, WritingManifest
<1>5. CASE Backup(c)
  <2>1. cmd[c].op \in {"migrate", "undo", "remove"}
      BY <1>5 DEF Backup, At
  <2> QED BY <1>5, <2>1, MigrateSaves, UndoSaves, RemoveSaves
<1>6. CASE Record(c)
  <2>1. cmd[c].op \in {"migrate", "undo", "remove"}
      BY <1>6 DEF Record, At
  <2> QED BY <1>6, <2>1, MigrateRecords, UndoRecorded, RemoveRecorded
<1>7. CASE Clear(c)
  <2>1. cmd[c].op \in {"migrate", "undo", "remove", "unmount"}
      BY <1>7 DEF Clear, At
  <2> QED BY <1>7, <2>1, MigrateClears, UndoClears, BackClears
<1>8. CASE Place(c)
    BY <1>8, Placing
<1>9. CASE Register(c)
    BY <1>9, Registering
<1>10. CASE Unregister(c)
  <2>1. cmd[c].op \in {"undo", "remove", "unmount"}
      BY <1>10 DEF Unregister, At
  <2> QED BY <1>10, <2>1, UndoUnregisters, BackUnregisters
<1>11. CASE Get(c)
  <2>1. cmd[c].op \in {"undo", "remove"}
      BY <1>11 DEF Get, At
  <2> QED BY <1>11, <2>1, UndoGets, RemoveGets
<1>12. CASE Resolve(c)
    BY <1>12, Resolving
<1>13. CASE WriteBack(c)
  <2>1. cmd[c].op \in {"undo", "remove", "unmount"}
      BY <1>13 DEF WriteBack, At
  <2> QED BY <1>13, <2>1, UndoWrites, BackWrites
<1>14. CASE DeleteSecrets(c)
    BY <1>14, DeletingSecrets
<1>15. CASE DeleteEntries(c)
  <2>1. cmd[c].op \in {"remove", "prune"}
      BY <1>15 DEF DeleteEntries, At
  <2> QED BY <1>15, <2>1, RemovesEntries, PrunesEntries
<1>16. CASE DropRecords(c)
  <2>1. cmd[c].op \in {"remove", "prune"}
      BY <1>16 DEF DropRecords, At
  <2> QED BY <1>16, <2>1, RemovesRecords, PrunesRecords
<1>17. CASE DropStragglers(c)
    BY <1>17, RemovesStragglers
<1>18. CASE RemoveStore(c)
    BY <1>18, RemovesStore
<1>19. CASE Stops(c)
    BY <1>19, Stopping
<1> QED BY <1>1, <1>2, <1>3, <1>4, <1>5, <1>6, <1>7, <1>8, <1>9, <1>10, <1>11, <1>12, <1>13,
            <1>14, <1>15, <1>16, <1>17, <1>18, <1>19

\* ... and so does a stuttering step.
LEMMA MigrationIdles ==
    ASSUME MigrationInv, UNCHANGED migrationVars
    PROVE  MigrationInv'
<1>1. UNCHANGED <<kind, disk, secret, manifests, registry, entry, index, cmd,
                  latest, took, edits, starts, stops>>
    BY DEF migrationVars, stored, ghosts
<1>2. MigrationTyped'
    BY <1>1 DEF MigrationInv, MigrationTyped
<1>3. IdsOk'
    BY <1>1, Zenon DEF MigrationInv, IdsOk, UsedIds, ToSave
<1>4. TextsOk'
    BY <1>1 DEF MigrationInv, TextsOk, Written
<1>5. \A f \in Paths : FileOk(f)'
  <2>1. \A f \in Paths : Deleting(f) => Deleting(f)'
      BY <1>1 DEF Deleting
  <2> QED BY <1>1, <2>1, FilesStay DEF MigrationInv, stored
<1>6. \A c \in Invocations : Knows(c)'
  <2> SUFFICES ASSUME NEW c \in Invocations
               PROVE  Knows(c)'
      OBVIOUS
  <2>1. Knows(c)
      BY DEF MigrationInv
  <2>2. /\ MigrateKnows(c) => MigrateKnows(c)'
        /\ UndoKnows(c) => UndoKnows(c)'
        /\ BackKnows(c) => BackKnows(c)'
        /\ RemoveKnows(c) => RemoveKnows(c)'
        /\ PruneKnows(c) => PruneKnows(c)'
      BY <1>1 DEF MigrateKnows, UndoKnows, BackKnows, RemoveKnows, PruneKnows, HasBackup,
                  LatestBackup, BackupsOf, Copied, Serving, Snapped, Saved, StaleRecords,
                  IsText, Text, Absent, Pipe, NoName, Names, Deletions
  <2> QED BY <2>1, <2>2 DEF Knows
<1> QED BY <1>2, <1>3, <1>4, <1>5, <1>6 DEF MigrationInv

\* The invariant of Migration.
LEMMA MigrationInvHolds ==
    ASSUME OneInvocation, NoLiberties
    PROVE  MigrationSpec => []MigrationInv
<1>1. MigrationInit => MigrationInv
    BY MigrationStarts
<1>2. MigrationInv /\ [MigrationNext]_migrationVars => MigrationInv'
  <2> SUFFICES ASSUME MigrationInv, [MigrationNext]_migrationVars
               PROVE  MigrationInv'
      OBVIOUS
  <2>1. ASSUME NEW c \in Invocations, NEW f \in Paths,
               StartMigrate(c, f) \/ StartUndo(c, f) \/ StartRemove(c, f) \/ StartUnmount(c, f)
        PROVE  MigrationInv'
    <3>1. Kept(c)
        BY <2>1, MigrateStarts, UndoStarts, RemoveStarts, UnmountStarts
    <3> QED BY <3>1, KeptIsEnough
  <2>2. ASSUME NEW c \in Invocations, NEW f \in Paths, VaultSet(c, f)
        PROVE  MigrationInv'
      BY <2>2, SettingVault
  <2>3. ASSUME NEW c \in Invocations,
               \/ StartPrune(c)
               \/ Claim(c) \/ Store(c) \/ WriteManifest(c) \/ Backup(c) \/ Record(c)
               \/ Clear(c) \/ Place(c) \/ Register(c)
               \/ Unregister(c) \/ Get(c) \/ Resolve(c) \/ WriteBack(c)
               \/ DeleteSecrets(c) \/ DeleteEntries(c) \/ DropRecords(c)
               \/ DropStragglers(c) \/ RemoveStore(c)
               \/ Stops(c)
        PROVE  MigrationInv'
    <3>1. Kept(c)
        BY <2>3, MigrationCommandSteps, Zenon
    <3> QED BY <3>1, KeptIsEnough
  <2>4. ASSUME NEW f \in Paths, Edit(f)
        PROVE  MigrationInv'
      BY <2>4, Editing
  <2>5. CASE UNCHANGED migrationVars
      BY <2>5, MigrationIdles
  <2> QED BY <2>1, <2>2, <2>3, <2>4, <2>5, Zenon DEF MigrationNext
<1> QED BY <1>1, <1>2, PTL DEF MigrationSpec

\* The invariant is about types among other things.
LEMMA InvGivesTypes ==
    ASSUME MigrationInv
    PROVE  MigrationTypeOK
<1>1. \A c \in Invocations : /\ cmd[c].file \in Paths \cup {NoPath}
                             /\ cmd[c].content \in Contents
                             /\ cmd[c].name \in Names \cup {NoName}
                             /\ cmd[c].drop \subseteq Records
                             /\ cmd[c].delete \subseteq Names
    BY DEF MigrationInv, MigrationTyped, Command
<1> QED BY <1>1 DEF MigrationInv, MigrationTyped, MigrationTypeOK

\* The invariant says that the text can be had again.
LEMMA InvKeepsTheText ==
    ASSUME OneInvocation, MigrationInv
    PROVE  LastTextKept /\ UndoReachesIt
<1>1. LastTextKept
  <2> SUFFICES ASSUME NEW f \in Paths, latest[f] # 0
               PROVE  Recoverable(f, latest[f], index, entry)
      BY DEF LastTextKept
  <2>1. Safe(f)
      BY DEF MigrationInv, FileOk, TextOk
  <2>2. CASE \E n \in Names : Serving(f, n)
      BY <2>2 DEF Serving, Recoverable
  <2>3. CASE Copied(f)
    <3>1. PICK r \in BackupsOf(f) : r.id = LatestBackup(f)
        BY <2>3, LatestIs DEF Copied, MigrationInv
    <3> QED BY <2>3, <3>1 DEF Copied, BackupsOf, Recoverable
  <2>4. CASE Snapped(f, latest[f])
      BY <2>4 DEF Snapped, Recoverable
  <2> QED BY <2>1, <2>2, <2>3, <2>4 DEF Safe, Recoverable
<1>2. UndoReachesIt
  <2> SUFFICES ASSUME NEW f \in Paths, ~IsText(disk[f])
               PROVE  /\ HasBackup(f) /\ LatestBackup(f) \in DOMAIN entry
                      /\ IsText(entry[LatestBackup(f)])
      BY Zenon DEF UndoReachesIt
  <2>1. FileOk(f)
      BY DEF MigrationInv
  <2>2. ~Deleting(f)
    <3>1. ASSUME NEW c \in Invocations,
                 cmd[c].op = "remove", cmd[c].file = f, cmd[c].pc \in Deletions
          PROVE  FALSE
        BY <3>1, Removing
    <3> QED BY <3>1 DEF Deleting
  <2>3. HasBackup(f)
      BY <2>1 DEF FileOk, DiskOk
  <2> QED BY <2>1, <2>2, <2>3 DEF FileOk, VaultOk, Backed
<1> QED BY <1>1, <1>2

\* Whenever a command stops, the text the user last wrote is at the path, or the
\* vault has it under the file's own profile, or a backup of the index does, and
\* a path that is not the user's text can be undone (internal/migrate and the
\* commands of internal/cli that go back).  One command at a time, and a user who
\* does what the runs that pass let him (README).
THEOREM NothingLost ==
    ASSUME \A c, d \in Invocations : c = d, Liberties = {}
    PROVE  MigrationSpec => []NothingIsLost
<1>0. OneInvocation /\ (MigrationSpec => []MigrationInv)
    BY MigrationInvHolds DEF OneInvocation, NoLiberties
<1>1. MigrationInv => NothingIsLost
    BY <1>0, InvGivesTypes, InvKeepsTheText DEF NothingIsLost
<1> QED BY <1>0, <1>1, PTL

\* A registered mount serves its own file's newest text, from its own store
\* (mount.AddMount after ApplyEnvFileSplit).
THEOREM MountsServeTheirOwn ==
    ASSUME \A c, d \in Invocations : c = d, Liberties = {}
    PROVE  MigrationSpec => []MountServesItsOwn
<1>0. MigrationSpec => []MigrationInv
    BY MigrationInvHolds DEF OneInvocation, NoLiberties
<1>1. MigrationInv => MountServesItsOwn
    BY DEF MigrationInv, FileOk, DiskOk, Serving, MountServesItsOwn
<1> QED BY <1>0, <1>1, PTL

\* What an undo writes is a text of the user's, none older than the one that jit
\* last took from the path (migrate.RestoreFromBackup).
THEOREM UndoGivesBack ==
    ASSUME \A c, d \in Invocations : c = d, Liberties = {}
    PROVE  MigrationSpec => UndoGivesBackTheUsersText
<1>0. OneInvocation /\ (MigrationSpec => []MigrationInv)
    BY MigrationInvHolds DEF OneInvocation, NoLiberties
<1> DEFINE A == \A f \in Paths, c \in Invocations :
                   At(c, {"undo"}, "write") /\ cmd[c].file = f /\ disk'[f] # disk[f] /\ cmd' # cmd
                      => IsText(disk'[f]) /\ disk'[f].val >= took[f]
<1>1. MigrationInv /\ [MigrationNext]_migrationVars => [A]_migrationVars
  <2> SUFFICES ASSUME MigrationInv, MigrationNext, NEW f \in Paths, NEW c \in Invocations,
                      At(c, {"undo"}, "write"), cmd[c].file = f, disk'[f] # disk[f], cmd' # cmd
               PROVE  IsText(disk'[f]) /\ disk'[f].val >= took[f]
      OBVIOUS
  <2>1. \A d \in Invocations : d = c
      BY <1>0 DEF OneInvocation
  <2>2. cmd[c].op = "undo" /\ cmd[c].pc = "write" /\ cmd[c] # Idle
      BY IdleIsCommand DEF At
  <2>3. WriteBack(c)
    <3>1. \A d \in Invocations, g \in Paths :
             ~(StartMigrate(d, g) \/ StartUndo(d, g) \/ StartRemove(d, g) \/ StartUnmount(d, g)
               \/ VaultSet(d, g))
        BY <2>1, <2>2 DEF StartMigrate, StartUndo, StartRemove, StartUnmount, VaultSet, Begin
    <3>2. \A d \in Invocations :
             ~(\/ StartPrune(d) \/ Claim(d) \/ Store(d) \/ WriteManifest(d)
               \/ Backup(d) \/ Record(d) \/ Clear(d) \/ Place(d) \/ Register(d)
               \/ Unregister(d) \/ Get(d) \/ Resolve(d) \/ Stops(d))
      <4>1. ~Stops(c)
          BY DEF Stops
      <4>2. ~StartPrune(c)
          BY <2>2 DEF StartPrune, Begin
      <4> QED BY <2>1, <2>2, <4>1, <4>2
            DEF Claim, Store, WriteManifest, Backup, Record, Clear, Place, Register,
                Unregister, Get, Resolve, At
    <3>3. \A d \in Invocations :
             ~(DeleteSecrets(d) \/ DeleteEntries(d) \/ DropRecords(d) \/ DropStragglers(d)
               \/ RemoveStore(d))
        BY <2>1, <2>2 DEF DeleteSecrets, DeleteEntries, DropRecords, DropStragglers, RemoveStore, At
    <3>4. \A g \in Paths : ~Edit(g)
        BY DEF Edit
    <3> QED BY <2>1, <3>1, <3>2, <3>3, <3>4, Zenon DEF MigrationNext
  <2>4. /\ IsText(cmd[c].content) /\ took[f] <= cmd[c].content.val
        /\ cmd[c].content \in Contents
      BY <1>0, <2>2, Undoing DEF Command
  <2>5. disk'[f] = cmd[c].content
      BY <2>3 DEF WriteBack, MigrationInv, MigrationTyped
  <2>6. took[f] \in Nat /\ cmd[c].content.val \in Nat
    <3>1. cmd[c].content.val \in Texts /\ took[f] \in {0} \cup Texts
        BY <2>4, ContentKinds DEF MigrationInv, MigrationTyped
    <3>2. \A v \in Texts : v \in Nat
        BY PathsCounted
    <3> QED BY <3>1, <3>2
  <2> QED BY <2>4, <2>5, <2>6
<1> QED BY <1>0, <1>1, PTL DEF MigrationSpec, UndoGivesBackTheUsersText
===============================================================================
