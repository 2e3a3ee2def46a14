------------------------ MODULE StandingGrantsProofs ------------------------
(***************************************************************************)
(* For any grants, requests, crashes, moves and faults: the only key of a  *)
(* grant is never gone, the ledger follows memory, and a start without a   *)
(* fault leaves no key that no grant names.  With one fault at most, what  *)
(* was revoked or refused is never opened again.                           *)
(***************************************************************************)
EXTENDS StandingGrants, FiniteSetTheorems, TLAPS

-------------------------------------------------------------------------------
(* What holds at every moment. *)

\* Two records are of one sealing; how often a grant was served may differ.
Alike(a, b) == a.wrap = b.wrap /\ a.gen = b.gen

NoKeys(g) == \A k \in Kinds : keys[g][k] = 0
Ended(g) == told[g] \in {"failed", "revoked"}
Starting == phase \notin {"up", "down"}

\* What each place says of the operation.
PlaceOk(r) ==
    LET p == local[r].pc
        op == local[r].op
    IN  /\ p = "idle" => op = "none"
        /\ p \in {"key", "seal", "publish", "unpublish"} => op = "create"
        /\ p = "remove" => op = "revoke"
        /\ p \in {"retire", "delete"} => op \in {"create", "revoke"}
        /\ p \in {"check", "open", "count", "bookkeep"} => op = "serve"
        /\ p \in {"flush", "collect", "retireAll"} => op = "stop"
        /\ p \in {"save", "write"} => op # "none"
        /\ p = "write" <=> ledgerMu = r
        /\ phase # "up" => p \in {"idle", "done"}
        /\ p \notin {"idle", "done"} /\ op = "create" => loaded

\* A service that is not up remembers nothing; one that read no ledger has no
\* grant.
MemoryOk ==
    /\ phase # "up" => dead = {} /\ ~saveFailed /\ \A g \in Grants : cached[g] = 0
    /\ phase = "down" \/ ~loaded => Named(standing) = {}
    /\ \A g \in dead : cached[g] = 0

\* A record that is there names a key that was made.
GensOk ==
    \A g \in Grants :
        /\ g \in Named(ledger) => ledger[g].gen # 0
        /\ g \in Named(standing) => standing[g].gen # 0
        /\ \A r \in Requests :
             /\ local[r].pc = "write" /\ local[r].snap[g].wrap # "none"
                  => local[r].snap[g].gen # 0
             /\ local[r].pc \in {"seal", "publish", "open"}
                  => local[r].sealed.wrap # "none" /\ local[r].sealed.gen # 0

\* An id is minted once.
Creates(r, g) == local[r].op = "create" /\ local[r].g = g
MintedOnce ==
    /\ \A r, q \in Requests, g \in Grants : Creates(r, g) /\ Creates(q, g) => r = q
    /\ \A r \in Requests, g \in Old : ~Creates(r, g)

\* Until its create has published it, nothing knows of a grant.
Unpublished(g) ==
    /\ g \notin Old
    /\ \A r \in Requests :
         Creates(r, g) => local[r].pc \in {"key", "seal", "publish"}
Unknown(g) ==
    /\ g \notin Named(ledger) \cup Named(standing) \cup dead
    /\ cached[g] = 0 /\ told[g] = "none"
    /\ \A r \in Requests :
         /\ local[r].pc = "write" => local[r].snap[g].wrap = "none"
         /\ local[r].pc = "retireAll" => g \notin local[r].left
         /\ local[r].pc = "open" => local[r].g # g
UnpublishedIsUnknown == \A g \in Grants : Unpublished(g) => Unknown(g)

-------------------------------------------------------------------------------
(* The only key of a grant. *)

KeyIsThere(record, g) == record.wrap # "none" /\ keys[g][record.wrap] = record.gen

\* A create on its way to the ledger.
CreateOk(r) ==
    LET g == local[r].g
        p == local[r].pc
    IN  local[r].op = "create" =>
        /\ p \in {"seal", "publish"} => KeyIsThere(local[r].sealed, g)
        /\ p \in {"save", "write", "unpublish", "retire", "delete"}
             => told[g] # "granted"
        /\ p \in {"save", "write"} /\ told[g] = "none"
             => /\ Alike(standing[g], local[r].sealed)
                /\ KeyIsThere(local[r].sealed, g)
        /\ p = "write" /\ told[g] = "none" => Alike(local[r].snap[g], standing[g])
        /\ p \in {"unpublish", "retire", "delete"} => saveFailed
        /\ p \in {"retire", "delete"} => g \notin Named(standing)
        /\ p = "delete" => g \in dead

RevokeOk(r) ==
    LET g == local[r].g
        p == local[r].pc
    IN  local[r].op = "revoke" =>
        /\ p \in {"retire", "delete", "save", "write"}
             => /\ told[g] \in {"ending", "revoked", "failed"}
                /\ g \notin Named(standing) /\ loaded
        /\ p \in {"delete", "save", "write"} => g \in dead
        /\ p = "write" => local[r].snap[g].wrap = "none"

GrantedOk ==
    \A g \in Grants :
        told[g] = "granted" =>
            /\ KeyIsThere(ledger[g], g)
            /\ phase = "up" /\ loaded => Alike(standing[g], ledger[g])
            /\ \A r \in Requests :
                 local[r].pc = "write" /\ loaded => Alike(local[r].snap[g], standing[g])

\* What a start knows.
StartOk ==
    /\ Starting =>
        /\ loaded => standing = ledger /\ Named(ledger) \subseteq names
        /\ names \subseteq Named(standing)
    /\ phase \in {"move", "drop"} => todo \cup moving \subseteq Named(standing)
    /\ phase # "move" => moving = {}
    /\ \A g \in moving : standing[g].wrap # target /\ keys[g][target] # 0
    /\ phase = "drop" => \A g \in todo : standing[g].wrap = target
    /\ phase = "clean" =>
        /\ \A g \in todo : loaded /\ g \notin names
    /\ phase \in {"up", "down"} => todo = {}

-------------------------------------------------------------------------------
(* The ledger follows. *)

Owing(r, g) ==
    \/ local[r].pc = "save"
    \/ local[r].op = "revoke" /\ local[r].pc \in {"retire", "delete"} /\ local[r].g = g

LedgerOwed ==
    (phase = "up" /\ loaded /\ ~saveFailed) =>
        \A g \in Grants :
            /\ \/ Alike(ledger[g], standing[g])
               \/ \E r \in Requests : Owing(r, g) \/ local[r].pc = "write"
            /\ \A w \in Requests :
                 local[w].pc = "write" =>
                   \/ Alike(local[w].snap[g], standing[g])
                   \/ \E r \in Requests : Owing(r, g)

-------------------------------------------------------------------------------
(* A start without a fault. *)

CleanStart ==
    (Starting /\ faults = faultsAtStart) =>
        /\ loaded /\ jobsLoaded /\ reach
        /\ phase = "clean" =>
             \A g \in Grants : ~NoKeys(g) => g \in todo \cup Named(standing)
FaultsOk == faultsAtStart <= faults

-------------------------------------------------------------------------------
(* With one fault at most. *)

Spent == (IF reach THEN 0 ELSE 1) + (IF saveFailed THEN 1 ELSE 0) <= faults

Unrecorded(g) ==
    /\ g \notin Named(ledger) \cup Named(standing)
    /\ \A r \in Requests :
         /\ local[r].pc = "write" => local[r].snap[g].wrap = "none"
         /\ local[r].pc = "open" /\ local[r].g = g => g \in dead

EndedOk ==
    \A g \in Grants :
        Ended(g) => /\ cached[g] = 0
                    /\ Unrecorded(g) \/ (NoKeys(g) /\ faults = 1)
RevokedKeys ==
    \A r \in Requests :
        local[r].op = "revoke" /\ local[r].pc \in {"save", "write"}
           => NoKeys(local[r].g) \/ faults = 1

PlacesOk == \A r \in Requests : PlaceOk(r)
OperationsOk == \A r \in Requests : CreateOk(r) /\ RevokeOk(r)

KeptInv == /\ TypeOK /\ PlacesOk /\ MemoryOk /\ GensOk
           /\ MintedOnce /\ UnpublishedIsUnknown /\ OperationsOk
           /\ GrantedOk /\ StartOk /\ LedgerOwed /\ CleanStart /\ FaultsOk

EndInv == Spent /\ EndedOk /\ RevokedKeys

-------------------------------------------------------------------------------
(* How the helpers of the model move its state. *)

\* Who is not r stays as it is.
OthersStay(r) == \A q \in Requests \ {r} : local'[q] = local[q]

\* r keeps its operation and its grant, and this is where it is now.
Now(r, pc, sealed, snap, left) ==
    /\ OthersStay(r)
    /\ local'[r].op = local[r].op /\ local'[r].g = local[r].g
    /\ local'[r].pc = pc /\ local'[r].sealed = sealed
    /\ local'[r].snap = snap /\ local'[r].left = left
NowAt(r, pc) == Now(r, pc, local[r].sealed, local[r].snap, local[r].left)

LocalsTyped == local \in [Requests -> Local]

LEMMA LocalFields ==
  ASSUME TypeOK, NEW r \in Requests
  PROVE  /\ local[r] \in Local /\ local[r].pc \in Places /\ local[r].g \in Grants
         /\ local[r].op \in {"none", "create", "serve", "revoke", "stop"}
         /\ local[r].sealed \in Record /\ local[r].snap \in [Grants -> Record]
         /\ local[r].left \subseteq Grants
  BY DEF TypeOK, Local

LEMMA Goes ==
  ASSUME TypeOK, NEW r \in Requests, NEW p \in Places, Goto(r, p)
  PROVE  LocalsTyped' /\ NowAt(r, p)
  <1>1. local \in [Requests -> Local]
    BY DEF TypeOK
  <1>2. local' = [local EXCEPT ![r] = [local[r] EXCEPT !.pc = p]]
    BY DEF Goto
  <1>3. [local[r] EXCEPT !.pc = p] \in Local
    BY LocalFields DEF Local
  <1> QED
    BY <1>1, <1>2, <1>3, LocalFields DEF Now, NowAt, OthersStay, Local, LocalsTyped

\* What a step of r does to the fields of its locals.
LEMMA Becomes ==
  ASSUME TypeOK, NEW r \in Requests, NEW new \in Local,
         new.op = local[r].op, new.g = local[r].g,
         local' = [local EXCEPT ![r] = new]
  PROVE  LocalsTyped' /\ Now(r, new.pc, new.sealed, new.snap, new.left)
  BY DEF Now, OthersStay, TypeOK, LocalsTyped

LEMMA GoesSealed ==
  ASSUME TypeOK, NEW r \in Requests, NEW p \in Places, NEW s \in Record,
         local' = [local EXCEPT ![r].pc = p, ![r].sealed = s]
  PROVE  LocalsTyped' /\ Now(r, p, s, local[r].snap, local[r].left)
  <1> DEFINE new == [local[r] EXCEPT !.pc = p, !.sealed = s]
  <1>1. new \in Local /\ new.op = local[r].op /\ new.g = local[r].g
    BY LocalFields DEF Local
  <1>2. local' = [local EXCEPT ![r] = new]
    BY LocalFields DEF TypeOK, Local
  <1>3. LocalsTyped' /\ Now(r, new.pc, new.sealed, new.snap, new.left)
    <2> HIDE DEF new
    <2> QED
      BY <1>1, <1>2, Becomes
  <1> QED
    BY <1>3, LocalFields DEF Now, Local

LEMMA GoesSnapped ==
  ASSUME TypeOK, NEW r \in Requests, NEW p \in Places, NEW n \in [Grants -> Record],
         local' = [local EXCEPT ![r].pc = p, ![r].snap = n]
  PROVE  LocalsTyped' /\ Now(r, p, local[r].sealed, n, local[r].left)
  <1> DEFINE new == [local[r] EXCEPT !.pc = p, !.snap = n]
  <1>1. new \in Local /\ new.op = local[r].op /\ new.g = local[r].g
    BY LocalFields DEF Local
  <1>2. local' = [local EXCEPT ![r] = new]
    BY LocalFields DEF TypeOK, Local
  <1>3. LocalsTyped' /\ Now(r, new.pc, new.sealed, new.snap, new.left)
    <2> HIDE DEF new
    <2> QED
      BY <1>1, <1>2, Becomes
  <1> QED
    BY <1>3, LocalFields DEF Now, Local

LEMMA GoesLeft ==
  ASSUME TypeOK, NEW r \in Requests, NEW p \in Places, NEW l \in SUBSET Grants,
         local' = [local EXCEPT ![r].pc = p, ![r].left = l]
  PROVE  LocalsTyped' /\ Now(r, p, local[r].sealed, local[r].snap, l)
  <1> DEFINE new == [local[r] EXCEPT !.pc = p, !.left = l]
  <1>1. new \in Local /\ new.op = local[r].op /\ new.g = local[r].g
    BY LocalFields DEF Local
  <1>2. local' = [local EXCEPT ![r] = new]
    BY LocalFields DEF TypeOK, Local
  <1>3. LocalsTyped' /\ Now(r, new.pc, new.sealed, new.snap, new.left)
    <2> HIDE DEF new
    <2> QED
      BY <1>1, <1>2, Becomes
  <1> QED
    BY <1>3, LocalFields DEF Now, Local

LEMMA StaysLeft ==
  ASSUME TypeOK, NEW r \in Requests, NEW l \in SUBSET Grants,
         local' = [local EXCEPT ![r].left = l]
  PROVE  LocalsTyped' /\ Now(r, local[r].pc, local[r].sealed, local[r].snap, l)
  <1> DEFINE new == [local[r] EXCEPT !.left = l]
  <1>1. new \in Local /\ new.op = local[r].op /\ new.g = local[r].g
    BY LocalFields DEF Local
  <1>2. local' = [local EXCEPT ![r] = new]
    BY LocalFields DEF TypeOK, Local
  <1>3. LocalsTyped' /\ Now(r, new.pc, new.sealed, new.snap, new.left)
    <2> HIDE DEF new
    <2> QED
      BY <1>1, <1>2, Becomes
  <1> QED
    BY <1>3, LocalFields DEF Now, Local

LEMMA KindsFinite ==
  ASSUME NEW S \in SUBSET Kinds
  PROVE  /\ IsFiniteSet(S) /\ Cardinality(S) \in Nat
         /\ Cardinality(S) = 0 <=> S = {}
  <1>1. IsFiniteSet({"keychain"})
    BY FS_Singleton
  <1>2. IsFiniteSet({"keychain"} \cup {"enclave"})
    BY <1>1, FS_AddElement
  <1>3. IsFiniteSet(Kinds)
    <2>1. Kinds = {"keychain"} \cup {"enclave"}
      BY DEF Kinds
    <2> QED
      BY <1>2, <2>1
  <1>4. IsFiniteSet(S)
    BY <1>3, FS_Subset
  <1> QED
    BY <1>4, FS_CardinalityType, FS_EmptySet

\* A delete of keys leaves each of them or takes it; without a fault it leaves
\* only what it cannot reach.
LEMMA Deletes ==
  ASSUME TypeOK, NEW g \in Grants, NEW kinds \in SUBSET Kinds,
         DeleteKeys(g, kinds)
  PROVE  /\ keys' \in [Grants -> [Kinds -> Nat]]
         /\ faults' \in 0 .. MaxFaults /\ faults <= faults'
         /\ \A h \in Grants \ {g} : keys'[h] = keys[h]
         /\ \A k \in Kinds : keys'[g][k] \in {0, keys[g][k]}
         /\ \A k \in Kinds \ kinds : keys'[g][k] = keys[g][k]
         /\ faults' = faults =>
              \A k \in kinds : keys'[g][k] # 0 => ~Reachable(k)
  <1> DEFINE held == {k \in kinds : keys[g][k] # 0}
  <1>1. PICK kept \in SUBSET held :
          /\ keys' = [keys EXCEPT ![g] =
                [k \in Kinds |-> IF k \in held \ kept THEN 0 ELSE keys[g][k]]]
          /\ Fault(Cardinality({k \in kept : Reachable(k)}))
    BY DEF DeleteKeys
  <1> DEFINE stay == {k \in kept : Reachable(k)}
             left == [k \in Kinds |-> IF k \in held \ kept THEN 0 ELSE keys[g][k]]
  <1>2. stay \in SUBSET Kinds
    OBVIOUS
  <1>3. Cardinality(stay) \in Nat /\ (Cardinality(stay) = 0 => stay = {})
    BY <1>2, KindsFinite
  <1>4. /\ keys \in [Grants -> [Kinds -> Nat]] /\ faults \in 0 .. MaxFaults
        /\ MaxFaults \in Nat
    BY StandingBoundsAssumption DEF TypeOK
  <1>5. left \in [Kinds -> Nat]
    BY <1>4
  <1>6. /\ keys' = [keys EXCEPT ![g] = left]
        /\ faults' = faults + Cardinality(stay) /\ faults' <= MaxFaults
    BY <1>1 DEF Fault
  <1>7. /\ faults \in Nat /\ faults' = faults + Cardinality(stay)
         /\ Cardinality(stay) \in Nat
    BY <1>3, <1>4, <1>6
  <1>8. faults' = faults => Cardinality(stay) = 0
    <2> HIDE DEF stay
    <2> QED
      BY <1>7
  <1>9. keys' \in [Grants -> [Kinds -> Nat]] /\ keys'[g] = left
        /\ \A h \in Grants \ {g} : keys'[h] = keys[h]
    <2> HIDE DEF left
    <2> QED
      BY <1>4, <1>5, <1>6
  <1>10. \A k \in Kinds :
          keys'[g][k] = IF k \in held \ kept THEN 0 ELSE keys[g][k]
    BY <1>9
  <1>11. faults' \in 0 .. MaxFaults /\ faults <= faults'
    <2> HIDE DEF stay
    <2> QED
      BY <1>3, <1>4, <1>6
  <1>12. ASSUME faults' = faults, NEW k \in kinds, keys'[g][k] # 0
         PROVE  ~Reachable(k)
    <2>1. Cardinality(stay) = 0
      BY <1>12, <1>8, Zenon
    <2>2. stay = {}
      BY <1>3, <2>1, Zenon
    <2>3. k \in kept
      BY <1>10, <1>12
    <2> QED
      BY <2>2, <2>3
  <1> QED
    BY <1>9, <1>10, <1>11, <1>12

-------------------------------------------------------------------------------
(* A service that is up. *)

\* With one fault at most, what ended stays ended.
KeepsEnd == MaxFaults <= 1 /\ EndInv => EndInv'

\* What a start knows is no matter to one that is over.
LEMMA UpKeepsStart ==
  ASSUME KeptInv, phase = "up", UNCHANGED <<phase, startVars>>, faults <= faults',
         faults \in Nat, faults' \in Nat, faultsAtStart \in Nat
  PROVE  StartOk' /\ CleanStart' /\ FaultsOk'
  BY DEF KeptInv, StartOk, CleanStart, FaultsOk, Starting, startVars

\* Requests keep what they were asked for.
LEMMA NowKeepsMinted ==
  ASSUME KeptInv, NEW r \in Requests,
         NEW pc, NEW sealed, NEW snap, NEW left, Now(r, pc, sealed, snap, left)
  PROVE  MintedOnce' /\ \A q \in Requests : /\ local'[q].op = local[q].op
                                            /\ local'[q].g = local[q].g
  BY DEF KeptInv, MintedOnce, Creates, Now, OthersStay

LEMMA CreateKeyKeeps ==
  ASSUME KeptInv, NEW r \in Requests, CreateKey(r)
  PROVE  KeptInv' /\ KeepsEnd
  <1> DEFINE g == local[r].g
  <1>1. /\ phase = "up" /\ local[r].pc = "key" /\ TypeOK
        /\ UNCHANGED <<ledger, vaultKind, phase, startVars, standing, cached,
                       dead, ledgerMu, dirty, saveFailed, bounds, faults>>
    BY DEF CreateKey, At, KeptInv
  <1>2. g \in Grants /\ vaultKind \in Kinds /\ made[g] \in Nat
    BY <1>1, LocalFields DEF TypeOK
  <1>3. keys \in [Grants -> [Kinds -> Nat]] /\ made \in [Grants -> Nat]
    BY <1>1 DEF TypeOK
  <1>4. Unpublished(g) /\ Unknown(g) /\ local[r].op = "create"
    BY <1>1, <1>2 DEF KeptInv, UnpublishedIsUnknown, Unpublished, MintedOnce,
       Creates, PlacesOk, PlaceOk
  <1>5. CASE /\ made' = [made EXCEPT ![g] = @ + 1]
             /\ keys' = [keys EXCEPT ![g][vaultKind] = made[g] + 1]
             /\ local' = [local EXCEPT ![r].pc = "seal",
                    ![r].sealed = [wrap |-> vaultKind, gen |-> made[g] + 1, serves |-> 0]]
             /\ UNCHANGED told
    <2> DEFINE new == [wrap |-> vaultKind, gen |-> made[g] + 1, serves |-> 0]
    <2>1. new \in Record /\ "seal" \in Places
      BY <1>2 DEF Record, Places
    <2>2. LocalsTyped' /\ Now(r, "seal", new, local[r].snap, local[r].left)
      <3> HIDE DEF new
      <3>1. local' = [local EXCEPT ![r].pc = "seal", ![r].sealed = new]
        BY <1>5 DEF new
      <3> QED
        BY <1>1, <2>1, <3>1, GoesSealed
    <2>3. new.wrap = vaultKind /\ new.gen = made[g] + 1 /\ made[g] + 1 # 0
      BY <1>2
    <2>4. made' \in [Grants -> Nat] /\ keys' \in [Grants -> [Kinds -> Nat]]
      BY <1>2, <1>3, <1>5
    <2>5. /\ keys'[g][vaultKind] = made[g] + 1
          /\ \A h \in Grants \ {g} : keys'[h] = keys[h]
      BY <1>2, <1>3, <1>5
    <2> HIDE DEF new
    <2>6. told' = told /\ vaultKind # "none"
      BY <1>2, <1>5 DEF Kinds
    <2>7. TypeOK'
      BY <1>1, <2>2, <2>4, <2>6 DEF TypeOK, LocalsTyped, diskVars, startVars, bounds
    <2>8. PlacesOk'
      <3> SUFFICES ASSUME NEW q \in Requests
                      PROVE  PlaceOk(q)'
        BY DEF PlacesOk
      <3>1. PlaceOk(q) /\ PlaceOk(r)
        BY DEF KeptInv, PlacesOk
      <3> QED
        BY <1>1, <1>2, <1>4, <2>2, <2>3, <2>5, <2>6, <3>1 DEF PlaceOk, Now, NowAt,
           OthersStay, startVars
    <2>9. MemoryOk'
      BY <1>1, <1>2, <1>4, <2>2, <2>3, <2>5, <2>6 DEF KeptInv, MemoryOk, Named,
         NoRecord, startVars, Unknown
    <2>10. GensOk'
      BY <1>1, <1>2, <1>4, <2>2, <2>3, <2>5, <2>6 DEF KeptInv, GensOk, Named,
         NoRecord, Now, NowAt, OthersStay, diskVars
    <2>11. MintedOnce'
      BY <1>1, <1>2, <1>4, <2>2, <2>3, <2>5, <2>6, NowKeepsMinted DEF NowAt
    <2>12. UnpublishedIsUnknown'
      <3> SUFFICES ASSUME NEW h \in Grants, Unpublished(h)'
                      PROVE  Unknown(h)'
        BY DEF UnpublishedIsUnknown
      <3>1. Unpublished(h)
        BY <1>1, <1>2, <1>4, <2>2, <2>3, <2>5, <2>6 DEF Unpublished, Creates, Now,
           NowAt, OthersStay
      <3>2. Unknown(h)
        BY <3>1 DEF KeptInv, UnpublishedIsUnknown
      <3> QED
        BY <1>1, <1>2, <1>4, <2>2, <2>3, <2>5, <2>6, <3>1, <3>2 DEF Unpublished,
           Unknown, Creates, Now, NowAt, OthersStay, Named, NoRecord, diskVars
    <2>13. OperationsOk'
      <3> SUFFICES ASSUME NEW q \in Requests
                      PROVE  CreateOk(q)' /\ RevokeOk(q)'
        BY DEF OperationsOk
      <3>1. /\ CreateOk(q) /\ RevokeOk(q) /\ PlaceOk(q) /\ PlaceOk(r)
            /\ local[q].g \in Grants /\ MintedOnce
        BY <1>1, LocalFields DEF KeptInv, OperationsOk, PlacesOk
      <3>2. CreateOk(q)'
        BY <1>1, <1>2, <1>4, <2>2, <2>3, <2>5, <2>6, <3>1 DEF CreateOk, MintedOnce,
           Creates, PlaceOk, KeyIsThere, Alike, Now, NowAt, OthersStay, Named,
           NoRecord, diskVars, startVars, Unknown
      <3>3. RevokeOk(q)'
        BY <1>1, <1>2, <1>4, <2>2, <2>3, <2>5, <2>6, <3>1 DEF RevokeOk, PlaceOk,
           Now, NowAt, OthersStay, Named, NoRecord, diskVars, startVars, Unknown
      <3> QED
        BY <3>2, <3>3
    <2>14. GrantedOk'
      <3> SUFFICES ASSUME NEW h \in Grants, told'[h] = "granted"
                      PROVE  /\ KeyIsThere(ledger[h], h)'
                             /\ (phase = "up" /\ loaded => Alike(standing[h], ledger[h]))'
                             /\ \A q \in Requests :
                                  (local[q].pc = "write" /\ loaded
                                     => Alike(local[q].snap[h], standing[h]))'
        BY DEF GrantedOk
      <3>1. told[h] = "granted" =>
                /\ KeyIsThere(ledger[h], h)
                /\ phase = "up" /\ loaded => Alike(standing[h], ledger[h])
                /\ \A q \in Requests :
                     local[q].pc = "write" /\ loaded => Alike(local[q].snap[h], standing[h])
        BY DEF KeptInv, GrantedOk
      <3> QED
        BY <1>1, <1>2, <1>4, <2>2, <2>3, <2>5, <2>6, <3>1 DEF KeyIsThere, Alike,
           Now, NowAt, OthersStay, Named, NoRecord, diskVars, startVars, Unknown
    <2>15. LedgerOwed'
      BY <1>1, <1>2, <1>4, <2>2, <2>3, <2>5, <2>6 DEF KeptInv, LedgerOwed, Owing,
         Alike, Now, NowAt, OthersStay, diskVars, startVars, PlacesOk, PlaceOk
    <2>16. StartOk' /\ CleanStart' /\ FaultsOk'
      BY <1>1, <1>2, <1>4, <2>2, <2>3, <2>5, <2>6, UpKeepsStart DEF TypeOK
    <2>17. KeepsEnd
      <3> SUFFICES ASSUME MaxFaults <= 1, EndInv
                      PROVE  EndInv'
        BY DEF KeepsEnd
      <3>1. Spent'
        BY <1>1, <1>2, <1>4, <2>2, <2>3, <2>5, <2>6 DEF EndInv, Spent, startVars,
           Unknown
      <3>2. EndedOk'
        <4> SUFFICES ASSUME NEW h \in Grants, Ended(h)'
                        PROVE  /\ (cached[h] = 0)'
                               /\ Unrecorded(h)' \/ (NoKeys(h) /\ faults = 1)'
          BY DEF EndedOk
        <4>1. Ended(h) => /\ cached[h] = 0
                          /\ Unrecorded(h) \/ (NoKeys(h) /\ faults = 1)
          BY DEF EndInv, EndedOk
        <4> QED
          BY <1>1, <1>2, <1>4, <2>2, <2>3, <2>5, <2>6, <4>1 DEF Ended, Unrecorded,
             NoKeys, Now, NowAt, OthersStay, Named, NoRecord, diskVars, Unknown
      <3>3. RevokedKeys'
        <4> SUFFICES ASSUME NEW q \in Requests,
                               (local[q].op = "revoke" /\ local[q].pc \in {"save", "write"})'
                        PROVE  (NoKeys(local[q].g) \/ faults = 1)'
          BY DEF RevokedKeys
        <4>1. /\ local[q].g \in Grants /\ RevokeOk(q) /\ PlaceOk(q)
              /\ local[q].op = "revoke" /\ local[q].pc \in {"save", "write"}
                   => NoKeys(local[q].g) \/ faults = 1
          BY <1>1, LocalFields DEF EndInv, RevokedKeys, KeptInv, OperationsOk,
             PlacesOk
        <4> QED
          BY <1>1, <1>2, <1>4, <2>2, <2>3, <2>5, <2>6, <4>1 DEF NoKeys, RevokeOk,
             PlaceOk, Now, NowAt, OthersStay, diskVars, Unknown
      <3> QED
        BY <3>1, <3>2, <3>3 DEF EndInv
    <2> QED
      BY <2>7, <2>8, <2>9, <2>10, <2>11, <2>12, <2>13, <2>14, <2>15, <2>16, <2>17
         DEF KeptInv
  <1>6. CASE Goto(r, "done") /\ told' = [told EXCEPT ![g] = "failed"] /\ UNCHANGED <<keys, made>>
    <2>1. LocalsTyped' /\ NowAt(r, "done")
      <3>1. "done" \in Places
        BY DEF Places
      <3> QED
        BY <1>1, <1>6, <3>1, Goes
    <2>2. told' \in [Grants -> {"none", "granted", "failed", "ending", "revoked"}]
      BY <1>1, <1>2, <1>6 DEF TypeOK
    <2>3. /\ told'[g] = "failed"
          /\ \A h \in Grants \ {g} : told'[h] = told[h]
          /\ UNCHANGED <<keys, made>>
      BY <1>1, <1>2, <1>6 DEF TypeOK
    <2>4. TypeOK'
      BY <1>1, <2>1, <2>2, <2>3 DEF TypeOK, LocalsTyped, diskVars, startVars, bounds
    <2>5. PlacesOk'
      <3> SUFFICES ASSUME NEW q \in Requests
                      PROVE  PlaceOk(q)'
        BY DEF PlacesOk
      <3>1. PlaceOk(q) /\ PlaceOk(r)
        BY DEF KeptInv, PlacesOk
      <3> QED
        BY <1>1, <1>2, <1>4, <2>1, <2>3, <3>1 DEF PlaceOk, Now, NowAt, OthersStay,
           startVars
    <2>6. MemoryOk'
      BY <1>1, <1>2, <1>4, <2>1, <2>3 DEF KeptInv, MemoryOk, Named, NoRecord,
         startVars, Unknown
    <2>7. GensOk'
      BY <1>1, <1>2, <1>4, <2>1, <2>3 DEF KeptInv, GensOk, Named, NoRecord, Now,
         NowAt, OthersStay, diskVars
    <2>8. MintedOnce'
      BY <1>1, <1>2, <1>4, <2>1, <2>3, NowKeepsMinted DEF NowAt
    <2>9. UnpublishedIsUnknown'
      <3> SUFFICES ASSUME NEW h \in Grants, Unpublished(h)'
                      PROVE  Unknown(h)'
        BY DEF UnpublishedIsUnknown
      <3>1. Unpublished(h)
        BY <1>1, <1>2, <1>4, <2>1, <2>3 DEF Unpublished, Creates, Now, NowAt,
           OthersStay
      <3>2. Unknown(h)
        BY <3>1 DEF KeptInv, UnpublishedIsUnknown
      <3> QED
        BY <1>1, <1>2, <1>4, <2>1, <2>3, <3>1, <3>2 DEF Unpublished, Unknown,
           Creates, Now, NowAt, OthersStay, Named, NoRecord, diskVars
    <2>10. OperationsOk'
      <3> SUFFICES ASSUME NEW q \in Requests
                      PROVE  CreateOk(q)' /\ RevokeOk(q)'
        BY DEF OperationsOk
      <3>1. /\ CreateOk(q) /\ RevokeOk(q) /\ PlaceOk(q) /\ PlaceOk(r)
            /\ local[q].g \in Grants /\ MintedOnce
        BY <1>1, LocalFields DEF KeptInv, OperationsOk, PlacesOk
      <3>2. CreateOk(q)'
        BY <1>1, <1>2, <1>4, <2>1, <2>3, <3>1 DEF CreateOk, MintedOnce, Creates,
           PlaceOk, KeyIsThere, Alike, Now, NowAt, OthersStay, Named, NoRecord,
           diskVars, startVars, Unknown
      <3>3. RevokeOk(q)'
        BY <1>1, <1>2, <1>4, <2>1, <2>3, <3>1 DEF RevokeOk, PlaceOk, Now, NowAt,
           OthersStay, Named, NoRecord, diskVars, startVars, Unknown
      <3> QED
        BY <3>2, <3>3
    <2>11. GrantedOk'
      <3> SUFFICES ASSUME NEW h \in Grants, told'[h] = "granted"
                      PROVE  /\ KeyIsThere(ledger[h], h)'
                             /\ (phase = "up" /\ loaded => Alike(standing[h], ledger[h]))'
                             /\ \A q \in Requests :
                                  (local[q].pc = "write" /\ loaded
                                     => Alike(local[q].snap[h], standing[h]))'
        BY DEF GrantedOk
      <3>1. told[h] = "granted" =>
                /\ KeyIsThere(ledger[h], h)
                /\ phase = "up" /\ loaded => Alike(standing[h], ledger[h])
                /\ \A q \in Requests :
                     local[q].pc = "write" /\ loaded => Alike(local[q].snap[h], standing[h])
        BY DEF KeptInv, GrantedOk
      <3> QED
        BY <1>1, <1>2, <1>4, <2>1, <2>3, <3>1 DEF KeyIsThere, Alike, Now, NowAt,
           OthersStay, Named, NoRecord, diskVars, startVars, Unknown
    <2>12. LedgerOwed'
      BY <1>1, <1>2, <1>4, <2>1, <2>3 DEF KeptInv, LedgerOwed, Owing, Alike, Now,
         NowAt, OthersStay, diskVars, startVars, PlacesOk, PlaceOk
    <2>13. StartOk' /\ CleanStart' /\ FaultsOk'
      BY <1>1, <1>2, <1>4, <2>1, <2>3, UpKeepsStart DEF TypeOK
    <2>14. KeepsEnd
      <3> SUFFICES ASSUME MaxFaults <= 1, EndInv
                      PROVE  EndInv'
        BY DEF KeepsEnd
      <3>1. Spent'
        BY <1>1, <1>2, <1>4, <2>1, <2>3 DEF EndInv, Spent, startVars, Unknown
      <3>2. EndedOk'
        <4> SUFFICES ASSUME NEW h \in Grants, Ended(h)'
                        PROVE  /\ (cached[h] = 0)'
                               /\ Unrecorded(h)' \/ (NoKeys(h) /\ faults = 1)'
          BY DEF EndedOk
        <4>1. Ended(h) => /\ cached[h] = 0
                          /\ Unrecorded(h) \/ (NoKeys(h) /\ faults = 1)
          BY DEF EndInv, EndedOk
        <4> QED
          BY <1>1, <1>2, <1>4, <2>1, <2>3, <4>1 DEF Ended, Unrecorded, NoKeys, Now,
             NowAt, OthersStay, Named, NoRecord, diskVars, Unknown
      <3>3. RevokedKeys'
        <4> SUFFICES ASSUME NEW q \in Requests,
                               (local[q].op = "revoke" /\ local[q].pc \in {"save", "write"})'
                        PROVE  (NoKeys(local[q].g) \/ faults = 1)'
          BY DEF RevokedKeys
        <4>1. /\ local[q].g \in Grants /\ RevokeOk(q) /\ PlaceOk(q)
              /\ local[q].op = "revoke" /\ local[q].pc \in {"save", "write"}
                   => NoKeys(local[q].g) \/ faults = 1
          BY <1>1, LocalFields DEF EndInv, RevokedKeys, KeptInv, OperationsOk,
             PlacesOk
        <4> QED
          BY <1>1, <1>2, <1>4, <2>1, <2>3, <4>1 DEF NoKeys, RevokeOk, PlaceOk, Now,
             NowAt, OthersStay, diskVars, Unknown
      <3> QED
        BY <3>1, <3>2, <3>3 DEF EndInv
    <2> QED
      BY <2>4, <2>5, <2>6, <2>7, <2>8, <2>9, <2>10, <2>11, <2>12, <2>13, <2>14
         DEF KeptInv
  <1> QED
    BY <1>1, <1>5, <1>6 DEF CreateKey

LEMMA CreateSealKeeps ==
  ASSUME KeptInv, NEW r \in Requests, CreateSeal(r)
  PROVE  KeptInv' /\ KeepsEnd
  <1> DEFINE g == local[r].g
  <1>1. /\ phase = "up" /\ local[r].pc = "seal" /\ TypeOK
        /\ UNCHANGED <<ledger, made, vaultKind, phase, startVars, standing,
                       cached, dead, ledgerMu, dirty, saveFailed, bounds>>
    BY DEF CreateSeal, At, KeptInv
  <1>2. g \in Grants /\ Kinds \in SUBSET Kinds
    BY <1>1, LocalFields
  <1>3. Unpublished(g) /\ Unknown(g) /\ local[r].op = "create"
    BY <1>1, <1>2 DEF KeptInv, UnpublishedIsUnknown, Unpublished, MintedOnce,
       Creates, PlacesOk, PlaceOk
  <1>4. CASE Goto(r, "publish") /\ UNCHANGED <<keys, told, faults>>
    <2>1. LocalsTyped' /\ NowAt(r, "publish")
      <3>1. "publish" \in Places
        BY DEF Places
      <3> QED
        BY <1>1, <1>4, <3>1, Goes
    <2>2. TypeOK'
      BY <1>1, <1>2, <1>3, <1>4, <2>1 DEF TypeOK, LocalsTyped, diskVars, startVars,
         bounds
    <2>3. PlacesOk'
      <3> SUFFICES ASSUME NEW q \in Requests
                      PROVE  PlaceOk(q)'
        BY DEF PlacesOk
      <3>1. PlaceOk(q) /\ PlaceOk(r)
        BY DEF KeptInv, PlacesOk
      <3> QED
        BY <1>1, <1>2, <1>3, <1>4, <2>1, <3>1 DEF PlaceOk, Now, NowAt, OthersStay,
           startVars
    <2>4. MemoryOk'
      BY <1>1, <1>2, <1>3, <1>4, <2>1 DEF KeptInv, MemoryOk, Named, NoRecord,
         startVars
    <2>5. GensOk'
      BY <1>1, <1>2, <1>3, <1>4, <2>1 DEF KeptInv, GensOk, Named, NoRecord, Now,
         NowAt, OthersStay, diskVars
    <2>6. MintedOnce'
      BY <1>1, <1>2, <1>3, <1>4, <2>1, NowKeepsMinted DEF NowAt
    <2>7. UnpublishedIsUnknown'
      <3> SUFFICES ASSUME NEW h \in Grants, Unpublished(h)'
                      PROVE  Unknown(h)'
        BY DEF UnpublishedIsUnknown
      <3>1. Unpublished(h)
        BY <1>1, <1>2, <1>3, <1>4, <2>1 DEF Unpublished, Creates, Now, NowAt,
           OthersStay
      <3>2. Unknown(h)
        BY <3>1 DEF KeptInv, UnpublishedIsUnknown
      <3> QED
        BY <1>1, <1>2, <1>3, <1>4, <2>1, <3>1, <3>2 DEF Unpublished, Unknown,
           Creates, Now, NowAt, OthersStay, Named, NoRecord, diskVars
    <2>8. OperationsOk'
      <3> SUFFICES ASSUME NEW q \in Requests
                      PROVE  CreateOk(q)' /\ RevokeOk(q)'
        BY DEF OperationsOk
      <3>1. /\ CreateOk(q) /\ RevokeOk(q) /\ PlaceOk(q) /\ PlaceOk(r)
            /\ local[q].g \in Grants /\ MintedOnce
        BY <1>1, LocalFields DEF KeptInv, OperationsOk, PlacesOk
      <3>2. CreateOk(q)'
        BY <1>1, <1>2, <1>3, <1>4, <2>1, <3>1 DEF CreateOk, MintedOnce, Creates,
           PlaceOk, KeyIsThere, Alike, Now, NowAt, OthersStay, Named, NoRecord,
           diskVars, startVars
      <3>3. RevokeOk(q)'
        BY <1>1, <1>2, <1>3, <1>4, <2>1, <3>1 DEF RevokeOk, PlaceOk, Now, NowAt,
           OthersStay, Named, NoRecord, diskVars, startVars
      <3> QED
        BY <3>2, <3>3
    <2>9. GrantedOk'
      <3> SUFFICES ASSUME NEW h \in Grants, told'[h] = "granted"
                      PROVE  /\ KeyIsThere(ledger[h], h)'
                             /\ (phase = "up" /\ loaded => Alike(standing[h], ledger[h]))'
                             /\ \A q \in Requests :
                                  (local[q].pc = "write" /\ loaded
                                     => Alike(local[q].snap[h], standing[h]))'
        BY DEF GrantedOk
      <3>1. told[h] = "granted" =>
                /\ KeyIsThere(ledger[h], h)
                /\ phase = "up" /\ loaded => Alike(standing[h], ledger[h])
                /\ \A q \in Requests :
                     local[q].pc = "write" /\ loaded => Alike(local[q].snap[h], standing[h])
        BY DEF KeptInv, GrantedOk
      <3> QED
        BY <1>1, <1>2, <1>3, <1>4, <2>1, <3>1 DEF KeyIsThere, Alike, Now, NowAt,
           OthersStay, Named, NoRecord, diskVars, startVars
    <2>10. LedgerOwed'
      BY <1>1, <1>2, <1>3, <1>4, <2>1 DEF KeptInv, LedgerOwed, Owing, Alike, Now,
         NowAt, OthersStay, diskVars, startVars, PlacesOk, PlaceOk
    <2>11. StartOk' /\ CleanStart' /\ FaultsOk'
      BY <1>1, <1>2, <1>3, <1>4, <2>1, UpKeepsStart DEF TypeOK
    <2>12. KeepsEnd
      <3> SUFFICES ASSUME MaxFaults <= 1, EndInv
                      PROVE  EndInv'
        BY DEF KeepsEnd
      <3>1. Spent'
        BY <1>1, <1>2, <1>3, <1>4, <2>1 DEF EndInv, Spent, startVars
      <3>2. EndedOk'
        <4> SUFFICES ASSUME NEW h \in Grants, Ended(h)'
                        PROVE  /\ (cached[h] = 0)'
                               /\ Unrecorded(h)' \/ (NoKeys(h) /\ faults = 1)'
          BY DEF EndedOk
        <4>1. Ended(h) => /\ cached[h] = 0
                          /\ Unrecorded(h) \/ (NoKeys(h) /\ faults = 1)
          BY DEF EndInv, EndedOk
        <4> QED
          BY <1>1, <1>2, <1>3, <1>4, <2>1, <4>1 DEF Ended, Unrecorded, NoKeys, Now,
             NowAt, OthersStay, Named, NoRecord, diskVars
      <3>3. RevokedKeys'
        <4> SUFFICES ASSUME NEW q \in Requests,
                               (local[q].op = "revoke" /\ local[q].pc \in {"save", "write"})'
                        PROVE  (NoKeys(local[q].g) \/ faults = 1)'
          BY DEF RevokedKeys
        <4>1. /\ local[q].g \in Grants /\ RevokeOk(q) /\ PlaceOk(q)
              /\ local[q].op = "revoke" /\ local[q].pc \in {"save", "write"}
                   => NoKeys(local[q].g) \/ faults = 1
          BY <1>1, LocalFields DEF EndInv, RevokedKeys, KeptInv, OperationsOk,
             PlacesOk
        <4> QED
          BY <1>1, <1>2, <1>3, <1>4, <2>1, <4>1 DEF NoKeys, RevokeOk, PlaceOk, Now,
             NowAt, OthersStay, diskVars
      <3> QED
        BY <3>1, <3>2, <3>3 DEF EndInv
    <2> QED
      BY <2>2, <2>3, <2>4, <2>5, <2>6, <2>7, <2>8, <2>9, <2>10, <2>11, <2>12
         DEF KeptInv
  <1>5. CASE DeleteKeys(g, Kinds) /\ Goto(r, "done") /\ told' = [told EXCEPT ![g] = "failed"]
    <2>1. LocalsTyped' /\ NowAt(r, "done")
      <3>1. "done" \in Places
        BY DEF Places
      <3> QED
        BY <1>1, <1>5, <3>1, Goes
    <2>2. keys' \in [Grants -> [Kinds -> Nat]] /\ faults' \in 0 .. MaxFaults
      BY <1>1, <1>2, <1>5, Deletes, StandingBoundsAssumption DEF TypeOK
    <2>3. /\ faults <= faults' /\ faults' <= MaxFaults /\ MaxFaults \in Nat /\ faults \in Nat
          /\ faults' \in Nat
          /\ \A h \in Grants \ {g} : keys'[h] = keys[h]
          /\ \A k \in Kinds : keys'[g][k] \in {0, keys[g][k]}
      BY <1>1, <1>2, <1>5, Deletes, StandingBoundsAssumption DEF TypeOK
    <2>4. told' \in [Grants -> {"none", "granted", "failed", "ending", "revoked"}]
      BY <1>1, <1>2, <1>5 DEF TypeOK
    <2>5. /\ told'[g] = "failed"
          /\ \A h \in Grants \ {g} : told'[h] = told[h]
      BY <1>1, <1>2, <1>5 DEF TypeOK
    <2>6. TypeOK'
      BY <1>1, <2>1, <2>2, <2>4 DEF TypeOK, LocalsTyped, diskVars, startVars, bounds
    <2>7. PlacesOk'
      <3> SUFFICES ASSUME NEW q \in Requests
                      PROVE  PlaceOk(q)'
        BY DEF PlacesOk
      <3>1. PlaceOk(q) /\ PlaceOk(r)
        BY DEF KeptInv, PlacesOk
      <3> QED
        BY <1>1, <1>2, <1>3, <2>1, <2>3, <2>5, <3>1 DEF PlaceOk, Now, NowAt,
           OthersStay, startVars
    <2>8. MemoryOk'
      BY <1>1, <1>2, <1>3, <2>1, <2>3, <2>5 DEF KeptInv, MemoryOk, Named, NoRecord,
         startVars, Unknown
    <2>9. GensOk'
      BY <1>1, <1>2, <1>3, <2>1, <2>3, <2>5 DEF KeptInv, GensOk, Named, NoRecord,
         Now, NowAt, OthersStay, diskVars
    <2>10. MintedOnce'
      BY <1>1, <1>2, <1>3, <2>1, <2>3, <2>5, NowKeepsMinted DEF NowAt
    <2>11. UnpublishedIsUnknown'
      <3> SUFFICES ASSUME NEW h \in Grants, Unpublished(h)'
                      PROVE  Unknown(h)'
        BY DEF UnpublishedIsUnknown
      <3>1. Unpublished(h)
        BY <1>1, <1>2, <1>3, <2>1, <2>3, <2>5 DEF Unpublished, Creates, Now, NowAt,
           OthersStay
      <3>2. Unknown(h)
        BY <3>1 DEF KeptInv, UnpublishedIsUnknown
      <3> QED
        BY <1>1, <1>2, <1>3, <2>1, <2>3, <2>5, <3>1, <3>2 DEF Unpublished, Unknown,
           Creates, Now, NowAt, OthersStay, Named, NoRecord, diskVars
    <2>12. OperationsOk'
      <3> SUFFICES ASSUME NEW q \in Requests
                      PROVE  CreateOk(q)' /\ RevokeOk(q)'
        BY DEF OperationsOk
      <3>1. /\ CreateOk(q) /\ RevokeOk(q) /\ PlaceOk(q) /\ PlaceOk(r)
            /\ local[q].g \in Grants /\ MintedOnce
        BY <1>1, LocalFields DEF KeptInv, OperationsOk, PlacesOk
      <3>2. CreateOk(q)'
        BY <1>1, <1>2, <1>3, <2>1, <2>3, <2>5, <3>1 DEF CreateOk, MintedOnce,
           Creates, PlaceOk, KeyIsThere, Alike, Now, NowAt, OthersStay, Named,
           NoRecord, diskVars, startVars, Unknown
      <3>3. RevokeOk(q)'
        BY <1>1, <1>2, <1>3, <2>1, <2>3, <2>5, <3>1 DEF RevokeOk, PlaceOk, Now,
           NowAt, OthersStay, Named, NoRecord, diskVars, startVars, Unknown
      <3> QED
        BY <3>2, <3>3
    <2>13. GrantedOk'
      <3> SUFFICES ASSUME NEW h \in Grants, told'[h] = "granted"
                      PROVE  /\ KeyIsThere(ledger[h], h)'
                             /\ (phase = "up" /\ loaded => Alike(standing[h], ledger[h]))'
                             /\ \A q \in Requests :
                                  (local[q].pc = "write" /\ loaded
                                     => Alike(local[q].snap[h], standing[h]))'
        BY DEF GrantedOk
      <3>1. told[h] = "granted" =>
                /\ KeyIsThere(ledger[h], h)
                /\ phase = "up" /\ loaded => Alike(standing[h], ledger[h])
                /\ \A q \in Requests :
                     local[q].pc = "write" /\ loaded => Alike(local[q].snap[h], standing[h])
        BY DEF KeptInv, GrantedOk
      <3> QED
        BY <1>1, <1>2, <1>3, <2>1, <2>3, <2>5, <3>1 DEF KeyIsThere, Alike, Now,
           NowAt, OthersStay, Named, NoRecord, diskVars, startVars, Unknown
    <2>14. LedgerOwed'
      BY <1>1, <1>2, <1>3, <2>1, <2>3, <2>5 DEF KeptInv, LedgerOwed, Owing, Alike,
         Now, NowAt, OthersStay, diskVars, startVars, PlacesOk, PlaceOk
    <2>15. StartOk' /\ CleanStart' /\ FaultsOk'
      BY <1>1, <1>2, <1>3, <2>1, <2>3, <2>5, UpKeepsStart DEF TypeOK
    <2>16. KeepsEnd
      <3> SUFFICES ASSUME MaxFaults <= 1, EndInv
                      PROVE  EndInv'
        BY DEF KeepsEnd
      <3>1. Spent'
        BY <1>1, <1>2, <1>3, <2>1, <2>3, <2>5 DEF EndInv, Spent, startVars, Unknown
      <3>2. EndedOk'
        <4> SUFFICES ASSUME NEW h \in Grants, Ended(h)'
                        PROVE  /\ (cached[h] = 0)'
                               /\ Unrecorded(h)' \/ (NoKeys(h) /\ faults = 1)'
          BY DEF EndedOk
        <4>1. Ended(h) => /\ cached[h] = 0
                          /\ Unrecorded(h) \/ (NoKeys(h) /\ faults = 1)
          BY DEF EndInv, EndedOk
        <4> QED
          BY <1>1, <1>2, <1>3, <2>1, <2>3, <2>5, <4>1 DEF Ended, Unrecorded, NoKeys,
             Now, NowAt, OthersStay, Named, NoRecord, diskVars, Unknown
      <3>3. RevokedKeys'
        <4> SUFFICES ASSUME NEW q \in Requests,
                               (local[q].op = "revoke" /\ local[q].pc \in {"save", "write"})'
                        PROVE  (NoKeys(local[q].g) \/ faults = 1)'
          BY DEF RevokedKeys
        <4>1. /\ local[q].g \in Grants /\ RevokeOk(q) /\ PlaceOk(q)
              /\ local[q].op = "revoke" /\ local[q].pc \in {"save", "write"}
                   => NoKeys(local[q].g) \/ faults = 1
          BY <1>1, LocalFields DEF EndInv, RevokedKeys, KeptInv, OperationsOk,
             PlacesOk
        <4> QED
          BY <1>1, <1>2, <1>3, <2>1, <2>3, <2>5, <4>1 DEF NoKeys, RevokeOk, PlaceOk,
             Now, NowAt, OthersStay, diskVars, Unknown
      <3> QED
        BY <3>1, <3>2, <3>3 DEF EndInv
    <2> QED
      BY <2>6, <2>7, <2>8, <2>9, <2>10, <2>11, <2>12, <2>13, <2>14, <2>15, <2>16
         DEF KeptInv
  <1> QED
    BY <1>1, <1>4, <1>5 DEF CreateSeal

LEMMA CreatePublishKeeps ==
  ASSUME KeptInv, NEW r \in Requests, CreatePublish(r)
  PROVE  KeptInv' /\ KeepsEnd
  <1> DEFINE g == local[r].g
  <1>1. /\ phase = "up" /\ local[r].pc = "publish" /\ TypeOK
        /\ UNCHANGED <<diskVars, vaultKind, phase, startVars, dead, ledgerMu,
                       dirty, told, saveFailed, bounds, faults>>
    BY DEF CreatePublish, At, KeptInv
  <1>2. g \in Grants /\ local[r].sealed \in Record /\ local[r].sealed.gen \in Nat
    BY <1>1, LocalFields DEF Record
  <1>3. /\ Unpublished(g) /\ Unknown(g) /\ local[r].op = "create" /\ loaded
        /\ local[r].sealed.wrap # "none" /\ local[r].sealed.gen # 0
    BY <1>1, <1>2 DEF KeptInv, UnpublishedIsUnknown, Unpublished, MintedOnce,
       Creates, PlacesOk, PlaceOk, GensOk
  <1>4. LocalsTyped' /\ NowAt(r, "save")
    <2>1. "save" \in Places /\ Goto(r, "save")
      BY <1>1 DEF CreatePublish, Places
    <2> QED
      BY <1>1, <2>1, Goes
  <1>5. standing' \in [Grants -> Record] /\ cached' \in [Grants -> Nat]
    BY <1>1, <1>2 DEF CreatePublish, TypeOK
  <1>6. /\ standing'[g] = local[r].sealed /\ cached'[g] = local[r].sealed.gen
        /\ \A h \in Grants \ {g} : standing'[h] = standing[h] /\ cached'[h] = cached[h]
    BY <1>1, <1>2 DEF CreatePublish, TypeOK
  <1>7. TypeOK'
    BY <1>1, <1>4, <1>5 DEF TypeOK, LocalsTyped, diskVars, startVars, bounds
  <1>8. PlacesOk'
    <2> SUFFICES ASSUME NEW q \in Requests
                    PROVE  PlaceOk(q)'
      BY DEF PlacesOk
    <2>1. PlaceOk(q) /\ PlaceOk(r)
      BY DEF KeptInv, PlacesOk
    <2> QED
      BY <1>1, <1>2, <1>3, <1>4, <1>6, <2>1 DEF PlaceOk, Now, NowAt, OthersStay,
         startVars
  <1>9. MemoryOk'
    <2>1. (phase = "up" /\ loaded)'
      BY <1>1, <1>3 DEF startVars
    <2>2. \A h \in dead : h \in Grants \ {g} /\ cached[h] = 0
      BY <1>1, <1>2, <1>3 DEF Unknown, KeptInv, MemoryOk, TypeOK
    <2> QED
      BY <1>1, <1>6, <2>1, <2>2 DEF MemoryOk
  <1>10. GensOk'
    BY <1>1, <1>2, <1>3, <1>4, <1>6 DEF KeptInv, GensOk, Named, NoRecord, Now,
       NowAt, OthersStay, diskVars
  <1>11. MintedOnce'
    BY <1>1, <1>2, <1>3, <1>4, <1>6, NowKeepsMinted DEF NowAt
  <1>12. UnpublishedIsUnknown'
    <2> SUFFICES ASSUME NEW h \in Grants, Unpublished(h)'
                    PROVE  Unknown(h)'
      BY DEF UnpublishedIsUnknown
    <2>1. Unpublished(h)
      BY <1>1, <1>2, <1>3, <1>4, <1>6 DEF Unpublished, Creates, Now, NowAt,
         OthersStay
    <2>2. Unknown(h)
      BY <2>1 DEF KeptInv, UnpublishedIsUnknown
    <2> QED
      BY <1>1, <1>2, <1>3, <1>4, <1>6, <2>1, <2>2 DEF Unpublished, Unknown, Creates,
         Now, NowAt, OthersStay, Named, NoRecord, diskVars
  <1>13. OperationsOk'
    <2> SUFFICES ASSUME NEW q \in Requests
                    PROVE  CreateOk(q)' /\ RevokeOk(q)'
      BY DEF OperationsOk
    <2>1. /\ CreateOk(q) /\ RevokeOk(q) /\ PlaceOk(q) /\ PlaceOk(r)
          /\ local[q].g \in Grants /\ MintedOnce
      BY <1>1, LocalFields DEF KeptInv, OperationsOk, PlacesOk
    <2>2. CreateOk(q)'
      BY <1>1, <1>2, <1>3, <1>4, <1>6, <2>1 DEF CreateOk, MintedOnce, Creates,
         PlaceOk, KeyIsThere, Alike, Now, NowAt, OthersStay, Named, NoRecord,
         diskVars, startVars, Unknown
    <2>3. RevokeOk(q)'
      BY <1>1, <1>2, <1>3, <1>4, <1>6, <2>1 DEF RevokeOk, PlaceOk, Now, NowAt,
         OthersStay, Named, NoRecord, diskVars, startVars, Unknown
    <2> QED
      BY <2>2, <2>3
  <1>14. GrantedOk'
    <2> SUFFICES ASSUME NEW h \in Grants, told'[h] = "granted"
                    PROVE  /\ KeyIsThere(ledger[h], h)'
                           /\ (phase = "up" /\ loaded => Alike(standing[h], ledger[h]))'
                           /\ \A q \in Requests :
                                (local[q].pc = "write" /\ loaded
                                   => Alike(local[q].snap[h], standing[h]))'
      BY DEF GrantedOk
    <2>1. told[h] = "granted" =>
              /\ KeyIsThere(ledger[h], h)
              /\ phase = "up" /\ loaded => Alike(standing[h], ledger[h])
              /\ \A q \in Requests :
                   local[q].pc = "write" /\ loaded => Alike(local[q].snap[h], standing[h])
      BY DEF KeptInv, GrantedOk
    <2> QED
      BY <1>1, <1>2, <1>3, <1>4, <1>6, <2>1 DEF KeyIsThere, Alike, Now, NowAt,
         OthersStay, Named, NoRecord, diskVars, startVars, Unknown
  <1>15. LedgerOwed'
    BY <1>1, <1>2, <1>3, <1>4, <1>6 DEF KeptInv, LedgerOwed, Owing, Alike, Now,
       NowAt, OthersStay, diskVars, startVars, PlacesOk, PlaceOk
  <1>16. StartOk' /\ CleanStart' /\ FaultsOk'
    BY <1>1, <1>2, <1>3, <1>4, <1>6, UpKeepsStart DEF TypeOK
  <1>17. KeepsEnd
    <2> SUFFICES ASSUME MaxFaults <= 1, EndInv
                    PROVE  EndInv'
      BY DEF KeepsEnd
    <2>1. Spent'
      BY <1>1, <1>2, <1>3, <1>4, <1>6 DEF EndInv, Spent, startVars, Unknown
    <2>2. EndedOk'
      <3> SUFFICES ASSUME NEW h \in Grants, Ended(h)'
                      PROVE  /\ (cached[h] = 0)'
                             /\ Unrecorded(h)' \/ (NoKeys(h) /\ faults = 1)'
        BY DEF EndedOk
      <3>1. Ended(h) => /\ cached[h] = 0
                        /\ Unrecorded(h) \/ (NoKeys(h) /\ faults = 1)
        BY DEF EndInv, EndedOk
      <3> QED
        BY <1>1, <1>2, <1>3, <1>4, <1>6, <3>1 DEF Ended, Unrecorded, NoKeys, Now,
           NowAt, OthersStay, Named, NoRecord, diskVars, Unknown
    <2>3. RevokedKeys'
      <3> SUFFICES ASSUME NEW q \in Requests,
                             (local[q].op = "revoke" /\ local[q].pc \in {"save", "write"})'
                      PROVE  (NoKeys(local[q].g) \/ faults = 1)'
        BY DEF RevokedKeys
      <3>1. /\ local[q].g \in Grants /\ RevokeOk(q) /\ PlaceOk(q)
            /\ local[q].op = "revoke" /\ local[q].pc \in {"save", "write"}
                 => NoKeys(local[q].g) \/ faults = 1
        BY <1>1, LocalFields DEF EndInv, RevokedKeys, KeptInv, OperationsOk,
           PlacesOk
      <3> QED
        BY <1>1, <1>2, <1>3, <1>4, <1>6, <3>1 DEF NoKeys, RevokeOk, PlaceOk, Now,
           NowAt, OthersStay, diskVars, Unknown
    <2> QED
      BY <2>1, <2>2, <2>3 DEF EndInv
  <1> QED
    BY <1>7, <1>8, <1>9, <1>10, <1>11, <1>12, <1>13, <1>14, <1>15, <1>16, <1>17
       DEF KeptInv

LEMMA CreateUnpublishKeeps ==
  ASSUME KeptInv, NEW r \in Requests, CreateUnpublish(r)
  PROVE  KeptInv' /\ KeepsEnd
  <1> DEFINE g == local[r].g
  <1>1. /\ phase = "up" /\ local[r].pc = "unpublish" /\ TypeOK
        /\ UNCHANGED <<diskVars, vaultKind, phase, startVars, cached, dead,
                       ledgerMu, dirty, told, saveFailed, bounds, faults>>
    BY DEF CreateUnpublish, At, KeptInv
  <1>2. g \in Grants /\ local[r].op = "create" /\ saveFailed /\ told[g] # "granted"
    BY <1>1, LocalFields DEF KeptInv, PlacesOk, PlaceOk, OperationsOk, CreateOk
  <1>3. standing' \in [Grants -> Record]
    BY <1>1, <1>2 DEF CreateUnpublish, TypeOK, NoRecord, Record
  <1>4. /\ standing'[g].wrap = "none"
        /\ \A h \in Grants \ {g} : standing'[h] = standing[h]
    BY <1>1, <1>2 DEF CreateUnpublish, TypeOK, NoRecord, Record
  <1>5. LocalsTyped' /\ NowAt(r, "retire")
    <2>1. "retire" \in Places /\ Goto(r, "retire")
      BY <1>1 DEF CreateUnpublish, Places
    <2> QED
      BY <1>1, <2>1, Goes
  <1>6. TypeOK'
    BY <1>1, <1>3, <1>5 DEF TypeOK, LocalsTyped, diskVars, startVars, bounds
  <1>7. PlacesOk'
    <2> SUFFICES ASSUME NEW q \in Requests
                    PROVE  PlaceOk(q)'
      BY DEF PlacesOk
    <2>1. PlaceOk(q) /\ PlaceOk(r)
      BY DEF KeptInv, PlacesOk
    <2> QED
      BY <1>1, <1>2, <1>4, <1>5, <2>1 DEF PlaceOk, Now, NowAt, OthersStay, startVars
  <1>8. MemoryOk'
    BY <1>1, <1>2, <1>4, <1>5 DEF KeptInv, MemoryOk, Named, NoRecord, startVars
  <1>9. GensOk'
    BY <1>1, <1>2, <1>4, <1>5 DEF KeptInv, GensOk, Named, NoRecord, Now, NowAt,
       OthersStay, diskVars
  <1>10. MintedOnce'
    BY <1>1, <1>2, <1>4, <1>5, NowKeepsMinted DEF NowAt
  <1>11. UnpublishedIsUnknown'
    <2> SUFFICES ASSUME NEW h \in Grants, Unpublished(h)'
                    PROVE  Unknown(h)'
      BY DEF UnpublishedIsUnknown
    <2>1. Unpublished(h)
      BY <1>1, <1>2, <1>4, <1>5 DEF Unpublished, Creates, Now, NowAt, OthersStay
    <2>2. Unknown(h)
      BY <2>1 DEF KeptInv, UnpublishedIsUnknown
    <2> QED
      BY <1>1, <1>2, <1>4, <1>5, <2>1, <2>2 DEF Unpublished, Unknown, Creates, Now,
         NowAt, OthersStay, Named, NoRecord, diskVars
  <1>12. OperationsOk'
    <2> SUFFICES ASSUME NEW q \in Requests
                    PROVE  CreateOk(q)' /\ RevokeOk(q)'
      BY DEF OperationsOk
    <2>1. /\ CreateOk(q) /\ RevokeOk(q) /\ PlaceOk(q) /\ PlaceOk(r)
          /\ local[q].g \in Grants /\ MintedOnce
      BY <1>1, LocalFields DEF KeptInv, OperationsOk, PlacesOk
    <2>2. CreateOk(q)'
      BY <1>1, <1>2, <1>4, <1>5, <2>1 DEF CreateOk, MintedOnce, Creates, PlaceOk,
         KeyIsThere, Alike, Now, NowAt, OthersStay, Named, NoRecord, diskVars,
         startVars
    <2>3. RevokeOk(q)'
      BY <1>1, <1>2, <1>4, <1>5, <2>1 DEF RevokeOk, PlaceOk, Now, NowAt, OthersStay,
         Named, NoRecord, diskVars, startVars
    <2> QED
      BY <2>2, <2>3
  <1>13. GrantedOk'
    <2> SUFFICES ASSUME NEW h \in Grants, told'[h] = "granted"
                    PROVE  /\ KeyIsThere(ledger[h], h)'
                           /\ (phase = "up" /\ loaded => Alike(standing[h], ledger[h]))'
                           /\ \A q \in Requests :
                                (local[q].pc = "write" /\ loaded
                                   => Alike(local[q].snap[h], standing[h]))'
      BY DEF GrantedOk
    <2>1. told[h] = "granted" =>
              /\ KeyIsThere(ledger[h], h)
              /\ phase = "up" /\ loaded => Alike(standing[h], ledger[h])
              /\ \A q \in Requests :
                   local[q].pc = "write" /\ loaded => Alike(local[q].snap[h], standing[h])
      BY DEF KeptInv, GrantedOk
    <2> QED
      BY <1>1, <1>2, <1>4, <1>5, <2>1 DEF KeyIsThere, Alike, Now, NowAt, OthersStay,
         Named, NoRecord, diskVars, startVars
  <1>14. LedgerOwed'
    BY <1>1, <1>2, <1>4, <1>5 DEF KeptInv, LedgerOwed, Owing, Alike, Now, NowAt,
       OthersStay, diskVars, startVars, PlacesOk, PlaceOk
  <1>15. StartOk' /\ CleanStart' /\ FaultsOk'
    BY <1>1, <1>2, <1>4, <1>5, UpKeepsStart DEF TypeOK
  <1>16. KeepsEnd
    <2> SUFFICES ASSUME MaxFaults <= 1, EndInv
                    PROVE  EndInv'
      BY DEF KeepsEnd
    <2>1. Spent'
      BY <1>1, <1>2, <1>4, <1>5 DEF EndInv, Spent, startVars
    <2>2. EndedOk'
      <3> SUFFICES ASSUME NEW h \in Grants, Ended(h)'
                      PROVE  /\ (cached[h] = 0)'
                             /\ Unrecorded(h)' \/ (NoKeys(h) /\ faults = 1)'
        BY DEF EndedOk
      <3>1. Ended(h) => /\ cached[h] = 0
                        /\ Unrecorded(h) \/ (NoKeys(h) /\ faults = 1)
        BY DEF EndInv, EndedOk
      <3> QED
        BY <1>1, <1>2, <1>4, <1>5, <3>1 DEF Ended, Unrecorded, NoKeys, Now, NowAt,
           OthersStay, Named, NoRecord, diskVars
    <2>3. RevokedKeys'
      <3> SUFFICES ASSUME NEW q \in Requests,
                             (local[q].op = "revoke" /\ local[q].pc \in {"save", "write"})'
                      PROVE  (NoKeys(local[q].g) \/ faults = 1)'
        BY DEF RevokedKeys
      <3>1. /\ local[q].g \in Grants /\ RevokeOk(q) /\ PlaceOk(q)
            /\ local[q].op = "revoke" /\ local[q].pc \in {"save", "write"}
                 => NoKeys(local[q].g) \/ faults = 1
        BY <1>1, LocalFields DEF EndInv, RevokedKeys, KeptInv, OperationsOk,
           PlacesOk
      <3> QED
        BY <1>1, <1>2, <1>4, <1>5, <3>1 DEF NoKeys, RevokeOk, PlaceOk, Now, NowAt,
           OthersStay, diskVars
    <2> QED
      BY <2>1, <2>2, <2>3 DEF EndInv
  <1> QED
    BY <1>6, <1>7, <1>8, <1>9, <1>10, <1>11, <1>12, <1>13, <1>14, <1>15, <1>16
       DEF KeptInv

LEMMA SaveBeginKeeps ==
  ASSUME KeptInv, NEW r \in Requests, SaveBegin(r)
  PROVE  KeptInv' /\ KeepsEnd
  <1> DEFINE g == local[r].g
  <1>1. /\ phase = "up" /\ local[r].pc = "save" /\ TypeOK
        /\ UNCHANGED <<diskVars, vaultKind, phase, startVars, standing, cached,
                       dead, told, saveFailed, bounds, faults>>
    BY DEF SaveBegin, At, KeptInv
  <1>2. ledgerMu = NoOne /\ ledgerMu' = r /\ dirty' = FALSE /\ r # NoOne /\ local[r].g \in Grants
    BY <1>1, LocalFields, StandingNoOneAssumption DEF SaveBegin
  <1>3. LocalsTyped' /\ Now(r, "write", local[r].sealed, standing, local[r].left)
    <2>1. "write" \in Places /\ standing \in [Grants -> Record]
      BY <1>1 DEF Places, TypeOK
    <2>2. local' = [local EXCEPT ![r].pc = "write", ![r].snap = standing]
      BY DEF SaveBegin
    <2> QED
      BY <1>1, <2>1, <2>2, GoesSnapped
  <1>4. \A q \in Requests : local[q].pc # "write"
    BY <1>2, StandingNoOneAssumption DEF KeptInv, PlacesOk, PlaceOk
  <1>5. TypeOK'
    BY <1>1, <1>2, <1>3, <1>4 DEF TypeOK, LocalsTyped, diskVars, startVars, bounds
  <1>6. PlacesOk'
    <2> SUFFICES ASSUME NEW q \in Requests
                    PROVE  PlaceOk(q)'
      BY DEF PlacesOk
    <2>1. PlaceOk(q) /\ PlaceOk(r)
      BY DEF KeptInv, PlacesOk
    <2> QED
      BY <1>1, <1>2, <1>3, <1>4, <2>1 DEF PlaceOk, Now, NowAt, OthersStay, startVars
  <1>7. MemoryOk'
    BY <1>1, <1>2, <1>3, <1>4 DEF KeptInv, MemoryOk, Named, NoRecord, startVars
  <1>8. GensOk'
    BY <1>1, <1>2, <1>3, <1>4 DEF KeptInv, GensOk, Named, NoRecord, Now, NowAt,
       OthersStay, diskVars
  <1>9. MintedOnce'
    BY <1>1, <1>2, <1>3, <1>4, NowKeepsMinted DEF NowAt
  <1>10. UnpublishedIsUnknown'
    <2> SUFFICES ASSUME NEW h \in Grants, Unpublished(h)'
                    PROVE  Unknown(h)'
      BY DEF UnpublishedIsUnknown
    <2>1. Unpublished(h)
      BY <1>1, <1>2, <1>3, <1>4 DEF Unpublished, Creates, Now, NowAt, OthersStay
    <2>2. Unknown(h)
      BY <2>1 DEF KeptInv, UnpublishedIsUnknown
    <2> QED
      BY <1>1, <1>2, <1>3, <1>4, <2>1, <2>2 DEF Unpublished, Unknown, Creates, Now,
         NowAt, OthersStay, Named, NoRecord, diskVars
  <1>11. OperationsOk'
    <2> SUFFICES ASSUME NEW q \in Requests
                    PROVE  CreateOk(q)' /\ RevokeOk(q)'
      BY DEF OperationsOk
    <2>1. /\ CreateOk(q) /\ RevokeOk(q) /\ PlaceOk(q) /\ PlaceOk(r)
          /\ local[q].g \in Grants /\ MintedOnce
      BY <1>1, LocalFields DEF KeptInv, OperationsOk, PlacesOk
    <2>2. CreateOk(q)'
      BY <1>1, <1>2, <1>3, <1>4, <2>1 DEF CreateOk, MintedOnce, Creates, PlaceOk,
         KeyIsThere, Alike, Now, NowAt, OthersStay, Named, NoRecord, diskVars,
         startVars
    <2>3. RevokeOk(q)'
      BY <1>1, <1>2, <1>3, <1>4, <2>1 DEF RevokeOk, PlaceOk, Now, NowAt, OthersStay,
         Named, NoRecord, diskVars, startVars
    <2> QED
      BY <2>2, <2>3
  <1>12. GrantedOk'
    <2> SUFFICES ASSUME NEW h \in Grants, told'[h] = "granted"
                    PROVE  /\ KeyIsThere(ledger[h], h)'
                           /\ (phase = "up" /\ loaded => Alike(standing[h], ledger[h]))'
                           /\ \A q \in Requests :
                                (local[q].pc = "write" /\ loaded
                                   => Alike(local[q].snap[h], standing[h]))'
      BY DEF GrantedOk
    <2>1. told[h] = "granted" =>
              /\ KeyIsThere(ledger[h], h)
              /\ phase = "up" /\ loaded => Alike(standing[h], ledger[h])
              /\ \A q \in Requests :
                   local[q].pc = "write" /\ loaded => Alike(local[q].snap[h], standing[h])
      BY DEF KeptInv, GrantedOk
    <2> QED
      BY <1>1, <1>2, <1>3, <1>4, <2>1 DEF KeyIsThere, Alike, Now, NowAt, OthersStay,
         Named, NoRecord, diskVars, startVars
  <1>13. LedgerOwed'
    BY <1>1, <1>2, <1>3, <1>4 DEF KeptInv, LedgerOwed, Owing, Alike, Now, NowAt,
       OthersStay, diskVars, startVars, PlacesOk, PlaceOk
  <1>14. StartOk' /\ CleanStart' /\ FaultsOk'
    BY <1>1, <1>2, <1>3, <1>4, UpKeepsStart DEF TypeOK
  <1>15. KeepsEnd
    <2> SUFFICES ASSUME MaxFaults <= 1, EndInv
                    PROVE  EndInv'
      BY DEF KeepsEnd
    <2>1. Spent'
      BY <1>1, <1>2, <1>3, <1>4 DEF EndInv, Spent, startVars
    <2>2. EndedOk'
      <3> SUFFICES ASSUME NEW h \in Grants, Ended(h)'
                      PROVE  /\ (cached[h] = 0)'
                             /\ Unrecorded(h)' \/ (NoKeys(h) /\ faults = 1)'
        BY DEF EndedOk
      <3>1. Ended(h) => /\ cached[h] = 0
                        /\ Unrecorded(h) \/ (NoKeys(h) /\ faults = 1)
        BY DEF EndInv, EndedOk
      <3> QED
        BY <1>1, <1>2, <1>3, <1>4, <3>1 DEF Ended, Unrecorded, NoKeys, Now, NowAt,
           OthersStay, Named, NoRecord, diskVars
    <2>3. RevokedKeys'
      <3> SUFFICES ASSUME NEW q \in Requests,
                             (local[q].op = "revoke" /\ local[q].pc \in {"save", "write"})'
                      PROVE  (NoKeys(local[q].g) \/ faults = 1)'
        BY DEF RevokedKeys
      <3>1. /\ local[q].g \in Grants /\ RevokeOk(q) /\ PlaceOk(q)
            /\ local[q].op = "revoke" /\ local[q].pc \in {"save", "write"}
                 => NoKeys(local[q].g) \/ faults = 1
        BY <1>1, LocalFields DEF EndInv, RevokedKeys, KeptInv, OperationsOk,
           PlacesOk
      <3> QED
        BY <1>1, <1>2, <1>3, <1>4, <3>1 DEF NoKeys, RevokeOk, PlaceOk, Now, NowAt,
           OthersStay, diskVars
    <2> QED
      BY <2>1, <2>2, <2>3 DEF EndInv
  <1> QED
    BY <1>5, <1>6, <1>7, <1>8, <1>9, <1>10, <1>11, <1>12, <1>13, <1>14, <1>15
       DEF KeptInv

LEMMA RevokeRemoveKeeps ==
  ASSUME KeptInv, NEW r \in Requests, RevokeRemove(r)
  PROVE  KeptInv' /\ KeepsEnd
  <1> DEFINE g == local[r].g
  <1>1. /\ phase = "up" /\ local[r].pc = "remove" /\ TypeOK
        /\ UNCHANGED <<diskVars, vaultKind, phase, startVars, cached, dead,
                       ledgerMu, dirty, saveFailed, bounds, faults>>
    BY DEF RevokeRemove, At, KeptInv
  <1>2. g \in Grants /\ local[r].op = "revoke"
    BY <1>1, LocalFields DEF KeptInv, PlacesOk, PlaceOk
  <1>3. CASE g \in Named(standing)
    <2>1. /\ standing' = [standing EXCEPT ![g] = NoRecord]
          /\ told' = [told EXCEPT ![g] = "ending"] /\ Goto(r, "retire")
      BY <1>3 DEF RevokeRemove
    <2>2. LocalsTyped' /\ NowAt(r, "retire")
      <3>1. "retire" \in Places
        BY DEF Places
      <3> QED
        BY <1>1, <2>1, <3>1, Goes
    <2>3. standing' \in [Grants -> Record]
      BY <1>1, <2>1 DEF TypeOK, NoRecord, Record
    <2>4. told' \in [Grants -> {"none", "granted", "failed", "ending", "revoked"}]
      BY <1>1, <2>1 DEF TypeOK
    <2>5. /\ standing'[g].wrap = "none" /\ told'[g] = "ending"
          /\ \A h \in Grants \ {g} : standing'[h] = standing[h] /\ told'[h] = told[h]
      BY <1>1, <1>2, <2>1 DEF TypeOK, NoRecord
    <2>6. loaded = TRUE
      BY <1>1, <1>3 DEF KeptInv, MemoryOk, TypeOK
    <2>7. ~Unpublished(g)
      BY <1>2, <1>3 DEF KeptInv, UnpublishedIsUnknown, Unknown
    <2>8. TypeOK'
      BY <1>1, <2>2, <2>3, <2>4 DEF TypeOK, LocalsTyped, diskVars, startVars, bounds
    <2>9. PlacesOk'
      <3> SUFFICES ASSUME NEW q \in Requests
                      PROVE  PlaceOk(q)'
        BY DEF PlacesOk
      <3>1. PlaceOk(q) /\ PlaceOk(r)
        BY DEF KeptInv, PlacesOk
      <3> QED
        BY <1>1, <1>2, <2>2, <2>5, <2>7, <3>1 DEF PlaceOk, Now, NowAt, OthersStay,
           startVars
    <2>10. MemoryOk'
      BY <1>1, <1>2, <2>2, <2>5, <2>7 DEF KeptInv, MemoryOk, Named, NoRecord,
         startVars
    <2>11. GensOk'
      BY <1>1, <1>2, <2>2, <2>5, <2>7 DEF KeptInv, GensOk, Named, NoRecord, Now,
         NowAt, OthersStay, diskVars
    <2>12. MintedOnce'
      BY <1>1, <1>2, <2>2, <2>5, <2>7, NowKeepsMinted DEF NowAt
    <2>13. UnpublishedIsUnknown'
      <3> SUFFICES ASSUME NEW h \in Grants, Unpublished(h)'
                      PROVE  Unknown(h)'
        BY DEF UnpublishedIsUnknown
      <3>1. Unpublished(h)
        BY <1>1, <1>2, <2>2, <2>5, <2>7 DEF Unpublished, Creates, Now, NowAt,
           OthersStay
      <3>2. Unknown(h)
        BY <3>1 DEF KeptInv, UnpublishedIsUnknown
      <3> QED
        BY <1>1, <1>2, <2>2, <2>5, <2>7, <3>1, <3>2 DEF Unpublished, Unknown,
           Creates, Now, NowAt, OthersStay, Named, NoRecord, diskVars
    <2>14. OperationsOk'
      <3> SUFFICES ASSUME NEW q \in Requests
                      PROVE  CreateOk(q)' /\ RevokeOk(q)'
        BY DEF OperationsOk
      <3>1. /\ CreateOk(q) /\ RevokeOk(q) /\ PlaceOk(q) /\ PlaceOk(r)
            /\ local[q].g \in Grants /\ MintedOnce
        BY <1>1, LocalFields DEF KeptInv, OperationsOk, PlacesOk
      <3>2. CreateOk(q)'
        BY <1>1, <1>2, <2>2, <2>5, <2>7, <2>6, <3>1 DEF CreateOk, MintedOnce,
           Creates, PlaceOk, KeyIsThere, Alike, Now, NowAt, OthersStay, Named,
           NoRecord, diskVars, startVars
      <3>3. RevokeOk(q)'
        BY <1>1, <1>2, <2>2, <2>5, <2>7, <2>6, <3>1 DEF RevokeOk, PlaceOk, Now,
           NowAt, OthersStay, Named, NoRecord, diskVars, startVars
      <3> QED
        BY <3>2, <3>3
    <2>15. GrantedOk'
      <3> SUFFICES ASSUME NEW h \in Grants, told'[h] = "granted"
                      PROVE  /\ KeyIsThere(ledger[h], h)'
                             /\ (phase = "up" /\ loaded => Alike(standing[h], ledger[h]))'
                             /\ \A q \in Requests :
                                  (local[q].pc = "write" /\ loaded
                                     => Alike(local[q].snap[h], standing[h]))'
        BY DEF GrantedOk
      <3>1. told[h] = "granted" =>
                /\ KeyIsThere(ledger[h], h)
                /\ phase = "up" /\ loaded => Alike(standing[h], ledger[h])
                /\ \A q \in Requests :
                     local[q].pc = "write" /\ loaded => Alike(local[q].snap[h], standing[h])
        BY DEF KeptInv, GrantedOk
      <3> QED
        BY <1>1, <1>2, <2>2, <2>5, <2>7, <3>1 DEF KeyIsThere, Alike, Now, NowAt,
           OthersStay, Named, NoRecord, diskVars, startVars
    <2>16. LedgerOwed'
      BY <1>1, <1>2, <2>2, <2>5, <2>7 DEF KeptInv, LedgerOwed, Owing, Alike, Now,
         NowAt, OthersStay, diskVars, startVars, PlacesOk, PlaceOk
    <2>17. StartOk' /\ CleanStart' /\ FaultsOk'
      BY <1>1, <1>2, <2>2, <2>5, <2>7, UpKeepsStart DEF TypeOK
    <2>18. KeepsEnd
      <3> SUFFICES ASSUME MaxFaults <= 1, EndInv
                      PROVE  EndInv'
        BY DEF KeepsEnd
      <3>1. Spent'
        BY <1>1, <1>2, <2>2, <2>5, <2>7 DEF EndInv, Spent, startVars
      <3>2. EndedOk'
        <4> SUFFICES ASSUME NEW h \in Grants, Ended(h)'
                        PROVE  /\ (cached[h] = 0)'
                               /\ Unrecorded(h)' \/ (NoKeys(h) /\ faults = 1)'
          BY DEF EndedOk
        <4>1. Ended(h) => /\ cached[h] = 0
                          /\ Unrecorded(h) \/ (NoKeys(h) /\ faults = 1)
          BY DEF EndInv, EndedOk
        <4> QED
          BY <1>1, <1>2, <2>2, <2>5, <2>7, <4>1 DEF Ended, Unrecorded, NoKeys, Now,
             NowAt, OthersStay, Named, NoRecord, diskVars
      <3>3. RevokedKeys'
        <4> SUFFICES ASSUME NEW q \in Requests,
                               (local[q].op = "revoke" /\ local[q].pc \in {"save", "write"})'
                        PROVE  (NoKeys(local[q].g) \/ faults = 1)'
          BY DEF RevokedKeys
        <4>1. /\ local[q].g \in Grants /\ RevokeOk(q) /\ PlaceOk(q)
              /\ local[q].op = "revoke" /\ local[q].pc \in {"save", "write"}
                   => NoKeys(local[q].g) \/ faults = 1
          BY <1>1, LocalFields DEF EndInv, RevokedKeys, KeptInv, OperationsOk,
             PlacesOk
        <4> QED
          BY <1>1, <1>2, <2>2, <2>5, <2>7, <4>1 DEF NoKeys, RevokeOk, PlaceOk, Now,
             NowAt, OthersStay, diskVars
      <3> QED
        BY <3>1, <3>2, <3>3 DEF EndInv
    <2> QED
      BY <2>8, <2>9, <2>10, <2>11, <2>12, <2>13, <2>14, <2>15, <2>16, <2>17, <2>18
         DEF KeptInv
  <1>4. CASE g \notin Named(standing)
    <2>1. Goto(r, "done") /\ UNCHANGED <<standing, told>>
      BY <1>4 DEF RevokeRemove
    <2>2. LocalsTyped' /\ NowAt(r, "done")
      <3>1. "done" \in Places
        BY DEF Places
      <3> QED
        BY <1>1, <2>1, <3>1, Goes
    <2>3. TypeOK'
      BY <1>1, <1>2, <2>1, <2>2 DEF TypeOK, LocalsTyped, diskVars, startVars, bounds
    <2>4. PlacesOk'
      <3> SUFFICES ASSUME NEW q \in Requests
                      PROVE  PlaceOk(q)'
        BY DEF PlacesOk
      <3>1. PlaceOk(q) /\ PlaceOk(r)
        BY DEF KeptInv, PlacesOk
      <3> QED
        BY <1>1, <1>2, <2>1, <2>2, <3>1 DEF PlaceOk, Now, NowAt, OthersStay,
           startVars
    <2>5. MemoryOk'
      BY <1>1, <1>2, <2>1, <2>2 DEF KeptInv, MemoryOk, Named, NoRecord, startVars
    <2>6. GensOk'
      BY <1>1, <1>2, <2>1, <2>2 DEF KeptInv, GensOk, Named, NoRecord, Now, NowAt,
         OthersStay, diskVars
    <2>7. MintedOnce'
      BY <1>1, <1>2, <2>1, <2>2, NowKeepsMinted DEF NowAt
    <2>8. UnpublishedIsUnknown'
      <3> SUFFICES ASSUME NEW h \in Grants, Unpublished(h)'
                      PROVE  Unknown(h)'
        BY DEF UnpublishedIsUnknown
      <3>1. Unpublished(h)
        BY <1>1, <1>2, <2>1, <2>2 DEF Unpublished, Creates, Now, NowAt, OthersStay
      <3>2. Unknown(h)
        BY <3>1 DEF KeptInv, UnpublishedIsUnknown
      <3> QED
        BY <1>1, <1>2, <2>1, <2>2, <3>1, <3>2 DEF Unpublished, Unknown, Creates,
           Now, NowAt, OthersStay, Named, NoRecord, diskVars
    <2>9. OperationsOk'
      <3> SUFFICES ASSUME NEW q \in Requests
                      PROVE  CreateOk(q)' /\ RevokeOk(q)'
        BY DEF OperationsOk
      <3>1. /\ CreateOk(q) /\ RevokeOk(q) /\ PlaceOk(q) /\ PlaceOk(r)
            /\ local[q].g \in Grants /\ MintedOnce
        BY <1>1, LocalFields DEF KeptInv, OperationsOk, PlacesOk
      <3>2. CreateOk(q)'
        BY <1>1, <1>2, <2>1, <2>2, <3>1 DEF CreateOk, MintedOnce, Creates, PlaceOk,
           KeyIsThere, Alike, Now, NowAt, OthersStay, Named, NoRecord, diskVars,
           startVars
      <3>3. RevokeOk(q)'
        BY <1>1, <1>2, <2>1, <2>2, <3>1 DEF RevokeOk, PlaceOk, Now, NowAt,
           OthersStay, Named, NoRecord, diskVars, startVars
      <3> QED
        BY <3>2, <3>3
    <2>10. GrantedOk'
      <3> SUFFICES ASSUME NEW h \in Grants, told'[h] = "granted"
                      PROVE  /\ KeyIsThere(ledger[h], h)'
                             /\ (phase = "up" /\ loaded => Alike(standing[h], ledger[h]))'
                             /\ \A q \in Requests :
                                  (local[q].pc = "write" /\ loaded
                                     => Alike(local[q].snap[h], standing[h]))'
        BY DEF GrantedOk
      <3>1. told[h] = "granted" =>
                /\ KeyIsThere(ledger[h], h)
                /\ phase = "up" /\ loaded => Alike(standing[h], ledger[h])
                /\ \A q \in Requests :
                     local[q].pc = "write" /\ loaded => Alike(local[q].snap[h], standing[h])
        BY DEF KeptInv, GrantedOk
      <3> QED
        BY <1>1, <1>2, <2>1, <2>2, <3>1 DEF KeyIsThere, Alike, Now, NowAt,
           OthersStay, Named, NoRecord, diskVars, startVars
    <2>11. LedgerOwed'
      BY <1>1, <1>2, <2>1, <2>2 DEF KeptInv, LedgerOwed, Owing, Alike, Now, NowAt,
         OthersStay, diskVars, startVars, PlacesOk, PlaceOk
    <2>12. StartOk' /\ CleanStart' /\ FaultsOk'
      BY <1>1, <1>2, <2>1, <2>2, UpKeepsStart DEF TypeOK
    <2>13. KeepsEnd
      <3> SUFFICES ASSUME MaxFaults <= 1, EndInv
                      PROVE  EndInv'
        BY DEF KeepsEnd
      <3>1. Spent'
        BY <1>1, <1>2, <2>1, <2>2 DEF EndInv, Spent, startVars
      <3>2. EndedOk'
        <4> SUFFICES ASSUME NEW h \in Grants, Ended(h)'
                        PROVE  /\ (cached[h] = 0)'
                               /\ Unrecorded(h)' \/ (NoKeys(h) /\ faults = 1)'
          BY DEF EndedOk
        <4>1. Ended(h) => /\ cached[h] = 0
                          /\ Unrecorded(h) \/ (NoKeys(h) /\ faults = 1)
          BY DEF EndInv, EndedOk
        <4> QED
          BY <1>1, <1>2, <2>1, <2>2, <4>1 DEF Ended, Unrecorded, NoKeys, Now, NowAt,
             OthersStay, Named, NoRecord, diskVars
      <3>3. RevokedKeys'
        <4> SUFFICES ASSUME NEW q \in Requests,
                               (local[q].op = "revoke" /\ local[q].pc \in {"save", "write"})'
                        PROVE  (NoKeys(local[q].g) \/ faults = 1)'
          BY DEF RevokedKeys
        <4>1. /\ local[q].g \in Grants /\ RevokeOk(q) /\ PlaceOk(q)
              /\ local[q].op = "revoke" /\ local[q].pc \in {"save", "write"}
                   => NoKeys(local[q].g) \/ faults = 1
          BY <1>1, LocalFields DEF EndInv, RevokedKeys, KeptInv, OperationsOk,
             PlacesOk
        <4> QED
          BY <1>1, <1>2, <2>1, <2>2, <4>1 DEF NoKeys, RevokeOk, PlaceOk, Now, NowAt,
             OthersStay, diskVars
      <3> QED
        BY <3>1, <3>2, <3>3 DEF EndInv
    <2> QED
      BY <2>3, <2>4, <2>5, <2>6, <2>7, <2>8, <2>9, <2>10, <2>11, <2>12, <2>13
         DEF KeptInv
  <1> QED
    BY <1>3, <1>4

LEMMA RetireKeeps ==
  ASSUME KeptInv, NEW r \in Requests, Retire(r)
  PROVE  KeptInv' /\ KeepsEnd
  <1> DEFINE g == local[r].g
  <1>1. /\ phase = "up" /\ local[r].pc = "retire" /\ TypeOK
        /\ UNCHANGED <<diskVars, vaultKind, phase, startVars, standing, ledgerMu,
                       dirty, told, saveFailed, bounds, faults>>
    BY DEF Retire, At, KeptInv
  <1>2. g \in Grants /\ local[r].op \in {"create", "revoke"} /\ ~(Unpublished(g))
    BY <1>1, LocalFields DEF KeptInv, PlacesOk, PlaceOk, OperationsOk, RevokeOk,
       CreateOk, Unpublished, Creates, UnpublishedIsUnknown, Unknown
  <1>3. LocalsTyped' /\ NowAt(r, "delete")
    <2>1. "delete" \in Places /\ Goto(r, "delete")
      BY <1>1 DEF Retire, Places
    <2> QED
      BY <1>1, <2>1, Goes
  <1>4. cached' \in [Grants -> Nat] /\ dead' \subseteq Grants
    BY <1>1, <1>2 DEF Retire, TypeOK
  <1>5. /\ cached'[g] = 0 /\ \A h \in Grants \ {g} : cached'[h] = cached[h]
        /\ dead' = dead \cup {g}
    BY <1>1, <1>2 DEF Retire, TypeOK
  <1>6. TypeOK'
    BY <1>1, <1>3, <1>4 DEF TypeOK, LocalsTyped, diskVars, startVars, bounds
  <1>7. PlacesOk'
    <2> SUFFICES ASSUME NEW q \in Requests
                    PROVE  PlaceOk(q)'
      BY DEF PlacesOk
    <2>1. PlaceOk(q) /\ PlaceOk(r)
      BY DEF KeptInv, PlacesOk
    <2> QED
      BY <1>1, <1>2, <1>3, <1>5, <2>1 DEF PlaceOk, Now, NowAt, OthersStay, startVars
  <1>8. MemoryOk'
    <2>1. \A h \in dead : h \in Grants /\ cached[h] = 0
      BY <1>1 DEF KeptInv, MemoryOk, TypeOK
    <2>2. (phase = "down" \/ ~loaded => Named(standing) = {})'
      BY <1>1 DEF KeptInv, MemoryOk, Named, startVars
    <2> QED
      BY <1>1, <1>2, <1>5, <2>1, <2>2 DEF MemoryOk
  <1>9. GensOk'
    BY <1>1, <1>2, <1>3, <1>5 DEF KeptInv, GensOk, Named, NoRecord, Now, NowAt,
       OthersStay, diskVars
  <1>10. MintedOnce'
    BY <1>1, <1>2, <1>3, <1>5, NowKeepsMinted DEF NowAt
  <1>11. UnpublishedIsUnknown'
    <2> SUFFICES ASSUME NEW h \in Grants, Unpublished(h)'
                    PROVE  Unknown(h)'
      BY DEF UnpublishedIsUnknown
    <2>1. Unpublished(h)
      BY <1>1, <1>2, <1>3, <1>5 DEF Unpublished, Creates, Now, NowAt, OthersStay
    <2>2. Unknown(h)
      BY <2>1 DEF KeptInv, UnpublishedIsUnknown
    <2> QED
      BY <1>1, <1>2, <1>3, <1>5, <2>1, <2>2 DEF Unpublished, Unknown, Creates, Now,
         NowAt, OthersStay, Named, NoRecord, diskVars
  <1>12. OperationsOk'
    <2> SUFFICES ASSUME NEW q \in Requests
                    PROVE  CreateOk(q)' /\ RevokeOk(q)'
      BY DEF OperationsOk
    <2>1. /\ CreateOk(q) /\ RevokeOk(q) /\ PlaceOk(q) /\ PlaceOk(r)
          /\ local[q].g \in Grants /\ MintedOnce
      BY <1>1, LocalFields DEF KeptInv, OperationsOk, PlacesOk
    <2>2. CreateOk(q)'
      BY <1>1, <1>2, <1>3, <1>5, <2>1 DEF CreateOk, MintedOnce, Creates, PlaceOk,
         KeyIsThere, Alike, Now, NowAt, OthersStay, Named, NoRecord, diskVars,
         startVars
    <2>3. RevokeOk(q)'
      BY <1>1, <1>2, <1>3, <1>5, <2>1 DEF RevokeOk, PlaceOk, Now, NowAt, OthersStay,
         Named, NoRecord, diskVars, startVars
    <2> QED
      BY <2>2, <2>3
  <1>13. GrantedOk'
    <2> SUFFICES ASSUME NEW h \in Grants, told'[h] = "granted"
                    PROVE  /\ KeyIsThere(ledger[h], h)'
                           /\ (phase = "up" /\ loaded => Alike(standing[h], ledger[h]))'
                           /\ \A q \in Requests :
                                (local[q].pc = "write" /\ loaded
                                   => Alike(local[q].snap[h], standing[h]))'
      BY DEF GrantedOk
    <2>1. told[h] = "granted" =>
              /\ KeyIsThere(ledger[h], h)
              /\ phase = "up" /\ loaded => Alike(standing[h], ledger[h])
              /\ \A q \in Requests :
                   local[q].pc = "write" /\ loaded => Alike(local[q].snap[h], standing[h])
      BY DEF KeptInv, GrantedOk
    <2> QED
      BY <1>1, <1>2, <1>3, <1>5, <2>1 DEF KeyIsThere, Alike, Now, NowAt, OthersStay,
         Named, NoRecord, diskVars, startVars
  <1>14. LedgerOwed'
    BY <1>1, <1>2, <1>3, <1>5 DEF KeptInv, LedgerOwed, Owing, Alike, Now, NowAt,
       OthersStay, diskVars, startVars, PlacesOk, PlaceOk
  <1>15. StartOk' /\ CleanStart' /\ FaultsOk'
    BY <1>1, <1>2, <1>3, <1>5, UpKeepsStart DEF TypeOK
  <1>16. KeepsEnd
    <2> SUFFICES ASSUME MaxFaults <= 1, EndInv
                    PROVE  EndInv'
      BY DEF KeepsEnd
    <2>1. Spent'
      BY <1>1, <1>2, <1>3, <1>5 DEF EndInv, Spent, startVars
    <2>2. EndedOk'
      <3> SUFFICES ASSUME NEW h \in Grants, Ended(h)'
                      PROVE  /\ (cached[h] = 0)'
                             /\ Unrecorded(h)' \/ (NoKeys(h) /\ faults = 1)'
        BY DEF EndedOk
      <3>1. Ended(h) => /\ cached[h] = 0
                        /\ Unrecorded(h) \/ (NoKeys(h) /\ faults = 1)
        BY DEF EndInv, EndedOk
      <3> QED
        BY <1>1, <1>2, <1>3, <1>5, <3>1 DEF Ended, Unrecorded, NoKeys, Now, NowAt,
           OthersStay, Named, NoRecord, diskVars
    <2>3. RevokedKeys'
      <3> SUFFICES ASSUME NEW q \in Requests,
                             (local[q].op = "revoke" /\ local[q].pc \in {"save", "write"})'
                      PROVE  (NoKeys(local[q].g) \/ faults = 1)'
        BY DEF RevokedKeys
      <3>1. /\ local[q].g \in Grants /\ RevokeOk(q) /\ PlaceOk(q)
            /\ local[q].op = "revoke" /\ local[q].pc \in {"save", "write"}
                 => NoKeys(local[q].g) \/ faults = 1
        BY <1>1, LocalFields DEF EndInv, RevokedKeys, KeptInv, OperationsOk,
           PlacesOk
      <3> QED
        BY <1>1, <1>2, <1>3, <1>5, <3>1 DEF NoKeys, RevokeOk, PlaceOk, Now, NowAt,
           OthersStay, diskVars
    <2> QED
      BY <2>1, <2>2, <2>3 DEF EndInv
  <1> QED
    BY <1>6, <1>7, <1>8, <1>9, <1>10, <1>11, <1>12, <1>13, <1>14, <1>15, <1>16
       DEF KeptInv

LEMMA DeleteKeyKeeps ==
  ASSUME KeptInv, NEW r \in Requests, DeleteKey(r)
  PROVE  KeptInv' /\ KeepsEnd
  <1> DEFINE g == local[r].g
  <1>1. /\ phase = "up" /\ local[r].pc = "delete" /\ TypeOK
        /\ UNCHANGED <<ledger, made, vaultKind, phase, startVars, standing,
                       cached, dead, ledgerMu, dirty, saveFailed, bounds>>
    BY DEF DeleteKey, At, KeptInv
  <1>2. g \in Grants /\ local[r].op \in {"create", "revoke"} /\ Kinds \in SUBSET Kinds
    BY <1>1, LocalFields DEF KeptInv, PlacesOk, PlaceOk
  <1>3. keys' \in [Grants -> [Kinds -> Nat]] /\ faults' \in 0 .. MaxFaults
    BY <1>1, <1>2, Deletes DEF DeleteKey
  <1>4. /\ faults <= faults' /\ faults' <= MaxFaults /\ MaxFaults \in Nat /\ faults \in Nat
        /\ faults' \in Nat
        /\ \A h \in Grants \ {g} : keys'[h] = keys[h]
        /\ \A k \in Kinds : keys'[g][k] \in {0, keys[g][k]}
    BY <1>1, <1>2, Deletes, StandingBoundsAssumption DEF DeleteKey, TypeOK
  <1>5. told[g] # "granted" /\ g \in dead /\ ~Unpublished(g)
    BY <1>1, <1>2 DEF KeptInv, OperationsOk, RevokeOk, CreateOk,
       UnpublishedIsUnknown, Unknown
  <1>6. /\ \A q \in Requests : Creates(q, g) => local[q].pc \notin {"seal", "publish"}
        /\ local[r].op = "revoke" => told[g] # "none"
    BY <1>1, <1>2, <1>5 DEF KeptInv, OperationsOk, RevokeOk, Unpublished,
       MintedOnce, Creates
  <1> DEFINE KeysGone == \A k \in Kinds : keys'[g][k] = 0
  <1>7. MaxFaults <= 1 /\ EndInv =>
          /\ KeysGone \/ faults' = 1
          /\ saveFailed => KeysGone /\ faults' = 1
    <2> SUFFICES ASSUME MaxFaults <= 1, EndInv
                 PROVE  /\ KeysGone \/ faults' = 1
                        /\ saveFailed => KeysGone /\ faults' = 1
      OBVIOUS
    <2>1. faults' = faults => \A k \in Kinds : keys'[g][k] # 0 => ~Reachable(k)
      BY <1>1, <1>2, Deletes DEF DeleteKey
    <2>2. reach = FALSE => faults >= 1
      BY <1>4 DEF EndInv, Spent
    <2>3. saveFailed = TRUE => faults >= 1 /\ reach = TRUE
      BY <1>1, <1>4 DEF EndInv, Spent, TypeOK
    <2>4. reach \in BOOLEAN /\ saveFailed \in BOOLEAN
      BY <1>1 DEF TypeOK
    <2>5. faults' = faults \/ faults' = 1
      BY <1>4
    <2>6. faults >= 1 => faults' = 1 /\ faults' = faults
      BY <1>4
    <2>7. CASE reach = TRUE
      <3>1. faults' = faults => KeysGone
        BY <2>1, <2>7 DEF Reachable
      <3> QED
        BY <2>3, <2>4, <2>5, <2>6, <3>1
    <2>8. CASE reach = FALSE
      BY <2>2, <2>3, <2>4, <2>6, <2>8
    <2> QED
      BY <2>4, <2>7, <2>8
  <1>8. CASE local[r].op = "create"
    <2>1. told' = [told EXCEPT ![g] = "failed"] /\ Goto(r, "done")
      BY <1>8 DEF DeleteKey
    <2>2. LocalsTyped' /\ NowAt(r, "done")
      <3>1. "done" \in Places
        BY DEF Places
      <3> QED
        BY <1>1, <2>1, <3>1, Goes
    <2>3. told' \in [Grants -> {"none", "granted", "failed", "ending", "revoked"}]
      BY <1>1, <2>1 DEF TypeOK
    <2>4. /\ told'[g] = "failed"
          /\ \A h \in Grants \ {g} : told'[h] = told[h]
      BY <1>1, <1>2, <2>1 DEF TypeOK
    <2>5. saveFailed = TRUE /\ cached[g] = 0
      BY <1>1, <1>2, <1>5, <1>8 DEF KeptInv, OperationsOk, CreateOk, MemoryOk,
         TypeOK
    <2>6. TypeOK'
      BY <1>1, <1>3, <2>2, <2>3 DEF TypeOK, LocalsTyped, diskVars, startVars, bounds
    <2>7. PlacesOk'
      <3> SUFFICES ASSUME NEW q \in Requests
                      PROVE  PlaceOk(q)'
        BY DEF PlacesOk
      <3>1. PlaceOk(q) /\ PlaceOk(r)
        BY DEF KeptInv, PlacesOk
      <3> QED
        BY <1>1, <1>2, <1>4, <1>5, <1>6, <1>8, <2>2, <2>4, <2>5, <3>1 DEF PlaceOk,
           Now, NowAt, OthersStay, startVars
    <2>8. MemoryOk'
      BY <1>1, <1>2, <1>4, <1>5, <1>6, <1>8, <2>2, <2>4, <2>5 DEF KeptInv, MemoryOk,
         Named, NoRecord, startVars
    <2>9. GensOk'
      BY <1>1, <1>2, <1>4, <1>5, <1>6, <1>8, <2>2, <2>4, <2>5 DEF KeptInv, GensOk,
         Named, NoRecord, Now, NowAt, OthersStay, diskVars
    <2>10. MintedOnce'
      BY <1>1, <1>2, <1>4, <1>5, <1>6, <1>8, <2>2, <2>4, <2>5, NowKeepsMinted
         DEF NowAt
    <2>11. UnpublishedIsUnknown'
      <3> SUFFICES ASSUME NEW h \in Grants, Unpublished(h)'
                      PROVE  Unknown(h)'
        BY DEF UnpublishedIsUnknown
      <3>1. Unpublished(h)
        BY <1>1, <1>2, <1>4, <1>5, <1>6, <1>8, <2>2, <2>4, <2>5 DEF Unpublished,
           Creates, Now, NowAt, OthersStay
      <3>2. Unknown(h)
        BY <3>1 DEF KeptInv, UnpublishedIsUnknown
      <3> QED
        BY <1>1, <1>2, <1>4, <1>5, <1>6, <1>8, <2>2, <2>4, <2>5, <3>1, <3>2
           DEF Unpublished, Unknown, Creates, Now, NowAt, OthersStay, Named,
           NoRecord, diskVars
    <2>12. OperationsOk'
      <3> SUFFICES ASSUME NEW q \in Requests
                      PROVE  CreateOk(q)' /\ RevokeOk(q)'
        BY DEF OperationsOk
      <3>1. /\ CreateOk(q) /\ RevokeOk(q) /\ PlaceOk(q) /\ PlaceOk(r)
            /\ local[q].g \in Grants /\ MintedOnce
        BY <1>1, LocalFields DEF KeptInv, OperationsOk, PlacesOk
      <3>2. CreateOk(q)'
        BY <1>1, <1>2, <1>4, <1>5, <1>6, <1>8, <2>2, <2>4, <2>5, <3>1 DEF CreateOk,
           MintedOnce, Creates, PlaceOk, KeyIsThere, Alike, Now, NowAt, OthersStay,
           Named, NoRecord, diskVars, startVars
      <3>3. RevokeOk(q)'
        BY <1>1, <1>2, <1>4, <1>5, <1>6, <1>8, <2>2, <2>4, <2>5, <3>1 DEF RevokeOk,
           PlaceOk, Now, NowAt, OthersStay, Named, NoRecord, diskVars, startVars
      <3> QED
        BY <3>2, <3>3
    <2>13. GrantedOk'
      <3> SUFFICES ASSUME NEW h \in Grants, told'[h] = "granted"
                      PROVE  /\ KeyIsThere(ledger[h], h)'
                             /\ (phase = "up" /\ loaded => Alike(standing[h], ledger[h]))'
                             /\ \A q \in Requests :
                                  (local[q].pc = "write" /\ loaded
                                     => Alike(local[q].snap[h], standing[h]))'
        BY DEF GrantedOk
      <3>1. told[h] = "granted" =>
                /\ KeyIsThere(ledger[h], h)
                /\ phase = "up" /\ loaded => Alike(standing[h], ledger[h])
                /\ \A q \in Requests :
                     local[q].pc = "write" /\ loaded => Alike(local[q].snap[h], standing[h])
        BY DEF KeptInv, GrantedOk
      <3> QED
        BY <1>1, <1>2, <1>4, <1>5, <1>6, <1>8, <2>2, <2>4, <2>5, <3>1
           DEF KeyIsThere, Alike, Now, NowAt, OthersStay, Named, NoRecord, diskVars,
           startVars
    <2>14. LedgerOwed'
      BY <1>1, <1>2, <1>4, <1>5, <1>6, <1>8, <2>2, <2>4, <2>5 DEF KeptInv,
         LedgerOwed, Owing, Alike, Now, NowAt, OthersStay, diskVars, startVars,
         PlacesOk, PlaceOk
    <2>15. StartOk' /\ CleanStart' /\ FaultsOk'
      BY <1>1, <1>2, <1>4, <1>5, <1>6, <1>8, <2>2, <2>4, <2>5, UpKeepsStart
         DEF TypeOK
    <2>16. KeepsEnd
      <3> SUFFICES ASSUME MaxFaults <= 1, EndInv
                      PROVE  EndInv'
        BY DEF KeepsEnd
      <3>1. Spent'
        BY <1>1, <1>2, <1>4, <1>5, <1>6, <1>8, <2>2, <2>4, <2>5, <1>7 DEF EndInv,
           Spent, startVars
      <3>2. EndedOk'
        <4> SUFFICES ASSUME NEW h \in Grants, Ended(h)'
                        PROVE  /\ (cached[h] = 0)'
                               /\ Unrecorded(h)' \/ (NoKeys(h) /\ faults = 1)'
          BY DEF EndedOk
        <4>1. Ended(h) => /\ cached[h] = 0
                          /\ Unrecorded(h) \/ (NoKeys(h) /\ faults = 1)
          BY DEF EndInv, EndedOk
        <4> QED
          BY <1>1, <1>2, <1>4, <1>5, <1>6, <1>8, <2>2, <2>4, <2>5, <1>7, <4>1
             DEF Ended, Unrecorded, NoKeys, Now, NowAt, OthersStay, Named, NoRecord,
             diskVars
      <3>3. RevokedKeys'
        <4> SUFFICES ASSUME NEW q \in Requests,
                               (local[q].op = "revoke" /\ local[q].pc \in {"save", "write"})'
                        PROVE  (NoKeys(local[q].g) \/ faults = 1)'
          BY DEF RevokedKeys
        <4>1. /\ local[q].g \in Grants /\ RevokeOk(q) /\ PlaceOk(q)
              /\ local[q].op = "revoke" /\ local[q].pc \in {"save", "write"}
                   => NoKeys(local[q].g) \/ faults = 1
          BY <1>1, LocalFields DEF EndInv, RevokedKeys, KeptInv, OperationsOk,
             PlacesOk
        <4> QED
          BY <1>1, <1>2, <1>4, <1>5, <1>6, <1>8, <2>2, <2>4, <2>5, <1>7, <4>1
             DEF NoKeys, RevokeOk, PlaceOk, Now, NowAt, OthersStay, diskVars
      <3> QED
        BY <3>1, <3>2, <3>3 DEF EndInv
    <2> QED
      BY <2>6, <2>7, <2>8, <2>9, <2>10, <2>11, <2>12, <2>13, <2>14, <2>15, <2>16
         DEF KeptInv
  <1>9. CASE local[r].op = "revoke"
    <2>1. Goto(r, "save") /\ UNCHANGED told
      BY <1>9 DEF DeleteKey
    <2>2. LocalsTyped' /\ NowAt(r, "save")
      <3>1. "save" \in Places
        BY DEF Places
      <3> QED
        BY <1>1, <2>1, <3>1, Goes
    <2>3. TypeOK'
      BY <1>1, <1>3, <2>1, <2>2 DEF TypeOK, LocalsTyped, diskVars, startVars, bounds
    <2>4. PlacesOk'
      <3> SUFFICES ASSUME NEW q \in Requests
                      PROVE  PlaceOk(q)'
        BY DEF PlacesOk
      <3>1. PlaceOk(q) /\ PlaceOk(r)
        BY DEF KeptInv, PlacesOk
      <3> QED
        BY <1>1, <1>2, <1>4, <1>5, <1>6, <1>9, <2>1, <2>2, <3>1 DEF PlaceOk, Now,
           NowAt, OthersStay, startVars
    <2>5. MemoryOk'
      BY <1>1, <1>2, <1>4, <1>5, <1>6, <1>9, <2>1, <2>2 DEF KeptInv, MemoryOk,
         Named, NoRecord, startVars
    <2>6. GensOk'
      BY <1>1, <1>2, <1>4, <1>5, <1>6, <1>9, <2>1, <2>2 DEF KeptInv, GensOk, Named,
         NoRecord, Now, NowAt, OthersStay, diskVars
    <2>7. MintedOnce'
      BY <1>1, <1>2, <1>4, <1>5, <1>6, <1>9, <2>1, <2>2, NowKeepsMinted DEF NowAt
    <2>8. UnpublishedIsUnknown'
      <3> SUFFICES ASSUME NEW h \in Grants, Unpublished(h)'
                      PROVE  Unknown(h)'
        BY DEF UnpublishedIsUnknown
      <3>1. Unpublished(h)
        BY <1>1, <1>2, <1>4, <1>5, <1>6, <1>9, <2>1, <2>2 DEF Unpublished, Creates,
           Now, NowAt, OthersStay
      <3>2. Unknown(h)
        BY <3>1 DEF KeptInv, UnpublishedIsUnknown
      <3> QED
        BY <1>1, <1>2, <1>4, <1>5, <1>6, <1>9, <2>1, <2>2, <3>1, <3>2
           DEF Unpublished, Unknown, Creates, Now, NowAt, OthersStay, Named,
           NoRecord, diskVars
    <2>9. OperationsOk'
      <3> SUFFICES ASSUME NEW q \in Requests
                      PROVE  CreateOk(q)' /\ RevokeOk(q)'
        BY DEF OperationsOk
      <3>1. /\ CreateOk(q) /\ RevokeOk(q) /\ PlaceOk(q) /\ PlaceOk(r)
            /\ local[q].g \in Grants /\ MintedOnce
        BY <1>1, LocalFields DEF KeptInv, OperationsOk, PlacesOk
      <3>2. CreateOk(q)'
        BY <1>1, <1>2, <1>4, <1>5, <1>6, <1>9, <2>1, <2>2, <3>1 DEF CreateOk,
           MintedOnce, Creates, PlaceOk, KeyIsThere, Alike, Now, NowAt, OthersStay,
           Named, NoRecord, diskVars, startVars
      <3>3. RevokeOk(q)'
        BY <1>1, <1>2, <1>4, <1>5, <1>6, <1>9, <2>1, <2>2, <3>1 DEF RevokeOk,
           PlaceOk, Now, NowAt, OthersStay, Named, NoRecord, diskVars, startVars
      <3> QED
        BY <3>2, <3>3
    <2>10. GrantedOk'
      <3> SUFFICES ASSUME NEW h \in Grants, told'[h] = "granted"
                      PROVE  /\ KeyIsThere(ledger[h], h)'
                             /\ (phase = "up" /\ loaded => Alike(standing[h], ledger[h]))'
                             /\ \A q \in Requests :
                                  (local[q].pc = "write" /\ loaded
                                     => Alike(local[q].snap[h], standing[h]))'
        BY DEF GrantedOk
      <3>1. told[h] = "granted" =>
                /\ KeyIsThere(ledger[h], h)
                /\ phase = "up" /\ loaded => Alike(standing[h], ledger[h])
                /\ \A q \in Requests :
                     local[q].pc = "write" /\ loaded => Alike(local[q].snap[h], standing[h])
        BY DEF KeptInv, GrantedOk
      <3> QED
        BY <1>1, <1>2, <1>4, <1>5, <1>6, <1>9, <2>1, <2>2, <3>1 DEF KeyIsThere,
           Alike, Now, NowAt, OthersStay, Named, NoRecord, diskVars, startVars
    <2>11. LedgerOwed'
      BY <1>1, <1>2, <1>4, <1>5, <1>6, <1>9, <2>1, <2>2 DEF KeptInv, LedgerOwed,
         Owing, Alike, Now, NowAt, OthersStay, diskVars, startVars, PlacesOk,
         PlaceOk
    <2>12. StartOk' /\ CleanStart' /\ FaultsOk'
      BY <1>1, <1>2, <1>4, <1>5, <1>6, <1>9, <2>1, <2>2, UpKeepsStart DEF TypeOK
    <2>13. KeepsEnd
      <3> SUFFICES ASSUME MaxFaults <= 1, EndInv
                      PROVE  EndInv'
        BY DEF KeepsEnd
      <3>1. Spent'
        BY <1>1, <1>2, <1>4, <1>5, <1>6, <1>9, <2>1, <2>2, <1>7 DEF EndInv, Spent,
           startVars
      <3>2. EndedOk'
        <4> SUFFICES ASSUME NEW h \in Grants, Ended(h)'
                        PROVE  /\ (cached[h] = 0)'
                               /\ Unrecorded(h)' \/ (NoKeys(h) /\ faults = 1)'
          BY DEF EndedOk
        <4>1. Ended(h) => /\ cached[h] = 0
                          /\ Unrecorded(h) \/ (NoKeys(h) /\ faults = 1)
          BY DEF EndInv, EndedOk
        <4> QED
          BY <1>1, <1>2, <1>4, <1>5, <1>6, <1>9, <2>1, <2>2, <1>7, <4>1 DEF Ended,
             Unrecorded, NoKeys, Now, NowAt, OthersStay, Named, NoRecord, diskVars
      <3>3. RevokedKeys'
        <4> SUFFICES ASSUME NEW q \in Requests,
                               (local[q].op = "revoke" /\ local[q].pc \in {"save", "write"})'
                        PROVE  (NoKeys(local[q].g) \/ faults = 1)'
          BY DEF RevokedKeys
        <4>1. /\ local[q].g \in Grants /\ RevokeOk(q) /\ PlaceOk(q)
              /\ local[q].op = "revoke" /\ local[q].pc \in {"save", "write"}
                   => NoKeys(local[q].g) \/ faults = 1
          BY <1>1, LocalFields DEF EndInv, RevokedKeys, KeptInv, OperationsOk,
             PlacesOk
        <4> QED
          BY <1>1, <1>2, <1>4, <1>5, <1>6, <1>9, <2>1, <2>2, <1>7, <4>1 DEF NoKeys,
             RevokeOk, PlaceOk, Now, NowAt, OthersStay, diskVars
      <3> QED
        BY <3>1, <3>2, <3>3 DEF EndInv
    <2> QED
      BY <2>3, <2>4, <2>5, <2>6, <2>7, <2>8, <2>9, <2>10, <2>11, <2>12, <2>13
         DEF KeptInv
  <1> QED
    BY <1>2, <1>8, <1>9

LEMMA ServeCheckKeeps ==
  ASSUME KeptInv, NEW r \in Requests, ServeCheck(r)
  PROVE  KeptInv' /\ KeepsEnd
  <1> DEFINE g == local[r].g
  <1>1. /\ phase = "up" /\ local[r].pc = "check" /\ TypeOK
        /\ UNCHANGED <<diskVars, vaultKind, phase, startVars, standing, cached,
                       dead, ledgerMu, dirty, told, saveFailed, bounds, faults>>
    BY DEF ServeCheck, At, KeptInv
  <1>2. standing[g] \in Record /\ g \in Grants /\ local[r].op = "serve"
    BY <1>1, LocalFields DEF TypeOK, KeptInv, PlacesOk, PlaceOk
  <1>3. CASE g \in Named(standing)
    <2>1. LocalsTyped' /\ Now(r, "open", standing[g], local[r].snap, local[r].left)
      <3>1. "open" \in Places /\ local' = [local EXCEPT ![r].pc = "open", ![r].sealed = standing[g]]
        BY <1>3 DEF ServeCheck, Places
      <3> QED
        BY <1>1, <1>2, <3>1, GoesSealed
    <2>2. TypeOK'
      BY <1>1, <1>2, <1>3, <2>1 DEF TypeOK, LocalsTyped, diskVars, startVars, bounds
    <2>3. PlacesOk'
      <3> SUFFICES ASSUME NEW q \in Requests
                      PROVE  PlaceOk(q)'
        BY DEF PlacesOk
      <3>1. PlaceOk(q) /\ PlaceOk(r)
        BY DEF KeptInv, PlacesOk
      <3> QED
        BY <1>1, <1>2, <1>3, <2>1, <3>1 DEF PlaceOk, Now, NowAt, OthersStay,
           startVars
    <2>4. MemoryOk'
      BY <1>1, <1>2, <1>3, <2>1 DEF KeptInv, MemoryOk, Named, NoRecord, startVars
    <2>5. GensOk'
      BY <1>1, <1>2, <1>3, <2>1 DEF KeptInv, GensOk, Named, NoRecord, Now, NowAt,
         OthersStay, diskVars
    <2>6. MintedOnce'
      BY <1>1, <1>2, <1>3, <2>1, NowKeepsMinted DEF NowAt
    <2>7. UnpublishedIsUnknown'
      <3> SUFFICES ASSUME NEW h \in Grants, Unpublished(h)'
                      PROVE  Unknown(h)'
        BY DEF UnpublishedIsUnknown
      <3>1. Unpublished(h)
        BY <1>1, <1>2, <1>3, <2>1 DEF Unpublished, Creates, Now, NowAt, OthersStay
      <3>2. Unknown(h)
        BY <3>1 DEF KeptInv, UnpublishedIsUnknown
      <3> QED
        BY <1>1, <1>2, <1>3, <2>1, <3>1, <3>2 DEF Unpublished, Unknown, Creates,
           Now, NowAt, OthersStay, Named, NoRecord, diskVars
    <2>8. OperationsOk'
      <3> SUFFICES ASSUME NEW q \in Requests
                      PROVE  CreateOk(q)' /\ RevokeOk(q)'
        BY DEF OperationsOk
      <3>1. /\ CreateOk(q) /\ RevokeOk(q) /\ PlaceOk(q) /\ PlaceOk(r)
            /\ local[q].g \in Grants /\ MintedOnce
        BY <1>1, LocalFields DEF KeptInv, OperationsOk, PlacesOk
      <3>2. CreateOk(q)'
        BY <1>1, <1>2, <1>3, <2>1, <3>1 DEF CreateOk, MintedOnce, Creates, PlaceOk,
           KeyIsThere, Alike, Now, NowAt, OthersStay, Named, NoRecord, diskVars,
           startVars
      <3>3. RevokeOk(q)'
        BY <1>1, <1>2, <1>3, <2>1, <3>1 DEF RevokeOk, PlaceOk, Now, NowAt,
           OthersStay, Named, NoRecord, diskVars, startVars
      <3> QED
        BY <3>2, <3>3
    <2>9. GrantedOk'
      <3> SUFFICES ASSUME NEW h \in Grants, told'[h] = "granted"
                      PROVE  /\ KeyIsThere(ledger[h], h)'
                             /\ (phase = "up" /\ loaded => Alike(standing[h], ledger[h]))'
                             /\ \A q \in Requests :
                                  (local[q].pc = "write" /\ loaded
                                     => Alike(local[q].snap[h], standing[h]))'
        BY DEF GrantedOk
      <3>1. told[h] = "granted" =>
                /\ KeyIsThere(ledger[h], h)
                /\ phase = "up" /\ loaded => Alike(standing[h], ledger[h])
                /\ \A q \in Requests :
                     local[q].pc = "write" /\ loaded => Alike(local[q].snap[h], standing[h])
        BY DEF KeptInv, GrantedOk
      <3> QED
        BY <1>1, <1>2, <1>3, <2>1, <3>1 DEF KeyIsThere, Alike, Now, NowAt,
           OthersStay, Named, NoRecord, diskVars, startVars
    <2>10. LedgerOwed'
      BY <1>1, <1>2, <1>3, <2>1 DEF KeptInv, LedgerOwed, Owing, Alike, Now, NowAt,
         OthersStay, diskVars, startVars, PlacesOk, PlaceOk
    <2>11. StartOk' /\ CleanStart' /\ FaultsOk'
      BY <1>1, <1>2, <1>3, <2>1, UpKeepsStart DEF TypeOK
    <2>12. KeepsEnd
      <3> SUFFICES ASSUME MaxFaults <= 1, EndInv
                      PROVE  EndInv'
        BY DEF KeepsEnd
      <3>1. Spent'
        BY <1>1, <1>2, <1>3, <2>1 DEF EndInv, Spent, startVars
      <3>2. EndedOk'
        <4> SUFFICES ASSUME NEW h \in Grants, Ended(h)'
                        PROVE  /\ (cached[h] = 0)'
                               /\ Unrecorded(h)' \/ (NoKeys(h) /\ faults = 1)'
          BY DEF EndedOk
        <4>1. Ended(h) => /\ cached[h] = 0
                          /\ Unrecorded(h) \/ (NoKeys(h) /\ faults = 1)
          BY DEF EndInv, EndedOk
        <4> QED
          BY <1>1, <1>2, <1>3, <2>1, <4>1 DEF Ended, Unrecorded, NoKeys, Now, NowAt,
             OthersStay, Named, NoRecord, diskVars
      <3>3. RevokedKeys'
        <4> SUFFICES ASSUME NEW q \in Requests,
                               (local[q].op = "revoke" /\ local[q].pc \in {"save", "write"})'
                        PROVE  (NoKeys(local[q].g) \/ faults = 1)'
          BY DEF RevokedKeys
        <4>1. /\ local[q].g \in Grants /\ RevokeOk(q) /\ PlaceOk(q)
              /\ local[q].op = "revoke" /\ local[q].pc \in {"save", "write"}
                   => NoKeys(local[q].g) \/ faults = 1
          BY <1>1, LocalFields DEF EndInv, RevokedKeys, KeptInv, OperationsOk,
             PlacesOk
        <4> QED
          BY <1>1, <1>2, <1>3, <2>1, <4>1 DEF NoKeys, RevokeOk, PlaceOk, Now, NowAt,
             OthersStay, diskVars
      <3> QED
        BY <3>1, <3>2, <3>3 DEF EndInv
    <2> QED
      BY <2>2, <2>3, <2>4, <2>5, <2>6, <2>7, <2>8, <2>9, <2>10, <2>11, <2>12
         DEF KeptInv
  <1>4. CASE g \notin Named(standing)
    <2>1. LocalsTyped' /\ Now(r, "done", standing[g], local[r].snap, local[r].left)
      <3>1. "done" \in Places /\ local' = [local EXCEPT ![r].pc = "done", ![r].sealed = standing[g]]
        BY <1>4 DEF ServeCheck, Places
      <3> QED
        BY <1>1, <1>2, <3>1, GoesSealed
    <2>2. TypeOK'
      BY <1>1, <1>2, <2>1 DEF TypeOK, LocalsTyped, diskVars, startVars, bounds
    <2>3. PlacesOk'
      <3> SUFFICES ASSUME NEW q \in Requests
                      PROVE  PlaceOk(q)'
        BY DEF PlacesOk
      <3>1. PlaceOk(q) /\ PlaceOk(r)
        BY DEF KeptInv, PlacesOk
      <3> QED
        BY <1>1, <1>2, <2>1, <3>1 DEF PlaceOk, Now, NowAt, OthersStay, startVars
    <2>4. MemoryOk'
      BY <1>1, <1>2, <2>1 DEF KeptInv, MemoryOk, Named, NoRecord, startVars
    <2>5. GensOk'
      BY <1>1, <1>2, <2>1 DEF KeptInv, GensOk, Named, NoRecord, Now, NowAt,
         OthersStay, diskVars
    <2>6. MintedOnce'
      BY <1>1, <1>2, <2>1, NowKeepsMinted DEF NowAt
    <2>7. UnpublishedIsUnknown'
      <3> SUFFICES ASSUME NEW h \in Grants, Unpublished(h)'
                      PROVE  Unknown(h)'
        BY DEF UnpublishedIsUnknown
      <3>1. Unpublished(h)
        BY <1>1, <1>2, <2>1 DEF Unpublished, Creates, Now, NowAt, OthersStay
      <3>2. Unknown(h)
        BY <3>1 DEF KeptInv, UnpublishedIsUnknown
      <3> QED
        BY <1>1, <1>2, <2>1, <3>1, <3>2 DEF Unpublished, Unknown, Creates, Now,
           NowAt, OthersStay, Named, NoRecord, diskVars
    <2>8. OperationsOk'
      <3> SUFFICES ASSUME NEW q \in Requests
                      PROVE  CreateOk(q)' /\ RevokeOk(q)'
        BY DEF OperationsOk
      <3>1. /\ CreateOk(q) /\ RevokeOk(q) /\ PlaceOk(q) /\ PlaceOk(r)
            /\ local[q].g \in Grants /\ MintedOnce
        BY <1>1, LocalFields DEF KeptInv, OperationsOk, PlacesOk
      <3>2. CreateOk(q)'
        BY <1>1, <1>2, <2>1, <3>1 DEF CreateOk, MintedOnce, Creates, PlaceOk,
           KeyIsThere, Alike, Now, NowAt, OthersStay, Named, NoRecord, diskVars,
           startVars
      <3>3. RevokeOk(q)'
        BY <1>1, <1>2, <2>1, <3>1 DEF RevokeOk, PlaceOk, Now, NowAt, OthersStay,
           Named, NoRecord, diskVars, startVars
      <3> QED
        BY <3>2, <3>3
    <2>9. GrantedOk'
      <3> SUFFICES ASSUME NEW h \in Grants, told'[h] = "granted"
                      PROVE  /\ KeyIsThere(ledger[h], h)'
                             /\ (phase = "up" /\ loaded => Alike(standing[h], ledger[h]))'
                             /\ \A q \in Requests :
                                  (local[q].pc = "write" /\ loaded
                                     => Alike(local[q].snap[h], standing[h]))'
        BY DEF GrantedOk
      <3>1. told[h] = "granted" =>
                /\ KeyIsThere(ledger[h], h)
                /\ phase = "up" /\ loaded => Alike(standing[h], ledger[h])
                /\ \A q \in Requests :
                     local[q].pc = "write" /\ loaded => Alike(local[q].snap[h], standing[h])
        BY DEF KeptInv, GrantedOk
      <3> QED
        BY <1>1, <1>2, <2>1, <3>1 DEF KeyIsThere, Alike, Now, NowAt, OthersStay,
           Named, NoRecord, diskVars, startVars
    <2>10. LedgerOwed'
      BY <1>1, <1>2, <2>1 DEF KeptInv, LedgerOwed, Owing, Alike, Now, NowAt,
         OthersStay, diskVars, startVars, PlacesOk, PlaceOk
    <2>11. StartOk' /\ CleanStart' /\ FaultsOk'
      BY <1>1, <1>2, <2>1, UpKeepsStart DEF TypeOK
    <2>12. KeepsEnd
      <3> SUFFICES ASSUME MaxFaults <= 1, EndInv
                      PROVE  EndInv'
        BY DEF KeepsEnd
      <3>1. Spent'
        BY <1>1, <1>2, <2>1 DEF EndInv, Spent, startVars
      <3>2. EndedOk'
        <4> SUFFICES ASSUME NEW h \in Grants, Ended(h)'
                        PROVE  /\ (cached[h] = 0)'
                               /\ Unrecorded(h)' \/ (NoKeys(h) /\ faults = 1)'
          BY DEF EndedOk
        <4>1. Ended(h) => /\ cached[h] = 0
                          /\ Unrecorded(h) \/ (NoKeys(h) /\ faults = 1)
          BY DEF EndInv, EndedOk
        <4> QED
          BY <1>1, <1>2, <2>1, <4>1 DEF Ended, Unrecorded, NoKeys, Now, NowAt,
             OthersStay, Named, NoRecord, diskVars
      <3>3. RevokedKeys'
        <4> SUFFICES ASSUME NEW q \in Requests,
                               (local[q].op = "revoke" /\ local[q].pc \in {"save", "write"})'
                        PROVE  (NoKeys(local[q].g) \/ faults = 1)'
          BY DEF RevokedKeys
        <4>1. /\ local[q].g \in Grants /\ RevokeOk(q) /\ PlaceOk(q)
              /\ local[q].op = "revoke" /\ local[q].pc \in {"save", "write"}
                   => NoKeys(local[q].g) \/ faults = 1
          BY <1>1, LocalFields DEF EndInv, RevokedKeys, KeptInv, OperationsOk,
             PlacesOk
        <4> QED
          BY <1>1, <1>2, <2>1, <4>1 DEF NoKeys, RevokeOk, PlaceOk, Now, NowAt,
             OthersStay, diskVars
      <3> QED
        BY <3>1, <3>2, <3>3 DEF EndInv
    <2> QED
      BY <2>2, <2>3, <2>4, <2>5, <2>6, <2>7, <2>8, <2>9, <2>10, <2>11, <2>12
         DEF KeptInv
  <1> QED
    BY <1>3, <1>4

LEMMA ServeOpenKeeps ==
  ASSUME KeptInv, NEW r \in Requests, ServeOpen(r)
  PROVE  KeptInv' /\ KeepsEnd
  <1> DEFINE g == local[r].g
  <1>1. /\ phase = "up" /\ local[r].pc = "open" /\ TypeOK
        /\ UNCHANGED <<diskVars, vaultKind, phase, startVars, standing, dead,
                       ledgerMu, dirty, told, saveFailed, bounds, faults>>
    BY DEF ServeOpen, At, KeptInv
  <1>2. g \in Grants /\ local[r].op = "serve"
    BY <1>1, LocalFields DEF KeptInv, PlacesOk, PlaceOk
  <1> DEFINE sealed == local[r].sealed
             key == IF cached[g] # 0 THEN cached[g]
                    ELSE IF Reachable(sealed.wrap) THEN keys[g][sealed.wrap] ELSE 0
  <1>3. PICK p \in {"count", "done"} :
          /\ Goto(r, p)
          /\ \/ cached' = cached
             \/ g \notin dead /\ key # 0 /\ cached' = [cached EXCEPT ![g] = key]
    <2>1. \/ Goto(r, "done") /\ UNCHANGED cached
          \/ /\ g \notin dead /\ key # 0
             /\ cached' = [cached EXCEPT ![g] = key]
             /\ Goto(r, "count") \/ Goto(r, "done")
      BY DEF ServeOpen
    <2> HIDE DEF key
    <2> QED
      BY <2>1
  <1>4. LocalsTyped' /\ NowAt(r, p)
    <2>1. p \in Places
      BY DEF Places
    <2> QED
      BY <1>1, <1>3, <2>1, Goes
  <1>5. CASE cached' = cached
    <2>1. TypeOK'
      BY <1>1, <1>2, <1>4, <1>5 DEF TypeOK, LocalsTyped, diskVars, startVars, bounds
    <2>2. PlacesOk'
      <3> SUFFICES ASSUME NEW q \in Requests
                      PROVE  PlaceOk(q)'
        BY DEF PlacesOk
      <3>1. PlaceOk(q) /\ PlaceOk(r)
        BY DEF KeptInv, PlacesOk
      <3> QED
        BY <1>1, <1>2, <1>4, <1>5, <3>1 DEF PlaceOk, Now, NowAt, OthersStay,
           startVars
    <2>3. MemoryOk'
      BY <1>1, <1>2, <1>4, <1>5 DEF KeptInv, MemoryOk, Named, NoRecord, startVars
    <2>4. GensOk'
      BY <1>1, <1>2, <1>4, <1>5 DEF KeptInv, GensOk, Named, NoRecord, Now, NowAt,
         OthersStay, diskVars
    <2>5. MintedOnce'
      BY <1>1, <1>2, <1>4, <1>5, NowKeepsMinted DEF NowAt
    <2>6. UnpublishedIsUnknown'
      <3> SUFFICES ASSUME NEW h \in Grants, Unpublished(h)'
                      PROVE  Unknown(h)'
        BY DEF UnpublishedIsUnknown
      <3>1. Unpublished(h)
        BY <1>1, <1>2, <1>4, <1>5 DEF Unpublished, Creates, Now, NowAt, OthersStay
      <3>2. Unknown(h)
        BY <3>1 DEF KeptInv, UnpublishedIsUnknown
      <3> QED
        BY <1>1, <1>2, <1>4, <1>5, <3>1, <3>2 DEF Unpublished, Unknown, Creates,
           Now, NowAt, OthersStay, Named, NoRecord, diskVars
    <2>7. OperationsOk'
      <3> SUFFICES ASSUME NEW q \in Requests
                      PROVE  CreateOk(q)' /\ RevokeOk(q)'
        BY DEF OperationsOk
      <3>1. /\ CreateOk(q) /\ RevokeOk(q) /\ PlaceOk(q) /\ PlaceOk(r)
            /\ local[q].g \in Grants /\ MintedOnce
        BY <1>1, LocalFields DEF KeptInv, OperationsOk, PlacesOk
      <3>2. CreateOk(q)'
        BY <1>1, <1>2, <1>4, <1>5, <3>1 DEF CreateOk, MintedOnce, Creates, PlaceOk,
           KeyIsThere, Alike, Now, NowAt, OthersStay, Named, NoRecord, diskVars,
           startVars
      <3>3. RevokeOk(q)'
        BY <1>1, <1>2, <1>4, <1>5, <3>1 DEF RevokeOk, PlaceOk, Now, NowAt,
           OthersStay, Named, NoRecord, diskVars, startVars
      <3> QED
        BY <3>2, <3>3
    <2>8. GrantedOk'
      <3> SUFFICES ASSUME NEW h \in Grants, told'[h] = "granted"
                      PROVE  /\ KeyIsThere(ledger[h], h)'
                             /\ (phase = "up" /\ loaded => Alike(standing[h], ledger[h]))'
                             /\ \A q \in Requests :
                                  (local[q].pc = "write" /\ loaded
                                     => Alike(local[q].snap[h], standing[h]))'
        BY DEF GrantedOk
      <3>1. told[h] = "granted" =>
                /\ KeyIsThere(ledger[h], h)
                /\ phase = "up" /\ loaded => Alike(standing[h], ledger[h])
                /\ \A q \in Requests :
                     local[q].pc = "write" /\ loaded => Alike(local[q].snap[h], standing[h])
        BY DEF KeptInv, GrantedOk
      <3> QED
        BY <1>1, <1>2, <1>4, <1>5, <3>1 DEF KeyIsThere, Alike, Now, NowAt,
           OthersStay, Named, NoRecord, diskVars, startVars
    <2>9. LedgerOwed'
      BY <1>1, <1>2, <1>4, <1>5 DEF KeptInv, LedgerOwed, Owing, Alike, Now, NowAt,
         OthersStay, diskVars, startVars, PlacesOk, PlaceOk
    <2>10. StartOk' /\ CleanStart' /\ FaultsOk'
      BY <1>1, <1>2, <1>4, <1>5, UpKeepsStart DEF TypeOK
    <2>11. KeepsEnd
      <3> SUFFICES ASSUME MaxFaults <= 1, EndInv
                      PROVE  EndInv'
        BY DEF KeepsEnd
      <3>1. Spent'
        BY <1>1, <1>2, <1>4, <1>5 DEF EndInv, Spent, startVars
      <3>2. EndedOk'
        <4> SUFFICES ASSUME NEW h \in Grants, Ended(h)'
                        PROVE  /\ (cached[h] = 0)'
                               /\ Unrecorded(h)' \/ (NoKeys(h) /\ faults = 1)'
          BY DEF EndedOk
        <4>1. Ended(h) => /\ cached[h] = 0
                          /\ Unrecorded(h) \/ (NoKeys(h) /\ faults = 1)
          BY DEF EndInv, EndedOk
        <4> QED
          BY <1>1, <1>2, <1>4, <1>5, <4>1 DEF Ended, Unrecorded, NoKeys, Now, NowAt,
             OthersStay, Named, NoRecord, diskVars
      <3>3. RevokedKeys'
        <4> SUFFICES ASSUME NEW q \in Requests,
                               (local[q].op = "revoke" /\ local[q].pc \in {"save", "write"})'
                        PROVE  (NoKeys(local[q].g) \/ faults = 1)'
          BY DEF RevokedKeys
        <4>1. /\ local[q].g \in Grants /\ RevokeOk(q) /\ PlaceOk(q)
              /\ local[q].op = "revoke" /\ local[q].pc \in {"save", "write"}
                   => NoKeys(local[q].g) \/ faults = 1
          BY <1>1, LocalFields DEF EndInv, RevokedKeys, KeptInv, OperationsOk,
             PlacesOk
        <4> QED
          BY <1>1, <1>2, <1>4, <1>5, <4>1 DEF NoKeys, RevokeOk, PlaceOk, Now, NowAt,
             OthersStay, diskVars
      <3> QED
        BY <3>1, <3>2, <3>3 DEF EndInv
    <2> QED
      BY <2>1, <2>2, <2>3, <2>4, <2>5, <2>6, <2>7, <2>8, <2>9, <2>10, <2>11
         DEF KeptInv
  <1>6. CASE g \notin dead /\ key # 0 /\ cached' = [cached EXCEPT ![g] = key]
    <2>1. /\ sealed.wrap \in Kinds /\ keys[g][sealed.wrap] \in Nat
          /\ cached \in [Grants -> Nat] /\ key \in Nat
      BY <1>1, <1>2, LocalFields DEF TypeOK, KeptInv, GensOk, Record
    <2>2. cached' \in [Grants -> Nat]
      <3> HIDE DEF key
      <3> QED
        BY <1>2, <1>6, <2>1
    <2>3. g \notin dead /\ \A h \in Grants \ {g} : cached'[h] = cached[h]
      BY <1>6, <2>1
    <2>4. ~Unpublished(g)
      BY <1>1, <1>2 DEF KeptInv, UnpublishedIsUnknown, Unknown
    <2>5. Ended(g) => ~(MaxFaults <= 1 /\ EndInv)
      BY <1>1, <1>2, <1>6, <2>1 DEF EndInv, EndedOk, Unrecorded, NoKeys
    <2> HIDE DEF key
    <2>6. TypeOK'
      BY <1>1, <1>4, <2>2 DEF TypeOK, LocalsTyped, diskVars, startVars, bounds
    <2>7. PlacesOk'
      <3> SUFFICES ASSUME NEW q \in Requests
                      PROVE  PlaceOk(q)'
        BY DEF PlacesOk
      <3>1. PlaceOk(q) /\ PlaceOk(r)
        BY DEF KeptInv, PlacesOk
      <3> QED
        BY <1>1, <1>2, <1>4, <2>3, <2>4, <2>5, <3>1 DEF PlaceOk, Now, NowAt,
           OthersStay, startVars
    <2>8. MemoryOk'
      <3>1. \A h \in dead : h \in Grants /\ cached[h] = 0
        BY <1>1 DEF KeptInv, MemoryOk, TypeOK
      <3>2. (phase = "down" \/ ~loaded => Named(standing) = {})'
        BY <1>1 DEF KeptInv, MemoryOk, Named, startVars
      <3> QED
        BY <1>1, <2>3, <3>1, <3>2 DEF MemoryOk
    <2>9. GensOk'
      BY <1>1, <1>2, <1>4, <2>3, <2>4, <2>5 DEF KeptInv, GensOk, Named, NoRecord,
         Now, NowAt, OthersStay, diskVars
    <2>10. MintedOnce'
      BY <1>1, <1>2, <1>4, <2>3, <2>4, <2>5, NowKeepsMinted DEF NowAt
    <2>11. UnpublishedIsUnknown'
      <3> SUFFICES ASSUME NEW h \in Grants, Unpublished(h)'
                      PROVE  Unknown(h)'
        BY DEF UnpublishedIsUnknown
      <3>1. Unpublished(h)
        BY <1>1, <1>2, <1>4, <2>3, <2>4, <2>5 DEF Unpublished, Creates, Now, NowAt,
           OthersStay
      <3>2. Unknown(h)
        BY <3>1 DEF KeptInv, UnpublishedIsUnknown
      <3> QED
        BY <1>1, <1>2, <1>4, <2>3, <2>4, <2>5, <3>1, <3>2 DEF Unpublished, Unknown,
           Creates, Now, NowAt, OthersStay, Named, NoRecord, diskVars
    <2>12. OperationsOk'
      <3> SUFFICES ASSUME NEW q \in Requests
                      PROVE  CreateOk(q)' /\ RevokeOk(q)'
        BY DEF OperationsOk
      <3>1. /\ CreateOk(q) /\ RevokeOk(q) /\ PlaceOk(q) /\ PlaceOk(r)
            /\ local[q].g \in Grants /\ MintedOnce
        BY <1>1, LocalFields DEF KeptInv, OperationsOk, PlacesOk
      <3>2. CreateOk(q)'
        BY <1>1, <1>2, <1>4, <2>3, <2>4, <2>5, <3>1 DEF CreateOk, MintedOnce,
           Creates, PlaceOk, KeyIsThere, Alike, Now, NowAt, OthersStay, Named,
           NoRecord, diskVars, startVars
      <3>3. RevokeOk(q)'
        BY <1>1, <1>2, <1>4, <2>3, <2>4, <2>5, <3>1 DEF RevokeOk, PlaceOk, Now,
           NowAt, OthersStay, Named, NoRecord, diskVars, startVars
      <3> QED
        BY <3>2, <3>3
    <2>13. GrantedOk'
      <3> SUFFICES ASSUME NEW h \in Grants, told'[h] = "granted"
                      PROVE  /\ KeyIsThere(ledger[h], h)'
                             /\ (phase = "up" /\ loaded => Alike(standing[h], ledger[h]))'
                             /\ \A q \in Requests :
                                  (local[q].pc = "write" /\ loaded
                                     => Alike(local[q].snap[h], standing[h]))'
        BY DEF GrantedOk
      <3>1. told[h] = "granted" =>
                /\ KeyIsThere(ledger[h], h)
                /\ phase = "up" /\ loaded => Alike(standing[h], ledger[h])
                /\ \A q \in Requests :
                     local[q].pc = "write" /\ loaded => Alike(local[q].snap[h], standing[h])
        BY DEF KeptInv, GrantedOk
      <3> QED
        BY <1>1, <1>2, <1>4, <2>3, <2>4, <2>5, <3>1 DEF KeyIsThere, Alike, Now,
           NowAt, OthersStay, Named, NoRecord, diskVars, startVars
    <2>14. LedgerOwed'
      BY <1>1, <1>2, <1>4, <2>3, <2>4, <2>5 DEF KeptInv, LedgerOwed, Owing, Alike,
         Now, NowAt, OthersStay, diskVars, startVars, PlacesOk, PlaceOk
    <2>15. StartOk' /\ CleanStart' /\ FaultsOk'
      BY <1>1, <1>2, <1>4, <2>3, <2>4, <2>5, UpKeepsStart DEF TypeOK
    <2>16. KeepsEnd
      <3> SUFFICES ASSUME MaxFaults <= 1, EndInv
                      PROVE  EndInv'
        BY DEF KeepsEnd
      <3>1. Spent'
        BY <1>1, <1>2, <1>4, <2>3, <2>4, <2>5 DEF EndInv, Spent, startVars
      <3>2. EndedOk'
        <4> SUFFICES ASSUME NEW h \in Grants, Ended(h)'
                        PROVE  /\ (cached[h] = 0)'
                               /\ Unrecorded(h)' \/ (NoKeys(h) /\ faults = 1)'
          BY DEF EndedOk
        <4>1. Ended(h) => /\ cached[h] = 0
                          /\ Unrecorded(h) \/ (NoKeys(h) /\ faults = 1)
          BY DEF EndInv, EndedOk
        <4> QED
          BY <1>1, <1>2, <1>4, <2>3, <2>4, <2>5, <4>1 DEF Ended, Unrecorded, NoKeys,
             Now, NowAt, OthersStay, Named, NoRecord, diskVars
      <3>3. RevokedKeys'
        <4> SUFFICES ASSUME NEW q \in Requests,
                               (local[q].op = "revoke" /\ local[q].pc \in {"save", "write"})'
                        PROVE  (NoKeys(local[q].g) \/ faults = 1)'
          BY DEF RevokedKeys
        <4>1. /\ local[q].g \in Grants /\ RevokeOk(q) /\ PlaceOk(q)
              /\ local[q].op = "revoke" /\ local[q].pc \in {"save", "write"}
                   => NoKeys(local[q].g) \/ faults = 1
          BY <1>1, LocalFields DEF EndInv, RevokedKeys, KeptInv, OperationsOk,
             PlacesOk
        <4> QED
          BY <1>1, <1>2, <1>4, <2>3, <2>4, <2>5, <4>1 DEF NoKeys, RevokeOk, PlaceOk,
             Now, NowAt, OthersStay, diskVars
      <3> QED
        BY <3>1, <3>2, <3>3 DEF EndInv
    <2> QED
      BY <2>6, <2>7, <2>8, <2>9, <2>10, <2>11, <2>12, <2>13, <2>14, <2>15, <2>16
         DEF KeptInv
  <1> QED
    BY <1>3, <1>5, <1>6

LEMMA ServeCountKeeps ==
  ASSUME KeptInv, NEW r \in Requests, ServeCount(r)
  PROVE  KeptInv' /\ KeepsEnd
  <1> DEFINE g == local[r].g
  <1>1. /\ phase = "up" /\ local[r].pc = "count" /\ TypeOK
        /\ UNCHANGED <<diskVars, vaultKind, phase, startVars, cached, dead,
                       ledgerMu, dirty, told, saveFailed, bounds, faults>>
    BY DEF ServeCount, At, KeptInv
  <1>2. g \in Grants /\ local[r].op = "serve"
    BY <1>1, LocalFields DEF KeptInv, PlacesOk, PlaceOk
  <1>3. LocalsTyped' /\ NowAt(r, "bookkeep")
    <2>1. "bookkeep" \in Places /\ Goto(r, "bookkeep")
      BY <1>1 DEF ServeCount, Places
    <2> QED
      BY <1>1, <2>1, Goes
  <1>4. standing' \in [Grants -> Record]
    <2>1. standing[g] \in Record /\ [standing[g] EXCEPT !.serves = @ + 1] \in Record
      <3>1. standing[g] \in Record
        BY <1>1, <1>2 DEF TypeOK
      <3>2. \A x \in Record : [x EXCEPT !.serves = @ + 1] \in Record
        BY DEF Record
      <3> QED
        BY <3>1, <3>2
    <2>2. \/ standing' = standing
          \/ standing' = [standing EXCEPT ![g] = [standing[g] EXCEPT !.serves = @ + 1]]
      BY DEF ServeCount
    <2> QED
      BY <1>1, <2>1, <2>2 DEF TypeOK
  <1>5. \A h \in Grants : /\ standing'[h].wrap = standing[h].wrap
                          /\ standing'[h].gen = standing[h].gen
    BY <1>1, <1>2 DEF ServeCount, TypeOK, Record
  <1>6. TypeOK'
    BY <1>1, <1>3, <1>4 DEF TypeOK, LocalsTyped, diskVars, startVars, bounds
  <1>7. PlacesOk'
    <2> SUFFICES ASSUME NEW q \in Requests
                    PROVE  PlaceOk(q)'
      BY DEF PlacesOk
    <2>1. PlaceOk(q) /\ PlaceOk(r)
      BY DEF KeptInv, PlacesOk
    <2> QED
      BY <1>1, <1>2, <1>3, <1>5, <2>1 DEF PlaceOk, Now, NowAt, OthersStay, startVars
  <1>8. MemoryOk'
    BY <1>1, <1>2, <1>3, <1>5 DEF KeptInv, MemoryOk, Named, NoRecord, startVars
  <1>9. GensOk'
    BY <1>1, <1>2, <1>3, <1>5 DEF KeptInv, GensOk, Named, NoRecord, Now, NowAt,
       OthersStay, diskVars
  <1>10. MintedOnce'
    BY <1>1, <1>2, <1>3, <1>5, NowKeepsMinted DEF NowAt
  <1>11. UnpublishedIsUnknown'
    <2> SUFFICES ASSUME NEW h \in Grants, Unpublished(h)'
                    PROVE  Unknown(h)'
      BY DEF UnpublishedIsUnknown
    <2>1. Unpublished(h)
      BY <1>1, <1>2, <1>3, <1>5 DEF Unpublished, Creates, Now, NowAt, OthersStay
    <2>2. Unknown(h)
      BY <2>1 DEF KeptInv, UnpublishedIsUnknown
    <2> QED
      BY <1>1, <1>2, <1>3, <1>5, <2>1, <2>2 DEF Unpublished, Unknown, Creates, Now,
         NowAt, OthersStay, Named, NoRecord, diskVars
  <1>12. OperationsOk'
    <2> SUFFICES ASSUME NEW q \in Requests
                    PROVE  CreateOk(q)' /\ RevokeOk(q)'
      BY DEF OperationsOk
    <2>1. /\ CreateOk(q) /\ RevokeOk(q) /\ PlaceOk(q) /\ PlaceOk(r)
          /\ local[q].g \in Grants /\ MintedOnce
      BY <1>1, LocalFields DEF KeptInv, OperationsOk, PlacesOk
    <2>2. CreateOk(q)'
      BY <1>1, <1>2, <1>3, <1>5, <2>1 DEF CreateOk, MintedOnce, Creates, PlaceOk,
         KeyIsThere, Alike, Now, NowAt, OthersStay, Named, NoRecord, diskVars,
         startVars
    <2>3. RevokeOk(q)'
      BY <1>1, <1>2, <1>3, <1>5, <2>1 DEF RevokeOk, PlaceOk, Now, NowAt, OthersStay,
         Named, NoRecord, diskVars, startVars
    <2> QED
      BY <2>2, <2>3
  <1>13. GrantedOk'
    <2> SUFFICES ASSUME NEW h \in Grants, told'[h] = "granted"
                    PROVE  /\ KeyIsThere(ledger[h], h)'
                           /\ (phase = "up" /\ loaded => Alike(standing[h], ledger[h]))'
                           /\ \A q \in Requests :
                                (local[q].pc = "write" /\ loaded
                                   => Alike(local[q].snap[h], standing[h]))'
      BY DEF GrantedOk
    <2>1. told[h] = "granted" =>
              /\ KeyIsThere(ledger[h], h)
              /\ phase = "up" /\ loaded => Alike(standing[h], ledger[h])
              /\ \A q \in Requests :
                   local[q].pc = "write" /\ loaded => Alike(local[q].snap[h], standing[h])
      BY DEF KeptInv, GrantedOk
    <2> QED
      BY <1>1, <1>2, <1>3, <1>5, <2>1 DEF KeyIsThere, Alike, Now, NowAt, OthersStay,
         Named, NoRecord, diskVars, startVars
  <1>14. LedgerOwed'
    BY <1>1, <1>2, <1>3, <1>5 DEF KeptInv, LedgerOwed, Owing, Alike, Now, NowAt,
       OthersStay, diskVars, startVars, PlacesOk, PlaceOk
  <1>15. StartOk' /\ CleanStart' /\ FaultsOk'
    BY <1>1, <1>2, <1>3, <1>5, UpKeepsStart DEF TypeOK
  <1>16. KeepsEnd
    <2> SUFFICES ASSUME MaxFaults <= 1, EndInv
                    PROVE  EndInv'
      BY DEF KeepsEnd
    <2>1. Spent'
      BY <1>1, <1>2, <1>3, <1>5 DEF EndInv, Spent, startVars
    <2>2. EndedOk'
      <3> SUFFICES ASSUME NEW h \in Grants, Ended(h)'
                      PROVE  /\ (cached[h] = 0)'
                             /\ Unrecorded(h)' \/ (NoKeys(h) /\ faults = 1)'
        BY DEF EndedOk
      <3>1. Ended(h) => /\ cached[h] = 0
                        /\ Unrecorded(h) \/ (NoKeys(h) /\ faults = 1)
        BY DEF EndInv, EndedOk
      <3> QED
        BY <1>1, <1>2, <1>3, <1>5, <3>1 DEF Ended, Unrecorded, NoKeys, Now, NowAt,
           OthersStay, Named, NoRecord, diskVars
    <2>3. RevokedKeys'
      <3> SUFFICES ASSUME NEW q \in Requests,
                             (local[q].op = "revoke" /\ local[q].pc \in {"save", "write"})'
                      PROVE  (NoKeys(local[q].g) \/ faults = 1)'
        BY DEF RevokedKeys
      <3>1. /\ local[q].g \in Grants /\ RevokeOk(q) /\ PlaceOk(q)
            /\ local[q].op = "revoke" /\ local[q].pc \in {"save", "write"}
                 => NoKeys(local[q].g) \/ faults = 1
        BY <1>1, LocalFields DEF EndInv, RevokedKeys, KeptInv, OperationsOk,
           PlacesOk
      <3> QED
        BY <1>1, <1>2, <1>3, <1>5, <3>1 DEF NoKeys, RevokeOk, PlaceOk, Now, NowAt,
           OthersStay, diskVars
    <2> QED
      BY <2>1, <2>2, <2>3 DEF EndInv
  <1> QED
    BY <1>6, <1>7, <1>8, <1>9, <1>10, <1>11, <1>12, <1>13, <1>14, <1>15, <1>16
       DEF KeptInv

LEMMA ServeBookkeepKeeps ==
  ASSUME KeptInv, NEW r \in Requests, ServeBookkeep(r)
  PROVE  KeptInv' /\ KeepsEnd
  <1> DEFINE g == local[r].g
  <1>1. /\ phase = "up" /\ local[r].pc = "bookkeep" /\ TypeOK
        /\ UNCHANGED <<diskVars, vaultKind, phase, startVars, standing, cached,
                       dead, ledgerMu, told, saveFailed, bounds, faults>>
    BY DEF ServeBookkeep, At, KeptInv
  <1>2. PICK p \in {"save", "done"} : Goto(r, p) /\ dirty' \in BOOLEAN
    BY <1>1 DEF ServeBookkeep, TypeOK
  <1>3. LocalsTyped' /\ NowAt(r, p)
    <2>1. p \in Places
      BY DEF Places
    <2> QED
      BY <1>1, <1>2, <2>1, Goes
  <1>4. local[r].op = "serve" /\ local[r].g \in Grants
    BY <1>1, LocalFields DEF KeptInv, PlacesOk, PlaceOk
  <1>5. TypeOK'
    BY <1>1, <1>2, <1>3 DEF TypeOK, LocalsTyped, diskVars, startVars, bounds
  <1>6. PlacesOk'
    <2> SUFFICES ASSUME NEW q \in Requests
                    PROVE  PlaceOk(q)'
      BY DEF PlacesOk
    <2>1. PlaceOk(q) /\ PlaceOk(r)
      BY DEF KeptInv, PlacesOk
    <2> QED
      BY <1>1, <1>3, <1>4, <2>1 DEF PlaceOk, Now, NowAt, OthersStay, startVars
  <1>7. MemoryOk'
    BY <1>1, <1>3, <1>4 DEF KeptInv, MemoryOk, Named, NoRecord, startVars
  <1>8. GensOk'
    BY <1>1, <1>3, <1>4 DEF KeptInv, GensOk, Named, NoRecord, Now, NowAt,
       OthersStay, diskVars
  <1>9. MintedOnce'
    BY <1>1, <1>3, <1>4, NowKeepsMinted DEF NowAt
  <1>10. UnpublishedIsUnknown'
    <2> SUFFICES ASSUME NEW h \in Grants, Unpublished(h)'
                    PROVE  Unknown(h)'
      BY DEF UnpublishedIsUnknown
    <2>1. Unpublished(h)
      BY <1>1, <1>3, <1>4 DEF Unpublished, Creates, Now, NowAt, OthersStay
    <2>2. Unknown(h)
      BY <2>1 DEF KeptInv, UnpublishedIsUnknown
    <2> QED
      BY <1>1, <1>3, <1>4, <2>1, <2>2 DEF Unpublished, Unknown, Creates, Now, NowAt,
         OthersStay, Named, NoRecord, diskVars
  <1>11. OperationsOk'
    <2> SUFFICES ASSUME NEW q \in Requests
                    PROVE  CreateOk(q)' /\ RevokeOk(q)'
      BY DEF OperationsOk
    <2>1. /\ CreateOk(q) /\ RevokeOk(q) /\ PlaceOk(q) /\ PlaceOk(r)
          /\ local[q].g \in Grants /\ MintedOnce
      BY <1>1, LocalFields DEF KeptInv, OperationsOk, PlacesOk
    <2>2. CreateOk(q)'
      BY <1>1, <1>3, <1>4, <2>1 DEF CreateOk, MintedOnce, Creates, PlaceOk,
         KeyIsThere, Alike, Now, NowAt, OthersStay, Named, NoRecord, diskVars,
         startVars
    <2>3. RevokeOk(q)'
      BY <1>1, <1>3, <1>4, <2>1 DEF RevokeOk, PlaceOk, Now, NowAt, OthersStay,
         Named, NoRecord, diskVars, startVars
    <2> QED
      BY <2>2, <2>3
  <1>12. GrantedOk'
    <2> SUFFICES ASSUME NEW h \in Grants, told'[h] = "granted"
                    PROVE  /\ KeyIsThere(ledger[h], h)'
                           /\ (phase = "up" /\ loaded => Alike(standing[h], ledger[h]))'
                           /\ \A q \in Requests :
                                (local[q].pc = "write" /\ loaded
                                   => Alike(local[q].snap[h], standing[h]))'
      BY DEF GrantedOk
    <2>1. told[h] = "granted" =>
              /\ KeyIsThere(ledger[h], h)
              /\ phase = "up" /\ loaded => Alike(standing[h], ledger[h])
              /\ \A q \in Requests :
                   local[q].pc = "write" /\ loaded => Alike(local[q].snap[h], standing[h])
      BY DEF KeptInv, GrantedOk
    <2> QED
      BY <1>1, <1>3, <1>4, <2>1 DEF KeyIsThere, Alike, Now, NowAt, OthersStay,
         Named, NoRecord, diskVars, startVars
  <1>13. LedgerOwed'
    BY <1>1, <1>3, <1>4 DEF KeptInv, LedgerOwed, Owing, Alike, Now, NowAt,
       OthersStay, diskVars, startVars, PlacesOk, PlaceOk
  <1>14. StartOk' /\ CleanStart' /\ FaultsOk'
    BY <1>1, <1>3, <1>4, UpKeepsStart DEF TypeOK
  <1>15. KeepsEnd
    <2> SUFFICES ASSUME MaxFaults <= 1, EndInv
                    PROVE  EndInv'
      BY DEF KeepsEnd
    <2>1. Spent'
      BY <1>1, <1>3, <1>4 DEF EndInv, Spent, startVars
    <2>2. EndedOk'
      <3> SUFFICES ASSUME NEW h \in Grants, Ended(h)'
                      PROVE  /\ (cached[h] = 0)'
                             /\ Unrecorded(h)' \/ (NoKeys(h) /\ faults = 1)'
        BY DEF EndedOk
      <3>1. Ended(h) => /\ cached[h] = 0
                        /\ Unrecorded(h) \/ (NoKeys(h) /\ faults = 1)
        BY DEF EndInv, EndedOk
      <3> QED
        BY <1>1, <1>3, <1>4, <3>1 DEF Ended, Unrecorded, NoKeys, Now, NowAt,
           OthersStay, Named, NoRecord, diskVars
    <2>3. RevokedKeys'
      <3> SUFFICES ASSUME NEW q \in Requests,
                             (local[q].op = "revoke" /\ local[q].pc \in {"save", "write"})'
                      PROVE  (NoKeys(local[q].g) \/ faults = 1)'
        BY DEF RevokedKeys
      <3>1. /\ local[q].g \in Grants /\ RevokeOk(q) /\ PlaceOk(q)
            /\ local[q].op = "revoke" /\ local[q].pc \in {"save", "write"}
                 => NoKeys(local[q].g) \/ faults = 1
        BY <1>1, LocalFields DEF EndInv, RevokedKeys, KeptInv, OperationsOk,
           PlacesOk
      <3> QED
        BY <1>1, <1>3, <1>4, <3>1 DEF NoKeys, RevokeOk, PlaceOk, Now, NowAt,
           OthersStay, diskVars
    <2> QED
      BY <2>1, <2>2, <2>3 DEF EndInv
  <1> QED
    BY <1>5, <1>6, <1>7, <1>8, <1>9, <1>10, <1>11, <1>12, <1>13, <1>14, <1>15
       DEF KeptInv

LEMMA StopFlushKeeps ==
  ASSUME KeptInv, NEW r \in Requests, StopFlush(r)
  PROVE  KeptInv' /\ KeepsEnd
  <1> DEFINE g == local[r].g
  <1>1. /\ phase = "up" /\ local[r].pc = "flush" /\ TypeOK
        /\ UNCHANGED <<diskVars, vaultKind, phase, startVars, standing, cached,
                       dead, ledgerMu, dirty, told, saveFailed, bounds, faults>>
    BY DEF StopFlush, At, KeptInv
  <1>2. PICK p \in {"save", "collect"} : Goto(r, p)
    BY DEF StopFlush
  <1>3. LocalsTyped' /\ NowAt(r, p)
    <2>1. p \in Places
      BY DEF Places
    <2> QED
      BY <1>1, <1>2, <2>1, Goes
  <1>4. local[r].op = "stop" /\ local[r].g \in Grants
    BY <1>1, LocalFields DEF KeptInv, PlacesOk, PlaceOk
  <1>5. TypeOK'
    BY <1>1, <1>3 DEF TypeOK, LocalsTyped, diskVars, startVars, bounds
  <1>6. PlacesOk'
    <2> SUFFICES ASSUME NEW q \in Requests
                    PROVE  PlaceOk(q)'
      BY DEF PlacesOk
    <2>1. PlaceOk(q) /\ PlaceOk(r)
      BY DEF KeptInv, PlacesOk
    <2> QED
      BY <1>1, <1>3, <1>4, <2>1 DEF PlaceOk, Now, NowAt, OthersStay, startVars
  <1>7. MemoryOk'
    BY <1>1, <1>3, <1>4 DEF KeptInv, MemoryOk, Named, NoRecord, startVars
  <1>8. GensOk'
    BY <1>1, <1>3, <1>4 DEF KeptInv, GensOk, Named, NoRecord, Now, NowAt,
       OthersStay, diskVars
  <1>9. MintedOnce'
    BY <1>1, <1>3, <1>4, NowKeepsMinted DEF NowAt
  <1>10. UnpublishedIsUnknown'
    <2> SUFFICES ASSUME NEW h \in Grants, Unpublished(h)'
                    PROVE  Unknown(h)'
      BY DEF UnpublishedIsUnknown
    <2>1. Unpublished(h)
      BY <1>1, <1>3, <1>4 DEF Unpublished, Creates, Now, NowAt, OthersStay
    <2>2. Unknown(h)
      BY <2>1 DEF KeptInv, UnpublishedIsUnknown
    <2> QED
      BY <1>1, <1>3, <1>4, <2>1, <2>2 DEF Unpublished, Unknown, Creates, Now, NowAt,
         OthersStay, Named, NoRecord, diskVars
  <1>11. OperationsOk'
    <2> SUFFICES ASSUME NEW q \in Requests
                    PROVE  CreateOk(q)' /\ RevokeOk(q)'
      BY DEF OperationsOk
    <2>1. /\ CreateOk(q) /\ RevokeOk(q) /\ PlaceOk(q) /\ PlaceOk(r)
          /\ local[q].g \in Grants /\ MintedOnce
      BY <1>1, LocalFields DEF KeptInv, OperationsOk, PlacesOk
    <2>2. CreateOk(q)'
      BY <1>1, <1>3, <1>4, <2>1 DEF CreateOk, MintedOnce, Creates, PlaceOk,
         KeyIsThere, Alike, Now, NowAt, OthersStay, Named, NoRecord, diskVars,
         startVars
    <2>3. RevokeOk(q)'
      BY <1>1, <1>3, <1>4, <2>1 DEF RevokeOk, PlaceOk, Now, NowAt, OthersStay,
         Named, NoRecord, diskVars, startVars
    <2> QED
      BY <2>2, <2>3
  <1>12. GrantedOk'
    <2> SUFFICES ASSUME NEW h \in Grants, told'[h] = "granted"
                    PROVE  /\ KeyIsThere(ledger[h], h)'
                           /\ (phase = "up" /\ loaded => Alike(standing[h], ledger[h]))'
                           /\ \A q \in Requests :
                                (local[q].pc = "write" /\ loaded
                                   => Alike(local[q].snap[h], standing[h]))'
      BY DEF GrantedOk
    <2>1. told[h] = "granted" =>
              /\ KeyIsThere(ledger[h], h)
              /\ phase = "up" /\ loaded => Alike(standing[h], ledger[h])
              /\ \A q \in Requests :
                   local[q].pc = "write" /\ loaded => Alike(local[q].snap[h], standing[h])
      BY DEF KeptInv, GrantedOk
    <2> QED
      BY <1>1, <1>3, <1>4, <2>1 DEF KeyIsThere, Alike, Now, NowAt, OthersStay,
         Named, NoRecord, diskVars, startVars
  <1>13. LedgerOwed'
    BY <1>1, <1>3, <1>4 DEF KeptInv, LedgerOwed, Owing, Alike, Now, NowAt,
       OthersStay, diskVars, startVars, PlacesOk, PlaceOk
  <1>14. StartOk' /\ CleanStart' /\ FaultsOk'
    BY <1>1, <1>3, <1>4, UpKeepsStart DEF TypeOK
  <1>15. KeepsEnd
    <2> SUFFICES ASSUME MaxFaults <= 1, EndInv
                    PROVE  EndInv'
      BY DEF KeepsEnd
    <2>1. Spent'
      BY <1>1, <1>3, <1>4 DEF EndInv, Spent, startVars
    <2>2. EndedOk'
      <3> SUFFICES ASSUME NEW h \in Grants, Ended(h)'
                      PROVE  /\ (cached[h] = 0)'
                             /\ Unrecorded(h)' \/ (NoKeys(h) /\ faults = 1)'
        BY DEF EndedOk
      <3>1. Ended(h) => /\ cached[h] = 0
                        /\ Unrecorded(h) \/ (NoKeys(h) /\ faults = 1)
        BY DEF EndInv, EndedOk
      <3> QED
        BY <1>1, <1>3, <1>4, <3>1 DEF Ended, Unrecorded, NoKeys, Now, NowAt,
           OthersStay, Named, NoRecord, diskVars
    <2>3. RevokedKeys'
      <3> SUFFICES ASSUME NEW q \in Requests,
                             (local[q].op = "revoke" /\ local[q].pc \in {"save", "write"})'
                      PROVE  (NoKeys(local[q].g) \/ faults = 1)'
        BY DEF RevokedKeys
      <3>1. /\ local[q].g \in Grants /\ RevokeOk(q) /\ PlaceOk(q)
            /\ local[q].op = "revoke" /\ local[q].pc \in {"save", "write"}
                 => NoKeys(local[q].g) \/ faults = 1
        BY <1>1, LocalFields DEF EndInv, RevokedKeys, KeptInv, OperationsOk,
           PlacesOk
      <3> QED
        BY <1>1, <1>3, <1>4, <3>1 DEF NoKeys, RevokeOk, PlaceOk, Now, NowAt,
           OthersStay, diskVars
    <2> QED
      BY <2>1, <2>2, <2>3 DEF EndInv
  <1> QED
    BY <1>5, <1>6, <1>7, <1>8, <1>9, <1>10, <1>11, <1>12, <1>13, <1>14, <1>15
       DEF KeptInv

LEMMA StopCollectKeeps ==
  ASSUME KeptInv, NEW r \in Requests, StopCollect(r)
  PROVE  KeptInv' /\ KeepsEnd
  <1> DEFINE g == local[r].g
  <1>1. /\ phase = "up" /\ local[r].pc = "collect" /\ TypeOK
        /\ UNCHANGED <<diskVars, vaultKind, phase, startVars, standing, cached,
                       dead, ledgerMu, dirty, told, saveFailed, bounds, faults>>
    BY DEF StopCollect, At, KeptInv
  <1>2. local[r].op = "stop" /\ local[r].g \in Grants /\ Named(standing) \in SUBSET Grants
    BY <1>1, LocalFields DEF KeptInv, PlacesOk, PlaceOk, Named
  <1>3. LocalsTyped' /\ Now(r, "retireAll", local[r].sealed, local[r].snap, Named(standing))
    <2>1. /\ "retireAll" \in Places
          /\ local' = [local EXCEPT ![r].pc = "retireAll", ![r].left = Named(standing)]
      BY DEF StopCollect, Places
    <2> QED
      BY <1>1, <1>2, <2>1, GoesLeft
  <1>4. TypeOK'
    BY <1>1, <1>3 DEF TypeOK, LocalsTyped, diskVars, startVars, bounds
  <1>5. PlacesOk'
    <2> SUFFICES ASSUME NEW q \in Requests
                    PROVE  PlaceOk(q)'
      BY DEF PlacesOk
    <2>1. PlaceOk(q) /\ PlaceOk(r)
      BY DEF KeptInv, PlacesOk
    <2> QED
      BY <1>1, <1>2, <1>3, <2>1 DEF PlaceOk, Now, NowAt, OthersStay, startVars
  <1>6. MemoryOk'
    BY <1>1, <1>2, <1>3 DEF KeptInv, MemoryOk, Named, NoRecord, startVars
  <1>7. GensOk'
    BY <1>1, <1>2, <1>3 DEF KeptInv, GensOk, Named, NoRecord, Now, NowAt,
       OthersStay, diskVars
  <1>8. MintedOnce'
    BY <1>1, <1>2, <1>3, NowKeepsMinted DEF NowAt
  <1>9. UnpublishedIsUnknown'
    <2> SUFFICES ASSUME NEW h \in Grants, Unpublished(h)'
                    PROVE  Unknown(h)'
      BY DEF UnpublishedIsUnknown
    <2>1. Unpublished(h)
      BY <1>1, <1>2, <1>3 DEF Unpublished, Creates, Now, NowAt, OthersStay
    <2>2. Unknown(h)
      BY <2>1 DEF KeptInv, UnpublishedIsUnknown
    <2> QED
      BY <1>1, <1>2, <1>3, <2>1, <2>2 DEF Unpublished, Unknown, Creates, Now, NowAt,
         OthersStay, Named, NoRecord, diskVars
  <1>10. OperationsOk'
    <2> SUFFICES ASSUME NEW q \in Requests
                    PROVE  CreateOk(q)' /\ RevokeOk(q)'
      BY DEF OperationsOk
    <2>1. /\ CreateOk(q) /\ RevokeOk(q) /\ PlaceOk(q) /\ PlaceOk(r)
          /\ local[q].g \in Grants /\ MintedOnce
      BY <1>1, LocalFields DEF KeptInv, OperationsOk, PlacesOk
    <2>2. CreateOk(q)'
      BY <1>1, <1>2, <1>3, <2>1 DEF CreateOk, MintedOnce, Creates, PlaceOk,
         KeyIsThere, Alike, Now, NowAt, OthersStay, Named, NoRecord, diskVars,
         startVars
    <2>3. RevokeOk(q)'
      BY <1>1, <1>2, <1>3, <2>1 DEF RevokeOk, PlaceOk, Now, NowAt, OthersStay,
         Named, NoRecord, diskVars, startVars
    <2> QED
      BY <2>2, <2>3
  <1>11. GrantedOk'
    <2> SUFFICES ASSUME NEW h \in Grants, told'[h] = "granted"
                    PROVE  /\ KeyIsThere(ledger[h], h)'
                           /\ (phase = "up" /\ loaded => Alike(standing[h], ledger[h]))'
                           /\ \A q \in Requests :
                                (local[q].pc = "write" /\ loaded
                                   => Alike(local[q].snap[h], standing[h]))'
      BY DEF GrantedOk
    <2>1. told[h] = "granted" =>
              /\ KeyIsThere(ledger[h], h)
              /\ phase = "up" /\ loaded => Alike(standing[h], ledger[h])
              /\ \A q \in Requests :
                   local[q].pc = "write" /\ loaded => Alike(local[q].snap[h], standing[h])
      BY DEF KeptInv, GrantedOk
    <2> QED
      BY <1>1, <1>2, <1>3, <2>1 DEF KeyIsThere, Alike, Now, NowAt, OthersStay,
         Named, NoRecord, diskVars, startVars
  <1>12. LedgerOwed'
    BY <1>1, <1>2, <1>3 DEF KeptInv, LedgerOwed, Owing, Alike, Now, NowAt,
       OthersStay, diskVars, startVars, PlacesOk, PlaceOk
  <1>13. StartOk' /\ CleanStart' /\ FaultsOk'
    BY <1>1, <1>2, <1>3, UpKeepsStart DEF TypeOK
  <1>14. KeepsEnd
    <2> SUFFICES ASSUME MaxFaults <= 1, EndInv
                    PROVE  EndInv'
      BY DEF KeepsEnd
    <2>1. Spent'
      BY <1>1, <1>2, <1>3 DEF EndInv, Spent, startVars
    <2>2. EndedOk'
      <3> SUFFICES ASSUME NEW h \in Grants, Ended(h)'
                      PROVE  /\ (cached[h] = 0)'
                             /\ Unrecorded(h)' \/ (NoKeys(h) /\ faults = 1)'
        BY DEF EndedOk
      <3>1. Ended(h) => /\ cached[h] = 0
                        /\ Unrecorded(h) \/ (NoKeys(h) /\ faults = 1)
        BY DEF EndInv, EndedOk
      <3> QED
        BY <1>1, <1>2, <1>3, <3>1 DEF Ended, Unrecorded, NoKeys, Now, NowAt,
           OthersStay, Named, NoRecord, diskVars
    <2>3. RevokedKeys'
      <3> SUFFICES ASSUME NEW q \in Requests,
                             (local[q].op = "revoke" /\ local[q].pc \in {"save", "write"})'
                      PROVE  (NoKeys(local[q].g) \/ faults = 1)'
        BY DEF RevokedKeys
      <3>1. /\ local[q].g \in Grants /\ RevokeOk(q) /\ PlaceOk(q)
            /\ local[q].op = "revoke" /\ local[q].pc \in {"save", "write"}
                 => NoKeys(local[q].g) \/ faults = 1
        BY <1>1, LocalFields DEF EndInv, RevokedKeys, KeptInv, OperationsOk,
           PlacesOk
      <3> QED
        BY <1>1, <1>2, <1>3, <3>1 DEF NoKeys, RevokeOk, PlaceOk, Now, NowAt,
           OthersStay, diskVars
    <2> QED
      BY <2>1, <2>2, <2>3 DEF EndInv
  <1> QED
    BY <1>4, <1>5, <1>6, <1>7, <1>8, <1>9, <1>10, <1>11, <1>12, <1>13, <1>14
       DEF KeptInv

LEMMA StopRetireKeeps ==
  ASSUME KeptInv, NEW r \in Requests, StopRetire(r)
  PROVE  KeptInv' /\ KeepsEnd
  <1> DEFINE g == local[r].g
  <1>1. /\ phase = "up" /\ local[r].pc = "retireAll" /\ TypeOK
        /\ UNCHANGED <<diskVars, vaultKind, phase, startVars, standing, ledgerMu,
                       dirty, told, saveFailed, bounds, faults>>
    BY DEF StopRetire, At, KeptInv
  <1>2. PICK x \in local[r].left :
          /\ cached' = [cached EXCEPT ![x] = 0] /\ dead' = dead \cup {x}
          /\ local' = [local EXCEPT ![r].left = @ \ {x}]
    BY DEF StopRetire
  <1>3. /\ local[r].op = "stop" /\ g \in Grants /\ x \in Grants
        /\ local[r].left \ {x} \in SUBSET Grants /\ ~Unpublished(x)
    BY <1>1, LocalFields DEF KeptInv, PlacesOk, PlaceOk, UnpublishedIsUnknown,
       Unknown
  <1>4. LocalsTyped' /\ Now(r, "retireAll", local[r].sealed, local[r].snap, local[r].left \ {x})
    <2>1. local' = [local EXCEPT ![r].left = local[r].left \ {x}]
      BY <1>2
    <2>2. LocalsTyped' /\ Now(r, local[r].pc, local[r].sealed, local[r].snap, local[r].left \ {x})
      BY <1>1, <1>3, <2>1, StaysLeft
    <2> QED
      BY <1>1, <2>2 DEF Now
  <1>5. cached' \in [Grants -> Nat] /\ dead' \subseteq Grants
    BY <1>1, <1>2, <1>3 DEF TypeOK
  <1>6. /\ cached'[x] = 0 /\ \A h \in Grants \ {x} : cached'[h] = cached[h]
        /\ dead' = dead \cup {x}
    BY <1>1, <1>2, <1>3 DEF TypeOK
  <1>7. TypeOK'
    BY <1>1, <1>4, <1>5 DEF TypeOK, LocalsTyped, diskVars, startVars, bounds
  <1>8. PlacesOk'
    <2> SUFFICES ASSUME NEW q \in Requests
                    PROVE  PlaceOk(q)'
      BY DEF PlacesOk
    <2>1. PlaceOk(q) /\ PlaceOk(r)
      BY DEF KeptInv, PlacesOk
    <2> QED
      BY <1>1, <1>3, <1>4, <1>6, <2>1 DEF PlaceOk, Now, NowAt, OthersStay, startVars
  <1>9. MemoryOk'
    <2>1. \A h \in dead : h \in Grants /\ cached[h] = 0
      BY <1>1 DEF KeptInv, MemoryOk, TypeOK
    <2>2. (phase = "down" \/ ~loaded => Named(standing) = {})'
      BY <1>1 DEF KeptInv, MemoryOk, Named, startVars
    <2> QED
      BY <1>1, <1>3, <1>6, <2>1, <2>2 DEF MemoryOk
  <1>10. GensOk'
    BY <1>1, <1>3, <1>4, <1>6 DEF KeptInv, GensOk, Named, NoRecord, Now, NowAt,
       OthersStay, diskVars
  <1>11. MintedOnce'
    BY <1>1, <1>3, <1>4, <1>6, NowKeepsMinted DEF NowAt
  <1>12. UnpublishedIsUnknown'
    <2> SUFFICES ASSUME NEW h \in Grants, Unpublished(h)'
                    PROVE  Unknown(h)'
      BY DEF UnpublishedIsUnknown
    <2>1. Unpublished(h)
      BY <1>1, <1>3, <1>4, <1>6 DEF Unpublished, Creates, Now, NowAt, OthersStay
    <2>2. Unknown(h)
      BY <2>1 DEF KeptInv, UnpublishedIsUnknown
    <2> QED
      BY <1>1, <1>3, <1>4, <1>6, <2>1, <2>2 DEF Unpublished, Unknown, Creates, Now,
         NowAt, OthersStay, Named, NoRecord, diskVars
  <1>13. OperationsOk'
    <2> SUFFICES ASSUME NEW q \in Requests
                    PROVE  CreateOk(q)' /\ RevokeOk(q)'
      BY DEF OperationsOk
    <2>1. /\ CreateOk(q) /\ RevokeOk(q) /\ PlaceOk(q) /\ PlaceOk(r)
          /\ local[q].g \in Grants /\ MintedOnce
      BY <1>1, LocalFields DEF KeptInv, OperationsOk, PlacesOk
    <2>2. CreateOk(q)'
      BY <1>1, <1>3, <1>4, <1>6, <2>1 DEF CreateOk, MintedOnce, Creates, PlaceOk,
         KeyIsThere, Alike, Now, NowAt, OthersStay, Named, NoRecord, diskVars,
         startVars
    <2>3. RevokeOk(q)'
      BY <1>1, <1>3, <1>4, <1>6, <2>1 DEF RevokeOk, PlaceOk, Now, NowAt, OthersStay,
         Named, NoRecord, diskVars, startVars
    <2> QED
      BY <2>2, <2>3
  <1>14. GrantedOk'
    <2> SUFFICES ASSUME NEW h \in Grants, told'[h] = "granted"
                    PROVE  /\ KeyIsThere(ledger[h], h)'
                           /\ (phase = "up" /\ loaded => Alike(standing[h], ledger[h]))'
                           /\ \A q \in Requests :
                                (local[q].pc = "write" /\ loaded
                                   => Alike(local[q].snap[h], standing[h]))'
      BY DEF GrantedOk
    <2>1. told[h] = "granted" =>
              /\ KeyIsThere(ledger[h], h)
              /\ phase = "up" /\ loaded => Alike(standing[h], ledger[h])
              /\ \A q \in Requests :
                   local[q].pc = "write" /\ loaded => Alike(local[q].snap[h], standing[h])
      BY DEF KeptInv, GrantedOk
    <2> QED
      BY <1>1, <1>3, <1>4, <1>6, <2>1 DEF KeyIsThere, Alike, Now, NowAt, OthersStay,
         Named, NoRecord, diskVars, startVars
  <1>15. LedgerOwed'
    BY <1>1, <1>3, <1>4, <1>6 DEF KeptInv, LedgerOwed, Owing, Alike, Now, NowAt,
       OthersStay, diskVars, startVars, PlacesOk, PlaceOk
  <1>16. StartOk' /\ CleanStart' /\ FaultsOk'
    BY <1>1, <1>3, <1>4, <1>6, UpKeepsStart DEF TypeOK
  <1>17. KeepsEnd
    <2> SUFFICES ASSUME MaxFaults <= 1, EndInv
                    PROVE  EndInv'
      BY DEF KeepsEnd
    <2>1. Spent'
      BY <1>1, <1>3, <1>4, <1>6 DEF EndInv, Spent, startVars
    <2>2. EndedOk'
      <3> SUFFICES ASSUME NEW h \in Grants, Ended(h)'
                      PROVE  /\ (cached[h] = 0)'
                             /\ Unrecorded(h)' \/ (NoKeys(h) /\ faults = 1)'
        BY DEF EndedOk
      <3>1. Ended(h) => /\ cached[h] = 0
                        /\ Unrecorded(h) \/ (NoKeys(h) /\ faults = 1)
        BY DEF EndInv, EndedOk
      <3> QED
        BY <1>1, <1>3, <1>4, <1>6, <3>1 DEF Ended, Unrecorded, NoKeys, Now, NowAt,
           OthersStay, Named, NoRecord, diskVars
    <2>3. RevokedKeys'
      <3> SUFFICES ASSUME NEW q \in Requests,
                             (local[q].op = "revoke" /\ local[q].pc \in {"save", "write"})'
                      PROVE  (NoKeys(local[q].g) \/ faults = 1)'
        BY DEF RevokedKeys
      <3>1. /\ local[q].g \in Grants /\ RevokeOk(q) /\ PlaceOk(q)
            /\ local[q].op = "revoke" /\ local[q].pc \in {"save", "write"}
                 => NoKeys(local[q].g) \/ faults = 1
        BY <1>1, LocalFields DEF EndInv, RevokedKeys, KeptInv, OperationsOk,
           PlacesOk
      <3> QED
        BY <1>1, <1>3, <1>4, <1>6, <3>1 DEF NoKeys, RevokeOk, PlaceOk, Now, NowAt,
           OthersStay, diskVars
    <2> QED
      BY <2>1, <2>2, <2>3 DEF EndInv
  <1> QED
    BY <1>7, <1>8, <1>9, <1>10, <1>11, <1>12, <1>13, <1>14, <1>15, <1>16, <1>17
       DEF KeptInv

LEMMA SaveWriteKeeps ==
  ASSUME KeptInv, NEW r \in Requests, SaveWrite(r)
  PROVE  KeptInv' /\ KeepsEnd
  <1> DEFINE g == local[r].g
             op == local[r].op
             snap == local[r].snap
  <1>1. /\ phase = "up" /\ local[r].pc = "write" /\ TypeOK
        /\ ledgerMu' = NoOne
        /\ UNCHANGED <<keys, made, vaultKind, phase, startVars, standing, cached,
                       dead, dirty, bounds>>
    BY DEF SaveWrite, At, KeptInv
  <1>2. /\ g \in Grants /\ op \in {"create", "serve", "revoke", "stop"}
        /\ r # NoOne /\ NoOne \notin Requests
        /\ \A q \in Requests : local[q].pc = "write" => q = r
    BY <1>1, LocalFields, StandingNoOneAssumption DEF KeptInv, PlacesOk, PlaceOk
  <1>3. MaxFaults \in Nat /\ faults \in Nat /\ faults <= MaxFaults
    BY <1>1, StandingBoundsAssumption DEF TypeOK
  <1>4. PICK ok \in BOOLEAN :
          /\ Fault(IF ok THEN 0 ELSE 1) /\ (~ok => loaded)
          /\ ledger' = IF ok /\ loaded THEN snap ELSE ledger
          /\ saveFailed' = (saveFailed \/ ~ok)
          /\ local' = [local EXCEPT ![r].pc = AfterSave(op, ok), ![r].snap = NoRecords]
          /\ told' = IF op = "create" /\ ok /\ told[g] = "none"
                     THEN [told EXCEPT ![g] = "granted"]
                     ELSE IF op = "revoke" THEN [told EXCEPT ![g] = "revoked"] ELSE told
    BY DEF SaveWrite
  <1>5. LocalsTyped' /\ Now(r, AfterSave(op, ok), local[r].sealed, NoRecords, local[r].left)
    <2>1. AfterSave(op, ok) \in Places
      BY <1>2 DEF AfterSave, Places
    <2>2. NoRecords \in [Grants -> Record]
      BY DEF NoRecords, NoRecord, Record
    <2>3. local' = [local EXCEPT ![r].pc = AfterSave(op, ok), ![r].snap = NoRecords]
      BY <1>4
    <2> QED
      BY <1>1, <2>1, <2>2, <2>3, GoesSnapped
  <1>6. /\ told' \in [Grants -> {"none", "granted", "failed", "ending", "revoked"}]
        /\ \A h \in Grants \ {g} : told'[h] = told[h]
        /\ told'[g] \in {told[g], "granted", "revoked"}
        /\ op = "revoke" => told'[g] = "revoked"
        /\ op \in {"serve", "stop"} => told'[g] = told[g]
        /\ op = "create" => \/ told'[g] = told[g]
                            \/ told'[g] = "granted" /\ told[g] = "none" /\ ok
    BY <1>1, <1>2, <1>4 DEF TypeOK
  <1>7. /\ RevokeOk(r) /\ CreateOk(r) /\ PlaceOk(r)
        /\ op = "create" => ~Unpublished(g)
        /\ op = "revoke" => told[g] # "none" /\ cached[g] = 0
    BY <1>1, <1>2 DEF KeptInv, OperationsOk, PlacesOk, Unpublished, Creates,
       RevokeOk, MemoryOk
  <1>8. CASE ok /\ loaded
    <2>1. /\ ledger' = snap /\ faults' = faults
          /\ op = "create" => local'[r].pc = "done"
          /\ op \in {"serve", "revoke"} => local'[r].pc = "done"
          /\ op = "stop" => local'[r].pc = "collect"
      <3>1. ledger' = snap /\ faults' = faults
        BY <1>3, <1>4, <1>8 DEF Fault
      <3>2. /\ op = "create" => AfterSave(op, ok) = "done"
            /\ op \in {"serve", "revoke"} => AfterSave(op, ok) = "done"
            /\ op = "stop" => AfterSave(op, ok) = "collect"
        BY <1>8 DEF AfterSave
      <3> QED
        BY <1>5, <3>1, <3>2 DEF Now
    <2>2. loaded = TRUE /\ loaded' = TRUE /\ saveFailed' = saveFailed
      BY <1>1, <1>4, <1>8 DEF TypeOK, startVars
    <2>3. /\ OthersStay(r) /\ local'[r].op = op /\ local'[r].g = g
          /\ local'[r].sealed = local[r].sealed /\ local'[r].left = local[r].left
      BY <1>5 DEF Now
    <2>4. \A q \in Requests : local'[q].pc # "write"
      BY <1>2, <2>1, <2>3 DEF OthersStay
    <2>5. snap \in [Grants -> Record]
      BY <1>1, LocalFields
    <2>6. TypeOK'
      BY <1>1, <1>2, <1>5, <1>6, <2>1, <2>2, <2>5 DEF TypeOK, LocalsTyped, diskVars,
         startVars, bounds
    <2>7. PlacesOk'
      <3> SUFFICES ASSUME NEW q \in Requests
                      PROVE  PlaceOk(q)'
        BY DEF PlacesOk
      <3>1. PlaceOk(q) /\ PlaceOk(r)
        BY DEF KeptInv, PlacesOk
      <3> QED
        BY <1>1, <1>2, <1>6, <1>7, <2>1, <2>2, <2>3, <2>4, <3>1 DEF PlaceOk, Now,
           NowAt, OthersStay, startVars
    <2>8. MemoryOk'
      BY <1>1, <1>2, <1>6, <1>7, <2>1, <2>2, <2>3, <2>4 DEF KeptInv, MemoryOk,
         Named, NoRecord, startVars
    <2>9. GensOk'
      BY <1>1, <1>2, <1>6, <1>7, <2>1, <2>2, <2>3, <2>4 DEF KeptInv, GensOk, Named,
         NoRecord, Now, NowAt, OthersStay, diskVars
    <2>10. MintedOnce'
      BY <2>3 DEF KeptInv, MintedOnce, Creates, OthersStay
    <2>11. UnpublishedIsUnknown'
      <3> SUFFICES ASSUME NEW h \in Grants, Unpublished(h)'
                      PROVE  Unknown(h)'
        BY DEF UnpublishedIsUnknown
      <3>1. Unpublished(h)
        BY <1>1, <1>2, <1>6, <1>7, <2>1, <2>2, <2>3, <2>4 DEF Unpublished, Creates,
           Now, NowAt, OthersStay
      <3>2. Unknown(h)
        BY <3>1 DEF KeptInv, UnpublishedIsUnknown
      <3> QED
        BY <1>1, <1>2, <1>6, <1>7, <2>1, <2>2, <2>3, <2>4, <3>1, <3>2
           DEF Unpublished, Unknown, Creates, Now, NowAt, OthersStay, Named,
           NoRecord, diskVars
    <2>12. OperationsOk'
      <3> SUFFICES ASSUME NEW q \in Requests
                      PROVE  CreateOk(q)' /\ RevokeOk(q)'
        BY DEF OperationsOk
      <3>1. /\ CreateOk(q) /\ RevokeOk(q) /\ PlaceOk(q) /\ PlaceOk(r)
            /\ local[q].g \in Grants /\ MintedOnce
        BY <1>1, LocalFields DEF KeptInv, OperationsOk, PlacesOk
      <3>2. CreateOk(q)'
        BY <1>1, <1>2, <1>6, <1>7, <2>1, <2>2, <2>3, <2>4, <3>1 DEF CreateOk,
           MintedOnce, Creates, PlaceOk, KeyIsThere, Alike, Now, NowAt, OthersStay,
           Named, NoRecord, diskVars, startVars, RevokeOk
      <3>3. RevokeOk(q)'
        BY <1>1, <1>2, <1>6, <1>7, <2>1, <2>2, <2>3, <2>4, <3>1 DEF RevokeOk,
           PlaceOk, Now, NowAt, OthersStay, Named, NoRecord, diskVars, startVars,
           CreateOk
      <3> QED
        BY <3>2, <3>3
    <2>13. GrantedOk'
      <3> SUFFICES ASSUME NEW h \in Grants, told'[h] = "granted"
                      PROVE  /\ KeyIsThere(ledger[h], h)'
                             /\ (phase = "up" /\ loaded => Alike(standing[h], ledger[h]))'
                             /\ \A q \in Requests :
                                  (local[q].pc = "write" /\ loaded
                                     => Alike(local[q].snap[h], standing[h]))'
        BY DEF GrantedOk
      <3>1. told[h] = "granted" =>
                /\ KeyIsThere(ledger[h], h)
                /\ phase = "up" /\ loaded => Alike(standing[h], ledger[h])
                /\ \A q \in Requests :
                     local[q].pc = "write" /\ loaded => Alike(local[q].snap[h], standing[h])
        BY DEF KeptInv, GrantedOk
      <3> QED
        BY <1>1, <1>2, <1>6, <1>7, <2>1, <2>2, <2>3, <2>4, <3>1 DEF KeyIsThere,
           Alike, Now, NowAt, OthersStay, Named, NoRecord, diskVars, startVars,
           CreateOk, RevokeOk, PlaceOk
    <2>14. LedgerOwed'
      BY <1>1, <1>2, <1>6, <1>7, <2>1, <2>2, <2>3, <2>4 DEF KeptInv, LedgerOwed,
         Owing, Alike, Now, NowAt, OthersStay, diskVars, startVars, PlacesOk,
         PlaceOk
    <2>15. StartOk' /\ CleanStart' /\ FaultsOk'
      BY <1>1, <1>3, <2>1, UpKeepsStart DEF TypeOK
    <2>16. KeepsEnd
      <3> SUFFICES ASSUME MaxFaults <= 1, EndInv
                      PROVE  EndInv'
        BY DEF KeepsEnd
      <3>1. Spent'
        BY <1>1, <1>2, <1>6, <1>7, <2>1, <2>2, <2>3, <2>4 DEF EndInv, Spent,
           startVars, CreateOk, RevokeOk
      <3>2. EndedOk'
        <4> SUFFICES ASSUME NEW h \in Grants, Ended(h)'
                        PROVE  /\ (cached[h] = 0)'
                               /\ Unrecorded(h)' \/ (NoKeys(h) /\ faults = 1)'
          BY DEF EndedOk
        <4>1. Ended(h) => /\ cached[h] = 0
                          /\ Unrecorded(h) \/ (NoKeys(h) /\ faults = 1)
          BY DEF EndInv, EndedOk
        <4> QED
          BY <1>1, <1>2, <1>6, <1>7, <2>1, <2>2, <2>3, <2>4, <4>1 DEF Ended,
             Unrecorded, NoKeys, Now, NowAt, OthersStay, Named, NoRecord, diskVars,
             CreateOk, RevokeOk
      <3>3. RevokedKeys'
        <4> SUFFICES ASSUME NEW q \in Requests,
                               (local[q].op = "revoke" /\ local[q].pc \in {"save", "write"})'
                        PROVE  (NoKeys(local[q].g) \/ faults = 1)'
          BY DEF RevokedKeys
        <4>1. /\ local[q].g \in Grants /\ RevokeOk(q) /\ PlaceOk(q)
              /\ local[q].op = "revoke" /\ local[q].pc \in {"save", "write"}
                   => NoKeys(local[q].g) \/ faults = 1
          BY <1>1, LocalFields DEF EndInv, RevokedKeys, KeptInv, OperationsOk,
             PlacesOk
        <4> QED
          BY <1>1, <1>2, <1>6, <1>7, <2>1, <2>2, <2>3, <2>4, <4>1 DEF NoKeys,
             RevokeOk, PlaceOk, Now, NowAt, OthersStay, diskVars, CreateOk
      <3> QED
        BY <3>1, <3>2, <3>3 DEF EndInv
    <2> QED
      BY <2>6, <2>7, <2>8, <2>9, <2>10, <2>11, <2>12, <2>13, <2>14, <2>15, <2>16
         DEF KeptInv
  <1>9. CASE ~ok /\ loaded
    <2>1. /\ ledger' = ledger /\ faults' = faults + 1 /\ faults' <= MaxFaults
          /\ op = "create" => local'[r].pc = "unpublish"
          /\ op \in {"serve", "revoke"} => local'[r].pc = "done"
          /\ op = "stop" => local'[r].pc = "collect"
      BY <1>2, <1>3, <1>4, <1>5, <1>9 DEF AfterSave, Now, Fault
    <2>2. loaded = TRUE /\ loaded' = TRUE /\ saveFailed' = TRUE
      BY <1>1, <1>4, <1>9 DEF TypeOK, startVars
    <2>3. /\ OthersStay(r) /\ local'[r].op = op /\ local'[r].g = g
          /\ local'[r].sealed = local[r].sealed /\ local'[r].left = local[r].left
      BY <1>5 DEF Now
    <2>4. \A q \in Requests : local'[q].pc # "write"
      BY <1>2, <2>1, <2>3 DEF OthersStay
    <2>5. op = "create" => told'[g] = told[g]
      BY <1>4, <1>6, <1>9
    <2>6. MaxFaults <= 1 /\ EndInv => faults = 0 /\ faults' = 1 /\ (op = "revoke" => NoKeys(g))
      BY <1>1, <1>2, <1>3, <2>1 DEF EndInv, RevokedKeys
    <2>7. TypeOK'
      BY <1>1, <1>2, <1>3, <1>5, <1>6, <2>1, <2>2 DEF TypeOK, LocalsTyped, diskVars,
         startVars, bounds
    <2>8. PlacesOk'
      <3> SUFFICES ASSUME NEW q \in Requests
                      PROVE  PlaceOk(q)'
        BY DEF PlacesOk
      <3>1. PlaceOk(q) /\ PlaceOk(r)
        BY DEF KeptInv, PlacesOk
      <3> QED
        BY <1>1, <1>2, <1>6, <1>7, <2>1, <2>2, <2>3, <2>4, <2>5, <3>1 DEF PlaceOk,
           Now, NowAt, OthersStay, startVars
    <2>9. MemoryOk'
      BY <1>1, <1>2, <1>6, <1>7, <2>1, <2>2, <2>3, <2>4, <2>5 DEF KeptInv, MemoryOk,
         Named, NoRecord, startVars
    <2>10. GensOk'
      BY <1>1, <1>2, <1>6, <1>7, <2>1, <2>2, <2>3, <2>4, <2>5 DEF KeptInv, GensOk,
         Named, NoRecord, Now, NowAt, OthersStay, diskVars
    <2>11. MintedOnce'
      BY <2>3 DEF KeptInv, MintedOnce, Creates, OthersStay
    <2>12. UnpublishedIsUnknown'
      <3> SUFFICES ASSUME NEW h \in Grants, Unpublished(h)'
                      PROVE  Unknown(h)'
        BY DEF UnpublishedIsUnknown
      <3>1. Unpublished(h)
        BY <1>1, <1>2, <1>6, <1>7, <2>1, <2>2, <2>3, <2>4, <2>5 DEF Unpublished,
           Creates, Now, NowAt, OthersStay
      <3>2. Unknown(h)
        BY <3>1 DEF KeptInv, UnpublishedIsUnknown
      <3> QED
        BY <1>1, <1>2, <1>6, <1>7, <2>1, <2>2, <2>3, <2>4, <2>5, <3>1, <3>2
           DEF Unpublished, Unknown, Creates, Now, NowAt, OthersStay, Named,
           NoRecord, diskVars
    <2>13. OperationsOk'
      <3> SUFFICES ASSUME NEW q \in Requests
                      PROVE  CreateOk(q)' /\ RevokeOk(q)'
        BY DEF OperationsOk
      <3>1. /\ CreateOk(q) /\ RevokeOk(q) /\ PlaceOk(q) /\ PlaceOk(r)
            /\ local[q].g \in Grants /\ MintedOnce
        BY <1>1, LocalFields DEF KeptInv, OperationsOk, PlacesOk
      <3>2. CreateOk(q)'
        BY <1>1, <1>2, <1>6, <1>7, <2>1, <2>2, <2>3, <2>4, <2>5, <3>1 DEF CreateOk,
           MintedOnce, Creates, PlaceOk, KeyIsThere, Alike, Now, NowAt, OthersStay,
           Named, NoRecord, diskVars, startVars, RevokeOk
      <3>3. RevokeOk(q)'
        BY <1>1, <1>2, <1>6, <1>7, <2>1, <2>2, <2>3, <2>4, <2>5, <3>1 DEF RevokeOk,
           PlaceOk, Now, NowAt, OthersStay, Named, NoRecord, diskVars, startVars,
           CreateOk
      <3> QED
        BY <3>2, <3>3
    <2>14. GrantedOk'
      <3> SUFFICES ASSUME NEW h \in Grants, told'[h] = "granted"
                      PROVE  /\ KeyIsThere(ledger[h], h)'
                             /\ (phase = "up" /\ loaded => Alike(standing[h], ledger[h]))'
                             /\ \A q \in Requests :
                                  (local[q].pc = "write" /\ loaded
                                     => Alike(local[q].snap[h], standing[h]))'
        BY DEF GrantedOk
      <3>1. told[h] = "granted" =>
                /\ KeyIsThere(ledger[h], h)
                /\ phase = "up" /\ loaded => Alike(standing[h], ledger[h])
                /\ \A q \in Requests :
                     local[q].pc = "write" /\ loaded => Alike(local[q].snap[h], standing[h])
        BY DEF KeptInv, GrantedOk
      <3> QED
        BY <1>1, <1>2, <1>6, <1>7, <2>1, <2>2, <2>3, <2>4, <2>5, <3>1
           DEF KeyIsThere, Alike, Now, NowAt, OthersStay, Named, NoRecord, diskVars,
           startVars, CreateOk, RevokeOk, PlaceOk
    <2>15. LedgerOwed'
      BY <2>2 DEF LedgerOwed
    <2>16. StartOk' /\ CleanStart' /\ FaultsOk'
      BY <1>1, <1>3, <2>1, UpKeepsStart DEF TypeOK
    <2>17. KeepsEnd
      <3> SUFFICES ASSUME MaxFaults <= 1, EndInv
                      PROVE  EndInv'
        BY DEF KeepsEnd
      <3>1. Spent'
        BY <1>1, <1>2, <1>6, <1>7, <2>1, <2>2, <2>3, <2>4, <2>5, <2>6 DEF EndInv,
           Spent, startVars, CreateOk, RevokeOk
      <3>2. EndedOk'
        <4> SUFFICES ASSUME NEW h \in Grants, Ended(h)'
                        PROVE  /\ (cached[h] = 0)'
                               /\ Unrecorded(h)' \/ (NoKeys(h) /\ faults = 1)'
          BY DEF EndedOk
        <4>1. Ended(h) => /\ cached[h] = 0
                          /\ Unrecorded(h) \/ (NoKeys(h) /\ faults = 1)
          BY DEF EndInv, EndedOk
        <4> QED
          BY <1>1, <1>2, <1>6, <1>7, <2>1, <2>2, <2>3, <2>4, <2>5, <2>6, <4>1
             DEF Ended, Unrecorded, NoKeys, Now, NowAt, OthersStay, Named, NoRecord,
             diskVars, CreateOk, RevokeOk
      <3>3. RevokedKeys'
        <4> SUFFICES ASSUME NEW q \in Requests,
                               (local[q].op = "revoke" /\ local[q].pc \in {"save", "write"})'
                        PROVE  (NoKeys(local[q].g) \/ faults = 1)'
          BY DEF RevokedKeys
        <4>1. /\ local[q].g \in Grants /\ RevokeOk(q) /\ PlaceOk(q)
              /\ local[q].op = "revoke" /\ local[q].pc \in {"save", "write"}
                   => NoKeys(local[q].g) \/ faults = 1
          BY <1>1, LocalFields DEF EndInv, RevokedKeys, KeptInv, OperationsOk,
             PlacesOk
        <4> QED
          BY <1>1, <1>2, <1>6, <1>7, <2>1, <2>2, <2>3, <2>4, <2>5, <2>6, <4>1
             DEF NoKeys, RevokeOk, PlaceOk, Now, NowAt, OthersStay, diskVars,
             CreateOk
      <3> QED
        BY <3>1, <3>2, <3>3 DEF EndInv
    <2> QED
      BY <2>7, <2>8, <2>9, <2>10, <2>11, <2>12, <2>13, <2>14, <2>15, <2>16, <2>17
         DEF KeptInv
  <1>10. CASE ~loaded
    <2>1. /\ ledger' = ledger /\ faults' = faults /\ op # "create" /\ op # "revoke"
          /\ told' = told
          /\ op = "serve" => local'[r].pc = "done"
          /\ op = "stop" => local'[r].pc = "collect"
      <3>1. ok = TRUE /\ op # "create" /\ op # "revoke"
        BY <1>1, <1>2, <1>4, <1>7, <1>10 DEF PlaceOk, RevokeOk
      <3>2. ledger' = ledger /\ faults' = faults /\ told' = told
        BY <1>3, <1>4, <1>10, <3>1 DEF Fault
      <3>3. /\ op = "serve" => AfterSave(op, ok) = "done"
            /\ op = "stop" => AfterSave(op, ok) = "collect"
        BY DEF AfterSave
      <3> QED
        BY <1>5, <3>1, <3>2, <3>3 DEF Now
    <2>2. loaded = FALSE /\ loaded' = FALSE /\ saveFailed' = saveFailed
      BY <1>1, <1>4, <1>10 DEF TypeOK, startVars
    <2>3. /\ OthersStay(r) /\ local'[r].op = op /\ local'[r].g = g
          /\ local'[r].sealed = local[r].sealed /\ local'[r].left = local[r].left
      BY <1>5 DEF Now
    <2>4. \A q \in Requests : local'[q].pc # "write"
      BY <1>2, <2>1, <2>3 DEF OthersStay
    <2>5. TypeOK'
      BY <1>1, <1>2, <1>3, <1>5, <2>1, <2>2 DEF TypeOK, LocalsTyped, diskVars,
         startVars, bounds
    <2>6. PlacesOk'
      <3> SUFFICES ASSUME NEW q \in Requests
                      PROVE  PlaceOk(q)'
        BY DEF PlacesOk
      <3>1. PlaceOk(q) /\ PlaceOk(r)
        BY DEF KeptInv, PlacesOk
      <3> QED
        BY <1>1, <1>2, <2>1, <2>2, <2>3, <2>4, <3>1 DEF PlaceOk, Now, NowAt,
           OthersStay, startVars
    <2>7. MemoryOk'
      BY <1>1, <1>2, <2>1, <2>2, <2>3, <2>4 DEF KeptInv, MemoryOk, Named, NoRecord,
         startVars
    <2>8. GensOk'
      BY <1>1, <1>2, <2>1, <2>2, <2>3, <2>4 DEF KeptInv, GensOk, Named, NoRecord,
         Now, NowAt, OthersStay, diskVars
    <2>9. MintedOnce'
      BY <2>3 DEF KeptInv, MintedOnce, Creates, OthersStay
    <2>10. UnpublishedIsUnknown'
      <3> SUFFICES ASSUME NEW h \in Grants, Unpublished(h)'
                      PROVE  Unknown(h)'
        BY DEF UnpublishedIsUnknown
      <3>1. Unpublished(h)
        BY <1>1, <1>2, <2>1, <2>2, <2>3, <2>4 DEF Unpublished, Creates, Now, NowAt,
           OthersStay
      <3>2. Unknown(h)
        BY <3>1 DEF KeptInv, UnpublishedIsUnknown
      <3> QED
        BY <1>1, <1>2, <2>1, <2>2, <2>3, <2>4, <3>1, <3>2 DEF Unpublished, Unknown,
           Creates, Now, NowAt, OthersStay, Named, NoRecord, diskVars
    <2>11. OperationsOk'
      <3> SUFFICES ASSUME NEW q \in Requests
                      PROVE  CreateOk(q)' /\ RevokeOk(q)'
        BY DEF OperationsOk
      <3>1. /\ CreateOk(q) /\ RevokeOk(q) /\ PlaceOk(q) /\ PlaceOk(r)
            /\ local[q].g \in Grants /\ MintedOnce
        BY <1>1, LocalFields DEF KeptInv, OperationsOk, PlacesOk
      <3>2. CreateOk(q)'
        BY <1>1, <1>2, <2>1, <2>2, <2>3, <2>4, <3>1 DEF CreateOk, MintedOnce,
           Creates, PlaceOk, KeyIsThere, Alike, Now, NowAt, OthersStay, Named,
           NoRecord, diskVars, startVars
      <3>3. RevokeOk(q)'
        BY <1>1, <1>2, <2>1, <2>2, <2>3, <2>4, <3>1 DEF RevokeOk, PlaceOk, Now,
           NowAt, OthersStay, Named, NoRecord, diskVars, startVars
      <3> QED
        BY <3>2, <3>3
    <2>12. GrantedOk'
      <3> SUFFICES ASSUME NEW h \in Grants, told'[h] = "granted"
                      PROVE  /\ KeyIsThere(ledger[h], h)'
                             /\ (phase = "up" /\ loaded => Alike(standing[h], ledger[h]))'
                             /\ \A q \in Requests :
                                  (local[q].pc = "write" /\ loaded
                                     => Alike(local[q].snap[h], standing[h]))'
        BY DEF GrantedOk
      <3>1. told[h] = "granted" =>
                /\ KeyIsThere(ledger[h], h)
                /\ phase = "up" /\ loaded => Alike(standing[h], ledger[h])
                /\ \A q \in Requests :
                     local[q].pc = "write" /\ loaded => Alike(local[q].snap[h], standing[h])
        BY DEF KeptInv, GrantedOk
      <3> QED
        BY <1>1, <1>2, <2>1, <2>2, <2>3, <2>4, <3>1 DEF KeyIsThere, Alike, Now,
           NowAt, OthersStay, Named, NoRecord, diskVars, startVars
    <2>13. LedgerOwed'
      BY <2>2 DEF LedgerOwed
    <2>14. StartOk' /\ CleanStart' /\ FaultsOk'
      BY <1>1, <1>3, <2>1, UpKeepsStart DEF TypeOK
    <2>15. KeepsEnd
      <3> SUFFICES ASSUME MaxFaults <= 1, EndInv
                      PROVE  EndInv'
        BY DEF KeepsEnd
      <3>1. Spent'
        BY <1>1, <1>2, <2>1, <2>2, <2>3, <2>4 DEF EndInv, Spent, startVars
      <3>2. EndedOk'
        <4> SUFFICES ASSUME NEW h \in Grants, Ended(h)'
                        PROVE  /\ (cached[h] = 0)'
                               /\ Unrecorded(h)' \/ (NoKeys(h) /\ faults = 1)'
          BY DEF EndedOk
        <4>1. Ended(h) => /\ cached[h] = 0
                          /\ Unrecorded(h) \/ (NoKeys(h) /\ faults = 1)
          BY DEF EndInv, EndedOk
        <4> QED
          BY <1>1, <1>2, <2>1, <2>2, <2>3, <2>4, <4>1 DEF Ended, Unrecorded, NoKeys,
             Now, NowAt, OthersStay, Named, NoRecord, diskVars
      <3>3. RevokedKeys'
        <4> SUFFICES ASSUME NEW q \in Requests,
                               (local[q].op = "revoke" /\ local[q].pc \in {"save", "write"})'
                        PROVE  (NoKeys(local[q].g) \/ faults = 1)'
          BY DEF RevokedKeys
        <4>1. /\ local[q].g \in Grants /\ RevokeOk(q) /\ PlaceOk(q)
              /\ local[q].op = "revoke" /\ local[q].pc \in {"save", "write"}
                   => NoKeys(local[q].g) \/ faults = 1
          BY <1>1, LocalFields DEF EndInv, RevokedKeys, KeptInv, OperationsOk,
             PlacesOk
        <4> QED
          BY <1>1, <1>2, <2>1, <2>2, <2>3, <2>4, <4>1 DEF NoKeys, RevokeOk, PlaceOk,
             Now, NowAt, OthersStay, diskVars
      <3> QED
        BY <3>1, <3>2, <3>3 DEF EndInv
    <2> QED
      BY <2>5, <2>6, <2>7, <2>8, <2>9, <2>10, <2>11, <2>12, <2>13, <2>14, <2>15
         DEF KeptInv
  <1> QED
    BY <1>8, <1>9, <1>10

LEMMA AskKeeps ==
  ASSUME KeptInv, NEW r \in Requests, Ask(r)
  PROVE  KeptInv' /\ KeepsEnd
  <1>1. /\ phase = "up" /\ local[r].pc = "idle" /\ TypeOK
        /\ UNCHANGED <<diskVars, vaultKind, phase, startVars, standing, cached,
                       dead, ledgerMu, dirty, told, saveFailed, bounds, faults>>
    BY DEF Ask, At, KeptInv
  <1>2. PICK op \in OpsOf[r], g \in Grants :
          /\ op = "create" => g \in Fresh
          /\ local' = [local EXCEPT ![r].op = op, ![r].g = g,
                ![r].pc = IF op = "create" /\ ~loaded THEN "done" ELSE Entry(op)]
    BY Zenon DEF Ask
  <1>3. op \in {"create", "serve", "revoke", "stop"}
    BY <1>2, StandingOpsAssumption
  <1>4. PICK p \in {"done", "key", "check", "remove", "flush"} :
          /\ p = IF op = "create" /\ ~loaded THEN "done" ELSE Entry(op)
          /\ p = "key" => op = "create" /\ loaded
          /\ p = "check" => op = "serve"
          /\ p = "remove" => op = "revoke"
          /\ p = "flush" => op = "stop"
    BY <1>3 DEF Entry
  <1>5. /\ LocalsTyped' /\ OthersStay(r)
        /\ local'[r].op = op /\ local'[r].g = g /\ local'[r].pc = p
        /\ local'[r].sealed = local[r].sealed /\ local'[r].snap = local[r].snap
        /\ local'[r].left = local[r].left
    <2> DEFINE new == [local[r] EXCEPT !.op = op, !.g = g, !.pc = p]
    <2>1. /\ new \in Local /\ new.op = op /\ new.g = g /\ new.pc = p
          /\ new.sealed = local[r].sealed /\ new.snap = local[r].snap
          /\ new.left = local[r].left
      BY <1>1, <1>3, <1>4, LocalFields DEF Local, Places
    <2>2. local' = [local EXCEPT ![r] = new]
      BY <1>1, <1>2, <1>4, LocalFields DEF Local, TypeOK
    <2> HIDE DEF new
    <2> QED
      BY <1>1, <2>1, <2>2 DEF TypeOK, OthersStay, LocalsTyped
  <1>6. local[r].op = "none"
    BY <1>1 DEF KeptInv, PlacesOk, PlaceOk
  <1>7. op = "create" => g \in Grants \ Old /\ \A q \in Requests : ~Creates(q, g)
    BY <1>2 DEF Fresh, Creates
  <1>8. TypeOK'
    BY <1>1, <1>5 DEF TypeOK, LocalsTyped, diskVars, startVars, bounds
  <1>9. PlacesOk'
    <2> SUFFICES ASSUME NEW q \in Requests
                    PROVE  PlaceOk(q)'
      BY DEF PlacesOk
    <2>1. PlaceOk(q) /\ PlaceOk(r)
      BY DEF KeptInv, PlacesOk
    <2> QED
      BY <1>1, <1>3, <1>4, <1>5, <2>1 DEF PlaceOk, Now, NowAt, OthersStay, startVars
  <1>10. MemoryOk'
    BY <1>1, <1>3, <1>4, <1>5, <1>6 DEF KeptInv, MemoryOk, Named, NoRecord,
       startVars
  <1>11. GensOk'
    BY <1>1, <1>3, <1>4, <1>5, <1>6 DEF KeptInv, GensOk, Named, NoRecord, Now,
       NowAt, OthersStay, diskVars
  <1>12. MintedOnce'
    BY <1>5, <1>6, <1>7 DEF KeptInv, MintedOnce, Creates, OthersStay
  <1>13. UnpublishedIsUnknown'
    <2> SUFFICES ASSUME NEW h \in Grants, Unpublished(h)'
                    PROVE  Unknown(h)'
      BY DEF UnpublishedIsUnknown
    <2>1. Unpublished(h)
      BY <1>1, <1>3, <1>4, <1>5, <1>6, <1>7 DEF Unpublished, Creates, Now, NowAt,
         OthersStay
    <2>2. Unknown(h)
      BY <2>1 DEF KeptInv, UnpublishedIsUnknown
    <2> QED
      BY <1>1, <1>3, <1>4, <1>5, <1>6, <1>7, <2>1, <2>2 DEF Unpublished, Unknown,
         Creates, Now, NowAt, OthersStay, Named, NoRecord, diskVars
  <1>14. OperationsOk'
    <2> SUFFICES ASSUME NEW q \in Requests
                    PROVE  CreateOk(q)' /\ RevokeOk(q)'
      BY DEF OperationsOk
    <2>1. /\ CreateOk(q) /\ RevokeOk(q) /\ PlaceOk(q) /\ PlaceOk(r)
          /\ local[q].g \in Grants /\ MintedOnce
      BY <1>1, LocalFields DEF KeptInv, OperationsOk, PlacesOk
    <2>2. CreateOk(q)'
      BY <1>1, <1>3, <1>4, <1>5, <1>6, <2>1 DEF CreateOk, MintedOnce, Creates,
         PlaceOk, KeyIsThere, Alike, Now, NowAt, OthersStay, Named, NoRecord,
         diskVars, startVars
    <2>3. RevokeOk(q)'
      BY <1>1, <1>3, <1>4, <1>5, <1>6, <2>1 DEF RevokeOk, PlaceOk, Now, NowAt,
         OthersStay, Named, NoRecord, diskVars, startVars
    <2> QED
      BY <2>2, <2>3
  <1>15. GrantedOk'
    <2> SUFFICES ASSUME NEW h \in Grants, told'[h] = "granted"
                    PROVE  /\ KeyIsThere(ledger[h], h)'
                           /\ (phase = "up" /\ loaded => Alike(standing[h], ledger[h]))'
                           /\ \A q \in Requests :
                                (local[q].pc = "write" /\ loaded
                                   => Alike(local[q].snap[h], standing[h]))'
      BY DEF GrantedOk
    <2>1. told[h] = "granted" =>
              /\ KeyIsThere(ledger[h], h)
              /\ phase = "up" /\ loaded => Alike(standing[h], ledger[h])
              /\ \A q \in Requests :
                   local[q].pc = "write" /\ loaded => Alike(local[q].snap[h], standing[h])
      BY DEF KeptInv, GrantedOk
    <2> QED
      BY <1>1, <1>3, <1>4, <1>5, <1>6, <2>1 DEF KeyIsThere, Alike, Now, NowAt,
         OthersStay, Named, NoRecord, diskVars, startVars
  <1>16. LedgerOwed'
    BY <1>1, <1>3, <1>4, <1>5, <1>6 DEF KeptInv, LedgerOwed, Owing, Alike, Now,
       NowAt, OthersStay, diskVars, startVars, PlacesOk, PlaceOk
  <1>17. StartOk' /\ CleanStart' /\ FaultsOk'
    BY <1>1, UpKeepsStart DEF TypeOK
  <1>18. KeepsEnd
    <2> SUFFICES ASSUME MaxFaults <= 1, EndInv
                    PROVE  EndInv'
      BY DEF KeepsEnd
    <2>1. Spent'
      BY <1>1, <1>3, <1>4, <1>5, <1>6 DEF EndInv, Spent, startVars
    <2>2. EndedOk'
      <3> SUFFICES ASSUME NEW h \in Grants, Ended(h)'
                      PROVE  /\ (cached[h] = 0)'
                             /\ Unrecorded(h)' \/ (NoKeys(h) /\ faults = 1)'
        BY DEF EndedOk
      <3>1. Ended(h) => /\ cached[h] = 0
                        /\ Unrecorded(h) \/ (NoKeys(h) /\ faults = 1)
        BY DEF EndInv, EndedOk
      <3> QED
        BY <1>1, <1>3, <1>4, <1>5, <1>6, <3>1 DEF Ended, Unrecorded, NoKeys, Now,
           NowAt, OthersStay, Named, NoRecord, diskVars
    <2>3. RevokedKeys'
      <3> SUFFICES ASSUME NEW q \in Requests,
                             (local[q].op = "revoke" /\ local[q].pc \in {"save", "write"})'
                      PROVE  (NoKeys(local[q].g) \/ faults = 1)'
        BY DEF RevokedKeys
      <3>1. /\ local[q].g \in Grants /\ RevokeOk(q) /\ PlaceOk(q)
            /\ local[q].op = "revoke" /\ local[q].pc \in {"save", "write"}
                 => NoKeys(local[q].g) \/ faults = 1
        BY <1>1, LocalFields DEF EndInv, RevokedKeys, KeptInv, OperationsOk,
           PlacesOk
      <3> QED
        BY <1>1, <1>3, <1>4, <1>5, <1>6, <3>1 DEF NoKeys, RevokeOk, PlaceOk, Now,
           NowAt, OthersStay, diskVars
    <2> QED
      BY <2>1, <2>2, <2>3 DEF EndInv
  <1> QED
    BY <1>8, <1>9, <1>10, <1>11, <1>12, <1>13, <1>14, <1>15, <1>16, <1>17, <1>18
       DEF KeptInv

LEMMA GoneKeeps ==
  ASSUME KeptInv, Gone, crashes' \in Nat
  PROVE  KeptInv' /\ KeepsEnd
  <1>1. /\ TypeOK /\ phase' = "down" /\ standing' = NoRecords
        /\ cached' = [g \in Grants |-> 0] /\ dead' = {}
        /\ ledgerMu' = NoOne /\ dirty' = FALSE /\ saveFailed' = FALSE
        /\ names' = {} /\ todo' = {} /\ moving' = {}
        /\ UNCHANGED <<diskVars, vaultKind, loaded, jobsLoaded, reach, target,
                       faultsAtStart, told, moves, faults>>
    BY Zenon DEF Gone, KeptInv
  <1>2. /\ LocalsTyped'
        /\ \A q \in Requests :
             /\ local'[q].op = local[q].op /\ local'[q].g = local[q].g
             /\ local'[q].pc \in {"idle", "done"}
             /\ local'[q].pc = "idle" => local[q].pc = "idle"
    <2>1. local' = [q \in Requests |-> IF local[q].pc = "idle" THEN local[q]
               ELSE [local[q] EXCEPT !.pc = "done", !.snap = NoRecords, !.left = {}]]
      BY Zenon DEF Gone
    <2>2. ASSUME NEW q \in Requests
          PROVE  /\ local'[q] \in Local
                 /\ local'[q].op = local[q].op /\ local'[q].g = local[q].g
                 /\ local'[q].pc \in {"idle", "done"}
                 /\ local'[q].pc = "idle" => local[q].pc = "idle"
      <3>1. local'[q] = IF local[q].pc = "idle" THEN local[q]
               ELSE [local[q] EXCEPT !.pc = "done", !.snap = NoRecords, !.left = {}]
        BY <2>1, Zenon
      <3>2. NoRecords \in [Grants -> Record] /\ "done" \in Places
        BY DEF NoRecords, NoRecord, Record, Places
      <3> QED
        BY <1>1, <3>1, <3>2, LocalFields DEF Local
    <2>3. local' \in [Requests -> Local]
      BY <2>1, <2>2, Zenon
    <2> QED
      BY <2>2, <2>3 DEF LocalsTyped
  <1>3. \A g \in Grants : standing'[g].wrap = "none" /\ cached'[g] = 0
    BY <1>1 DEF NoRecords, NoRecord
  <1>4. standing' \in [Grants -> Record] /\ cached' \in [Grants -> Nat]
    BY <1>1 DEF NoRecords, NoRecord, Record
  <1>5. TypeOK'
    BY <1>1, <1>2, <1>4 DEF TypeOK, LocalsTyped, diskVars
  <1>6. PlacesOk'
    BY <1>1, <1>2, StandingNoOneAssumption DEF KeptInv, PlacesOk, PlaceOk
  <1>7. MemoryOk'
    BY <1>1, <1>3 DEF MemoryOk, Named
  <1>8. GensOk'
    BY <1>1, <1>2, <1>3 DEF KeptInv, GensOk, Named, diskVars
  <1>9. MintedOnce'
    BY <1>2 DEF KeptInv, MintedOnce, Creates
  <1>10. UnpublishedIsUnknown'
    <2> SUFFICES ASSUME NEW h \in Grants, Unpublished(h)'
                 PROVE  Unknown(h)'
      BY DEF UnpublishedIsUnknown
    <2>1. Unpublished(h)
      BY <1>2 DEF Unpublished, Creates
    <2>2. Unknown(h)
      BY <2>1 DEF KeptInv, UnpublishedIsUnknown
    <2> QED
      BY <1>1, <1>2, <1>3, <2>2 DEF Unknown, Named, diskVars
  <1>11. OperationsOk'
    BY <1>2 DEF OperationsOk, CreateOk, RevokeOk
  <1>12. GrantedOk'
    BY <1>1, <1>2 DEF KeptInv, GrantedOk, KeyIsThere, diskVars
  <1>13. LedgerOwed'
    BY <1>1 DEF LedgerOwed
  <1>14. StartOk' /\ CleanStart' /\ FaultsOk'
    BY <1>1, <1>2 DEF KeptInv, StartOk, CleanStart, FaultsOk, Starting
  <1>15. KeepsEnd
    <2> SUFFICES ASSUME EndInv
                 PROVE  EndInv'
      BY DEF KeepsEnd
    <2>1. Spent'
      BY <1>1 DEF EndInv, Spent, KeptInv, TypeOK
    <2>2. EndedOk'
      BY <1>1, <1>2, <1>3 DEF EndInv, EndedOk, Ended, Unrecorded, NoKeys, Named,
         diskVars
    <2>3. RevokedKeys'
      BY <1>2 DEF RevokedKeys
    <2> QED
      BY <2>1, <2>2, <2>3 DEF EndInv
  <1> QED
    BY <1>5, <1>6, <1>7, <1>8, <1>9, <1>10, <1>11, <1>12, <1>13, <1>14, <1>15
       DEF KeptInv

LEMMA VaultMovesKeeps ==
  ASSUME KeptInv, VaultMoves
  PROVE  KeptInv' /\ KeepsEnd
  <1>1. /\ TypeOK /\ moves' = moves + 1
        /\ vaultKind' = CHOOSE k \in Kinds : k # vaultKind
        /\ UNCHANGED <<diskVars, phase, startVars, standing, cached, dead,
                       ledgerMu, dirty, local, told, saveFailed, crashes, faults>>
    BY DEF VaultMoves, KeptInv
  <1>2. vaultKind' \in Kinds
    <2>1. \E k \in Kinds : k # vaultKind
      BY DEF Kinds
    <2> QED
      BY <1>1, <2>1
  <1>3. TypeOK'
    BY <1>1, <1>2 DEF TypeOK, diskVars, startVars
  <1>4. /\ PlacesOk' /\ MemoryOk' /\ GensOk' /\ MintedOnce' /\ UnpublishedIsUnknown'
        /\ OperationsOk' /\ GrantedOk' /\ LedgerOwed' /\ EndInv' = EndInv
    BY <1>1 DEF KeptInv, PlacesOk, PlaceOk, MemoryOk, GensOk, MintedOnce, Creates,
       UnpublishedIsUnknown, Unpublished, Unknown, OperationsOk, CreateOk, RevokeOk,
       GrantedOk, KeyIsThere, Alike, LedgerOwed, Owing, Named, diskVars, startVars,
       EndInv, Spent, EndedOk, Ended, RevokedKeys, Unrecorded, NoKeys
  <1>5. StartOk' /\ CleanStart' /\ FaultsOk'
    BY <1>1 DEF KeptInv, StartOk, CleanStart, FaultsOk, Starting, Named, NoKeys,
       diskVars, startVars
  <1> QED
    BY <1>3, <1>4, <1>5 DEF KeptInv, KeepsEnd

-------------------------------------------------------------------------------
(* A service that starts. *)

\* No request runs, and nothing of an earlier service is remembered.
LEMMA Quiet ==
  ASSUME KeptInv, phase # "up",
         UNCHANGED <<cached, dead, ledgerMu, local, told, saveFailed>>
  PROVE  /\ PlacesOk' /\ MintedOnce' /\ OperationsOk' /\ RevokedKeys'
         /\ dead = {} /\ saveFailed = FALSE /\ \A g \in Grants : cached[g] = 0
         /\ \A q \in Requests : local[q].pc \in {"idle", "done"}
  <1>1. \A q \in Requests : local[q].pc \in {"idle", "done"}
    BY DEF KeptInv, PlacesOk, PlaceOk
  <1>2. dead = {} /\ saveFailed = FALSE /\ \A g \in Grants : cached[g] = 0
    BY DEF KeptInv, MemoryOk, TypeOK
  <1>3. PlacesOk'
    BY <1>1 DEF KeptInv, PlacesOk, PlaceOk
  <1>4. MintedOnce'
    BY DEF KeptInv, MintedOnce, Creates
  <1>5. OperationsOk'
    BY <1>1 DEF OperationsOk, CreateOk, RevokeOk
  <1>6. RevokedKeys'
    BY <1>1 DEF RevokedKeys
  <1> QED
    BY <1>1, <1>2, <1>3, <1>4, <1>5, <1>6

\* What has no fault now had none before.
LEMMA StillClean ==
  ASSUME TypeOK, FaultsOk, faults' \in 0 .. MaxFaults, faults <= faults',
         faultsAtStart' = faultsAtStart
  PROVE  /\ FaultsOk'
         /\ faults' = faultsAtStart' => faults = faultsAtStart /\ faults' = faults
  <1>1. faults \in Nat /\ faultsAtStart \in Nat /\ faults' \in Nat
    BY StandingBoundsAssumption DEF TypeOK
  <1> QED
    BY <1>1 DEF FaultsOk

LEMMA LoadFaults ==
  ASSUME NEW l \in BOOLEAN, NEW j \in BOOLEAN, NEW e \in BOOLEAN,
         NEW S, S = {x \in {<<1, l>>, <<2, j>>, <<3, e>>} : ~x[2]}
  PROVE  Cardinality(S) \in Nat /\ (Cardinality(S) = 0 => l /\ j /\ e)
  <1>1. IsFiniteSet(S)
    <2>1. IsFiniteSet({<<1, l>>})
      BY FS_Singleton
    <2>2. IsFiniteSet({<<1, l>>} \cup {<<2, j>>})
      BY <2>1, FS_AddElement
    <2>3. IsFiniteSet(({<<1, l>>} \cup {<<2, j>>}) \cup {<<3, e>>})
      BY <2>2, FS_AddElement
    <2>4. S \subseteq ({<<1, l>>} \cup {<<2, j>>}) \cup {<<3, e>>}
      OBVIOUS
    <2> QED
      BY <2>3, <2>4, FS_Subset
  <1>2. S = {} => l /\ j /\ e
    <2>1. /\ <<1, l>> \notin S => l
          /\ <<2, j>> \notin S => j
          /\ <<3, e>> \notin S => e
      OBVIOUS
    <2> QED
      BY <2>1
  <1> QED
    BY <1>1, <1>2, FS_CardinalityType, FS_EmptySet

LEMMA LoadKeeps ==
  ASSUME KeptInv, Load
  PROVE  KeptInv' /\ KeepsEnd
  <1>1. /\ phase = "down" /\ phase' = "move" /\ TypeOK /\ StartOk /\ MemoryOk
        /\ faultsAtStart' = faults /\ target' = vaultKind /\ moving' = {}
        /\ UNCHANGED <<diskVars, vaultKind, cached, dead, ledgerMu, dirty, local,
                       told, saveFailed, bounds>>
    BY DEF Load, KeptInv
  <1>2. /\ PlacesOk' /\ MintedOnce' /\ OperationsOk' /\ RevokedKeys'
        /\ dead = {} /\ saveFailed = FALSE /\ \A h \in Grants : cached[h] = 0
        /\ \A q \in Requests : local[q].pc \in {"idle", "done"}
        /\ dead' = dead /\ local' = local /\ told' = told /\ cached' = cached
        /\ saveFailed' = saveFailed
    BY <1>1, Quiet
  <1>3. PICK l \in BOOLEAN, j \in BOOLEAN, e \in BOOLEAN :
          /\ loaded' = l /\ jobsLoaded' = j /\ reach' = e
          /\ Fault(Cardinality({x \in {<<1, l>>, <<2, j>>, <<3, e>>} : ~x[2]}))
          /\ standing' = IF l THEN ledger ELSE NoRecords
          /\ names' = IF l THEN Named(ledger) ELSE {}
          /\ todo' = names'
    BY DEF Load
  <1>4. /\ faults' \in 0 .. MaxFaults /\ faults <= faults' /\ faults \in Nat
        /\ faults' \in Nat /\ faults' <= MaxFaults /\ MaxFaults \in Nat
        /\ faults' = faults => l /\ j /\ e
    <2> DEFINE S == {x \in {<<1, l>>, <<2, j>>, <<3, e>>} : ~x[2]}
    <2>1. Cardinality(S) \in Nat /\ (Cardinality(S) = 0 => l /\ j /\ e)
      BY LoadFaults
    <2>2. faults' = faults + Cardinality(S) /\ faults' <= MaxFaults
      BY <1>3 DEF Fault
    <2> HIDE DEF S
    <2>3. faults \in Nat /\ MaxFaults \in Nat
      BY <1>1, StandingBoundsAssumption DEF TypeOK
    <2>4. faults' = faults => Cardinality(S) = 0
      BY <2>1, <2>2, <2>3
    <2>5. faults' = faults => l /\ j /\ e
      BY <2>1, <2>4, Zenon
    <2> QED
      BY <2>1, <2>2, <2>3, <2>5
  <1>5. /\ NoRecords \in [Grants -> Record]
        /\ \A h \in Grants : NoRecords[h].wrap = "none"
    BY DEF NoRecords, NoRecord, Record
  <1>6. /\ l = TRUE => standing' = ledger
        /\ \A h \in Grants : standing'[h].wrap # "none" => l = TRUE /\ standing'[h] = ledger[h]
        /\ \A h : h \in names' <=> l = TRUE /\ h \in Grants /\ ledger[h].wrap # "none"
        /\ todo' = names' /\ loaded' = l
    BY <1>3, <1>5 DEF Named
  <1>7. TypeOK'
    BY <1>1, <1>3, <1>4, <1>5, <1>6 DEF TypeOK, diskVars, startKeeps, bounds
  <1>8. MemoryOk'
    BY <1>1, <1>2, <1>6 DEF KeptInv, MemoryOk, Named, startKeeps
  <1>9. GensOk'
    BY <1>1, <1>2, <1>6 DEF KeptInv, GensOk, Named, diskVars, startKeeps
  <1>10. UnpublishedIsUnknown'
    <2> SUFFICES ASSUME NEW h \in Grants, Unpublished(h)'
                 PROVE  Unknown(h)'
      BY DEF UnpublishedIsUnknown
    <2>1. Unpublished(h)
      BY <1>1, <1>2, <1>6 DEF Unpublished, Creates, startKeeps
    <2>2. Unknown(h)
      BY <2>1 DEF KeptInv, UnpublishedIsUnknown
    <2> QED
      BY <1>1, <1>2, <1>6, <2>2 DEF Unknown, Named, diskVars, startKeeps
  <1>11. GrantedOk'
    BY <1>1, <1>2, <1>6 DEF KeptInv, GrantedOk, KeyIsThere, Named, diskVars,
       startKeeps
  <1>12. LedgerOwed'
    BY <1>1 DEF LedgerOwed
  <1>13. StartOk'
    BY <1>1, <1>6 DEF KeptInv, StartOk, Starting, Named, diskVars, startKeeps
  <1>14. CleanStart' /\ FaultsOk'
    BY <1>1, <1>3, <1>4 DEF CleanStart, FaultsOk, Starting, diskVars, startKeeps,
       TypeOK
  <1>15. KeepsEnd
    <2> SUFFICES ASSUME MaxFaults <= 1, EndInv
                 PROVE  EndInv'
      BY DEF KeepsEnd
    <2>1. Spent'
      BY <1>1, <1>2, <1>3, <1>4 DEF EndInv, Spent, startKeeps
    <2>2. EndedOk'
      BY <1>1, <1>2, <1>4, <1>6 DEF EndInv, EndedOk, Ended, Unrecorded, NoKeys,
         Named, diskVars, startKeeps
    <2> QED
      BY <1>2, <2>1, <2>2 DEF EndInv
  <1> QED
    BY <1>2, <1>7, <1>8, <1>9, <1>10, <1>11, <1>12, <1>13, <1>14, <1>15 DEF KeptInv

LEMMA SettleKeeps ==
  ASSUME KeptInv, Settle
  PROVE  KeptInv' /\ KeepsEnd
  <1>1. /\ phase = "move" /\ phase' = "move" /\ TypeOK /\ StartOk /\ MemoryOk
        /\ UNCHANGED <<ledger, made, phase, standing, moving, startKeeps>>
    BY DEF Settle, KeptInv
  <1>2. /\ PlacesOk' /\ MintedOnce' /\ OperationsOk' /\ RevokedKeys'
        /\ dead = {} /\ saveFailed = FALSE /\ \A h \in Grants : cached[h] = 0
        /\ \A q \in Requests : local[q].pc \in {"idle", "done"}
        /\ dead' = dead /\ local' = local /\ told' = told /\ cached' = cached
        /\ saveFailed' = saveFailed
    BY <1>1, Quiet DEF startKeeps
  <1>3. PICK g \in todo : /\ Settled(g) /\ DeleteKeys(g, Kinds \ {target})
                          /\ todo' = todo \ {g}
    BY DEF Settle
  <1>4. g \in Grants /\ Kinds \ {target} \in SUBSET Kinds /\ target \in Kinds
    BY <1>1, <1>3 DEF TypeOK
  <1>5. /\ keys' \in [Grants -> [Kinds -> Nat]]
        /\ faults' \in 0 .. MaxFaults /\ faults <= faults' /\ faults' \in Nat
        /\ faults \in Nat /\ MaxFaults \in Nat
    BY <1>1, <1>3, <1>4, Deletes, StandingBoundsAssumption DEF TypeOK
  <1>6. /\ \A h \in Grants \ {g} : keys'[h] = keys[h]
        /\ \A h \in Grants, k \in Kinds : keys'[h][k] \in {0, keys[h][k]}
        /\ keys'[g][target] = keys[g][target]
    BY <1>1, <1>3, <1>4, Deletes DEF TypeOK
  <1>7. /\ loaded = TRUE /\ standing = ledger /\ g \in Named(standing)
        /\ standing[g].wrap = target /\ g \notin moving
    BY <1>1, <1>3 DEF Settled, StartOk, MemoryOk, Starting, TypeOK
  <1>8. TypeOK'
    BY <1>1, <1>2, <1>3, <1>5 DEF TypeOK, diskVars, startKeeps, bounds
  <1>9. MemoryOk'
    BY <1>1, <1>2, <1>3, <1>4, <1>5, <1>6, <1>7 DEF KeptInv, MemoryOk, Named,
       startKeeps
  <1>10. GensOk'
    BY <1>1, <1>2, <1>3, <1>4, <1>5, <1>6, <1>7 DEF KeptInv, GensOk, Named,
       diskVars, startKeeps
  <1>11. UnpublishedIsUnknown'
    <2> SUFFICES ASSUME NEW h \in Grants, Unpublished(h)'
                 PROVE  Unknown(h)'
      BY DEF UnpublishedIsUnknown
    <2>1. Unpublished(h)
      BY <1>1, <1>2, <1>3, <1>4, <1>5, <1>6, <1>7 DEF Unpublished, Creates,
         startKeeps
    <2>2. Unknown(h)
      BY <2>1 DEF KeptInv, UnpublishedIsUnknown
    <2> QED
      BY <1>1, <1>2, <1>3, <1>4, <1>5, <1>6, <1>7, <2>2 DEF Unknown, Named,
         diskVars, startKeeps
  <1>12. GrantedOk'
    BY <1>1, <1>2, <1>3, <1>4, <1>5, <1>6, <1>7 DEF KeptInv, GrantedOk, KeyIsThere,
       Named, diskVars, startKeeps
  <1>13. LedgerOwed'
    BY <1>1 DEF LedgerOwed
  <1>14. StartOk'
    BY <1>1, <1>2, <1>3, <1>4, <1>5, <1>6, <1>7 DEF KeptInv, StartOk, Starting,
       Named, diskVars, startKeeps
  <1>15. CleanStart' /\ FaultsOk'
    BY <1>1, <1>2, <1>3, <1>4, <1>5, <1>6, <1>7, StillClean DEF KeptInv, CleanStart,
       FaultsOk, Starting, diskVars, startKeeps, TypeOK
  <1>16. KeepsEnd
    <2> SUFFICES ASSUME MaxFaults <= 1, EndInv
                 PROVE  EndInv'
      BY DEF KeepsEnd
    <2>1. Spent'
      BY <1>1, <1>2, <1>3, <1>4, <1>5, <1>6, <1>7 DEF EndInv, Spent, startKeeps
    <2>2. EndedOk'
      BY <1>1, <1>2, <1>3, <1>4, <1>5, <1>6, <1>7 DEF EndInv, EndedOk, Ended,
         Unrecorded, NoKeys, Named, diskVars, startKeeps
    <2> QED
      BY <1>2, <2>1, <2>2 DEF EndInv
  <1> QED
    BY <1>2, <1>8, <1>9, <1>10, <1>11, <1>12, <1>13, <1>14, <1>15, <1>16 DEF KeptInv

LEMMA ResealKeeps ==
  ASSUME KeptInv, Reseal
  PROVE  KeptInv' /\ KeepsEnd
  <1>1. /\ phase = "move" /\ phase' = "move" /\ TypeOK /\ StartOk /\ MemoryOk
        /\ UNCHANGED <<ledger, phase, standing, startKeeps>>
    BY DEF Reseal, KeptInv
  <1>2. /\ PlacesOk' /\ MintedOnce' /\ OperationsOk' /\ RevokedKeys'
        /\ dead = {} /\ saveFailed = FALSE /\ \A h \in Grants : cached[h] = 0
        /\ \A q \in Requests : local[q].pc \in {"idle", "done"}
        /\ dead' = dead /\ local' = local /\ told' = told /\ cached' = cached
        /\ saveFailed' = saveFailed
    BY <1>1, Quiet DEF startKeeps
  <1>3. PICK g \in todo :
          LET old == standing[g].wrap
              existed == keys[g][target] # 0
              new == [keys EXCEPT ![g][target] = made[g] + 1]
          IN  /\ todo' = todo \ {g}
              /\ \/ UNCHANGED <<keys, made, moving, faults>>
                 \/ /\ Reachable(target) /\ ~existed
                    /\ keys' = new /\ made' = [made EXCEPT ![g] = @ + 1]
                    /\ Fault(1) /\ UNCHANGED moving
                 \/ /\ Reachable(target) /\ Reachable(old)
                    /\ keys[g][old] = standing[g].gen
                    /\ IF existed THEN UNCHANGED <<keys, made>>
                       ELSE keys' = new /\ made' = [made EXCEPT ![g] = @ + 1]
                    /\ moving' = moving \cup {g}
                    /\ UNCHANGED faults
    BY DEF Reseal
  <1>4. /\ g \in Grants /\ g \in todo /\ target \in Kinds /\ target # "none"
        /\ made[g] \in Nat /\ standing[g].wrap # target
        /\ made[g] + 1 # 0 /\ faults \in Nat /\ faults \in 0 .. MaxFaults
        /\ MaxFaults \in Nat
    BY <1>1, <1>3, StandingBoundsAssumption DEF TypeOK, Reseal, Settled, Kinds
  <1>5. /\ loaded = TRUE /\ standing = ledger /\ g \in Named(standing)
        /\ standing[g].wrap \in Kinds /\ standing[g].gen # 0
    BY <1>1, <1>4 DEF StartOk, MemoryOk, Starting, TypeOK, KeptInv, GensOk, Named,
       Record
  <1>6. /\ todo' = todo \ {g}
        /\ \/ UNCHANGED <<keys, made, moving, faults>>
           \/ /\ keys' = [keys EXCEPT ![g][target] = made[g] + 1]
              /\ made' = [made EXCEPT ![g] = @ + 1]
              /\ faults' = faults + 1 /\ faults' <= MaxFaults
              /\ moving' = moving
           \/ /\ keys[g][standing[g].wrap] = standing[g].gen
              /\ \/ keys[g][target] # 0 /\ UNCHANGED <<keys, made>>
                 \/ /\ keys' = [keys EXCEPT ![g][target] = made[g] + 1]
                    /\ made' = [made EXCEPT ![g] = @ + 1]
              /\ moving' = moving \cup {g} /\ faults' = faults
    BY <1>3, Zenon DEF Fault
  <1>7. /\ keys \in [Grants -> [Kinds -> Nat]] /\ made \in [Grants -> Nat]
        /\ keys' \in [Grants -> [Kinds -> Nat]] /\ made' \in [Grants -> Nat]
    <2>1. keys \in [Grants -> [Kinds -> Nat]] /\ made \in [Grants -> Nat]
      BY <1>1 DEF TypeOK
    <2>2. /\ [keys EXCEPT ![g][target] = made[g] + 1] \in [Grants -> [Kinds -> Nat]]
          /\ [made EXCEPT ![g] = @ + 1] \in [Grants -> Nat]
      BY <1>4, <2>1
    <2> QED
      BY <1>6, <2>1, <2>2
  <1>8. /\ \A h \in Grants \ {g} : keys'[h] = keys[h]
        /\ \A k \in Kinds \ {target} : keys'[g][k] = keys[g][k]
        /\ keys'[g][target] \in {keys[g][target], made[g] + 1}
        /\ g \in moving' \ moving => keys'[g][target] # 0
        /\ keys[g][target] # 0 => keys'[g][target] # 0
    BY <1>4, <1>6, <1>7
  <1>9. faults' \in 0 .. MaxFaults /\ faults <= faults'
    BY <1>4, <1>6
  <1>10. \/ keys' = keys
         \/ faults' = faults + 1 /\ faults' <= MaxFaults
         \/ \E k \in Kinds : keys[g][k] # 0
    BY <1>4, <1>5, <1>6
  <1>11. moving' \subseteq moving \cup {g}
    BY <1>6
  <1>12. TypeOK'
    BY <1>1, <1>2, <1>4, <1>6, <1>7, <1>9, <1>11 DEF TypeOK, diskVars, startKeeps,
       bounds
  <1>13. MemoryOk'
    BY <1>1, <1>2 DEF KeptInv, MemoryOk, Named, startKeeps
  <1>14. GensOk'
    BY <1>1, <1>2 DEF KeptInv, GensOk, Named, diskVars, startKeeps
  <1>15. UnpublishedIsUnknown'
    <2> SUFFICES ASSUME NEW h \in Grants, Unpublished(h)'
                 PROVE  Unknown(h)'
      BY DEF UnpublishedIsUnknown
    <2>1. Unpublished(h)
      BY <1>1, <1>2, <1>4, <1>5, <1>6, <1>8 DEF Unpublished, Creates, startKeeps
    <2>2. Unknown(h)
      BY <2>1 DEF KeptInv, UnpublishedIsUnknown
    <2> QED
      BY <1>1, <1>2, <1>4, <1>5, <1>6, <1>8, <2>2 DEF Unknown, Named, diskVars,
         startKeeps
  <1>16. GrantedOk'
    BY <1>1, <1>2, <1>4, <1>5, <1>8 DEF KeptInv, GrantedOk, KeyIsThere, Named,
       diskVars, startKeeps
  <1>17. LedgerOwed'
    BY <1>1 DEF LedgerOwed
  <1>18. StartOk'
    BY <1>1, <1>4, <1>5, <1>8, <1>11, <1>6 DEF KeptInv, StartOk, Starting, Named,
       diskVars, startKeeps
  <1>19. CleanStart' /\ FaultsOk'
    BY <1>1, <1>9 DEF KeptInv, CleanStart, FaultsOk, Starting, diskVars, startKeeps,
       TypeOK
  <1>20. KeepsEnd
    <2> SUFFICES ASSUME MaxFaults <= 1, EndInv
                 PROVE  EndInv'
      BY DEF KeepsEnd
    <2>1. Spent'
      BY <1>1, <1>2, <1>4, <1>9 DEF EndInv, Spent, startKeeps
    <2>2. EndedOk'
      BY <1>1, <1>2, <1>4, <1>8, <1>9, <1>10 DEF EndInv, EndedOk, Ended, Unrecorded,
         NoKeys, Named, diskVars, startKeeps
    <2> QED
      BY <1>2, <2>1, <2>2 DEF EndInv
  <1> QED
    BY <1>2, <1>12, <1>13, <1>14, <1>15, <1>16, <1>17, <1>18, <1>19, <1>20
       DEF KeptInv

LEMMA MoveWriteKeeps ==
  ASSUME KeptInv, MoveWrite
  PROVE  KeptInv' /\ KeepsEnd
  <1>1. /\ phase = "move" /\ phase' = "drop" /\ TypeOK /\ StartOk /\ MemoryOk
        /\ UNCHANGED <<keys, made, startKeeps>>
    BY Zenon DEF MoveWrite, KeptInv
  <1>2. /\ PlacesOk' /\ MintedOnce' /\ OperationsOk' /\ RevokedKeys'
        /\ dead = {} /\ saveFailed = FALSE /\ \A h \in Grants : cached[h] = 0
        /\ \A q \in Requests : local[q].pc \in {"idle", "done"}
        /\ dead' = dead /\ local' = local /\ told' = told /\ cached' = cached
        /\ saveFailed' = saveFailed
    BY <1>1, Quiet DEF startKeeps
  <1> DEFINE moved == [g \in Grants |->
                     IF g \in moving THEN [standing[g] EXCEPT !.wrap = target,
                                                              !.gen = keys[g][target]]
                     ELSE standing[g]]
  <1>3. PICK ok \in BOOLEAN :
          /\ Fault(IF ok THEN 0 ELSE 1) /\ (~ok => moving # {})
          /\ standing' = IF ok THEN moved ELSE standing
          /\ ledger' = IF ok /\ moving # {} THEN moved ELSE ledger
          /\ todo' = IF ok THEN moving ELSE {}
    BY Zenon DEF MoveWrite
  <1>4. moving' = {}
    BY Zenon DEF MoveWrite
  <1>5. /\ target \in Kinds /\ target # "none" /\ moving \subseteq Named(standing)
        /\ moving \subseteq Grants
        /\ \A h \in moving : keys[h][target] \in Nat /\ keys[h][target] # 0
        /\ standing \in [Grants -> Record] /\ ledger \in [Grants -> Record]
    BY <1>1 DEF StartOk, TypeOK, Kinds
  <1>6. /\ moved \in [Grants -> Record]
        /\ \A h \in moving : moved[h].wrap = target /\ moved[h].gen = keys[h][target]
        /\ \A h \in Grants \ moving : moved[h] = standing[h]
    <2>1. ASSUME NEW h \in Grants
          PROVE  /\ moved[h] \in Record
                 /\ h \in moving => moved[h].wrap = target /\ moved[h].gen = keys[h][target]
                 /\ h \notin moving => moved[h] = standing[h]
      <3>1. standing[h] \in Record
        BY <1>5
      <3>2. moved[h] = IF h \in moving THEN [standing[h] EXCEPT !.wrap = target,
                                                              !.gen = keys[h][target]]
                       ELSE standing[h]
        BY Zenon
      <3> HIDE DEF moved
      <3>3. CASE h \in moving
        BY <1>5, <3>1, <3>2, <3>3 DEF Record
      <3>4. CASE h \notin moving
        BY <3>1, <3>2, <3>4
      <3> QED
        BY <3>3, <3>4
    <2>2. moved \in [Grants -> Record]
      BY <2>1, Zenon
    <2> HIDE DEF moved
    <2> QED
      BY <1>5, <2>1, <2>2
  <1> HIDE DEF moved
  <1>7. moving = {} => moved = standing
    BY <1>5, <1>6
  <1>8. moving # {} => loaded = TRUE /\ standing = ledger
    BY <1>1, <1>5 DEF StartOk, Starting, MemoryOk, TypeOK
  <1>9. loaded = TRUE => standing = ledger
    BY <1>1 DEF StartOk, Starting
  <1>10. /\ faults' \in 0 .. MaxFaults /\ faults <= faults' /\ faults \in Nat
         /\ faults' <= MaxFaults /\ faults' \in Nat /\ MaxFaults \in Nat
    BY <1>1, <1>3, StandingBoundsAssumption DEF Fault, TypeOK
  <1>11. CASE ok
    <2>1. /\ standing' = moved /\ todo' = moving
          /\ ledger' = IF moving # {} THEN moved ELSE ledger
      BY <1>3, <1>11
    <2>2. loaded = TRUE => ledger' = moved
      BY <1>7, <1>9, <2>1
    <2>3. \A h \in Grants : /\ standing'[h].wrap # "none" <=> standing[h].wrap # "none"
                            /\ ledger'[h].wrap # "none" <=> ledger[h].wrap # "none"
                            /\ \/ standing'[h] = standing[h]
                               \/ /\ standing'[h].wrap = target
                                  /\ standing'[h].gen = keys[h][target]
                                  /\ h \in moving
                            /\ \/ ledger'[h] = ledger[h]
                               \/ /\ ledger'[h].wrap = target
                                  /\ ledger'[h].gen = keys[h][target]
                                  /\ h \in moving
      BY <1>5, <1>6, <1>8, <2>1 DEF Named
    <2>4. standing' \in [Grants -> Record] /\ ledger' \in [Grants -> Record]
      BY <1>5, <1>6, <2>1
    <2>5. loaded = TRUE => standing' = ledger'
      BY <2>1, <2>2
    <2>6. \A h \in moving : standing'[h].wrap = target
      BY <1>6, <2>1
    <2>7. TypeOK'
      BY <1>1, <1>2, <1>4, <1>5, <1>10, <2>1, <2>4 DEF TypeOK, diskVars, startKeeps,
         bounds
    <2>8. MemoryOk'
      BY <1>1, <1>2, <1>4, <1>5, <2>1, <2>3 DEF KeptInv, MemoryOk, Named, startKeeps
    <2>9. GensOk'
      BY <1>1, <1>2, <1>4, <1>5, <2>1, <2>3 DEF KeptInv, GensOk, Named, diskVars,
         startKeeps
    <2>10. UnpublishedIsUnknown'
      <3> SUFFICES ASSUME NEW h \in Grants, Unpublished(h)'
                   PROVE  Unknown(h)'
        BY DEF UnpublishedIsUnknown
      <3>1. Unpublished(h)
        BY <1>1, <1>2, <1>4, <1>5, <2>1, <2>3 DEF Unpublished, Creates, startKeeps
      <3>2. Unknown(h)
        BY <3>1 DEF KeptInv, UnpublishedIsUnknown
      <3> QED
        BY <1>1, <1>2, <1>4, <1>5, <2>1, <2>3, <3>2 DEF Unknown, Named, diskVars,
           startKeeps
    <2>11. GrantedOk'
      BY <1>1, <1>2, <1>4, <1>5, <2>1, <2>3 DEF KeptInv, GrantedOk, KeyIsThere,
         Named, diskVars, startKeeps
    <2>12. LedgerOwed'
      BY <1>1 DEF LedgerOwed
    <2>13. StartOk'
      BY <1>1, <1>4, <1>5, <2>1, <2>3, <2>5, <2>6 DEF KeptInv, StartOk, Starting,
         Named, diskVars, startKeeps
    <2>14. CleanStart' /\ FaultsOk'
      BY <1>1, <1>10 DEF KeptInv, CleanStart, FaultsOk, Starting, diskVars,
         startKeeps, TypeOK
    <2>15. KeepsEnd
      <3> SUFFICES ASSUME MaxFaults <= 1, EndInv
                   PROVE  EndInv'
        BY DEF KeepsEnd
      <3>1. Spent'
        BY <1>1, <1>2, <1>10 DEF EndInv, Spent, startKeeps
      <3>2. EndedOk'
        BY <1>1, <1>2, <1>10, <2>3 DEF EndInv, EndedOk, Ended, Unrecorded, NoKeys,
           Named, diskVars, startKeeps
      <3> QED
        BY <1>2, <3>1, <3>2 DEF EndInv
    <2> QED
      BY <1>2, <2>7, <2>8, <2>9, <2>10, <2>11, <2>12, <2>13, <2>14, <2>15
         DEF KeptInv
  <1>12. CASE ~ok
    <2>1. standing' = standing /\ todo' = {} /\ ledger' = ledger
      BY <1>3, <1>12
    <2>2. TypeOK'
      BY <1>1, <1>2, <1>4, <1>10, <2>1 DEF TypeOK, diskVars, startKeeps, bounds
    <2>3. MemoryOk'
      BY <1>1, <1>2, <1>4, <1>5, <2>1 DEF KeptInv, MemoryOk, Named, startKeeps
    <2>4. GensOk'
      BY <1>1, <1>2, <1>4, <1>5, <2>1 DEF KeptInv, GensOk, Named, diskVars,
         startKeeps
    <2>5. UnpublishedIsUnknown'
      <3> SUFFICES ASSUME NEW h \in Grants, Unpublished(h)'
                   PROVE  Unknown(h)'
        BY DEF UnpublishedIsUnknown
      <3>1. Unpublished(h)
        BY <1>1, <1>2, <1>4, <1>5, <2>1 DEF Unpublished, Creates, startKeeps
      <3>2. Unknown(h)
        BY <3>1 DEF KeptInv, UnpublishedIsUnknown
      <3> QED
        BY <1>1, <1>2, <1>4, <1>5, <2>1, <3>2 DEF Unknown, Named, diskVars,
           startKeeps
    <2>6. GrantedOk'
      BY <1>1, <1>2, <1>4, <1>5, <2>1 DEF KeptInv, GrantedOk, KeyIsThere, Named,
         diskVars, startKeeps
    <2>7. LedgerOwed'
      BY <1>1 DEF LedgerOwed
    <2>8. StartOk'
      BY <1>1, <1>2, <1>4, <1>5, <2>1 DEF KeptInv, StartOk, Starting, Named,
         diskVars, startKeeps
    <2>9. CleanStart' /\ FaultsOk'
      BY <1>1, <1>10 DEF KeptInv, CleanStart, FaultsOk, Starting, diskVars,
         startKeeps, TypeOK
    <2>10. KeepsEnd
      <3> SUFFICES ASSUME MaxFaults <= 1, EndInv
                   PROVE  EndInv'
        BY DEF KeepsEnd
      <3>1. Spent'
        BY <1>1, <1>2, <1>10 DEF EndInv, Spent, startKeeps
      <3>2. EndedOk'
        BY <1>1, <1>2, <1>10, <2>1 DEF EndInv, EndedOk, Ended, Unrecorded, NoKeys,
           Named, diskVars, startKeeps
      <3> QED
        BY <1>2, <3>1, <3>2 DEF EndInv
    <2> QED
      BY <1>2, <2>2, <2>3, <2>4, <2>5, <2>6, <2>7, <2>8, <2>9, <2>10 DEF KeptInv
  <1> QED
    BY <1>11, <1>12

LEMMA DropOldKeeps ==
  ASSUME KeptInv, DropOld
  PROVE  KeptInv' /\ KeepsEnd
  <1>1. /\ phase = "drop" /\ phase' \in {"drop", "list"} /\ TypeOK /\ StartOk /\ MemoryOk
        /\ UNCHANGED <<ledger, made, standing, moving, startKeeps>>
    BY DEF DropOld, KeptInv
  <1>2. /\ PlacesOk' /\ MintedOnce' /\ OperationsOk' /\ RevokedKeys'
        /\ dead = {} /\ saveFailed = FALSE /\ \A h \in Grants : cached[h] = 0
        /\ \A q \in Requests : local[q].pc \in {"idle", "done"}
        /\ dead' = dead /\ local' = local /\ told' = told /\ cached' = cached
        /\ saveFailed' = saveFailed
    BY <1>1, Quiet DEF startKeeps
  <1>3. CASE todo = {}
    <2>1. phase' = "list" /\ UNCHANGED <<keys, todo, faults>>
      BY <1>3 DEF DropOld
    <2>2. faults' \in 0 .. MaxFaults /\ faults <= faults' /\ faults \in Nat
      BY <1>1, <2>1, StandingBoundsAssumption DEF TypeOK
    <2>3. TypeOK'
      BY <1>1, <1>2, <2>1 DEF TypeOK, diskVars, startKeeps, bounds
    <2>4. MemoryOk'
      BY <1>1, <1>2, <1>3, <2>1, <2>2 DEF KeptInv, MemoryOk, Named, startKeeps
    <2>5. GensOk'
      BY <1>1, <1>2, <1>3, <2>1, <2>2 DEF KeptInv, GensOk, Named, diskVars,
         startKeeps
    <2>6. UnpublishedIsUnknown'
      <3> SUFFICES ASSUME NEW h \in Grants, Unpublished(h)'
                   PROVE  Unknown(h)'
        BY DEF UnpublishedIsUnknown
      <3>1. Unpublished(h)
        BY <1>1, <1>2, <1>3, <2>1, <2>2 DEF Unpublished, Creates, startKeeps
      <3>2. Unknown(h)
        BY <3>1 DEF KeptInv, UnpublishedIsUnknown
      <3> QED
        BY <1>1, <1>2, <1>3, <2>1, <2>2, <3>2 DEF Unknown, Named, diskVars,
           startKeeps
    <2>7. GrantedOk'
      BY <1>1, <1>2, <1>3, <2>1, <2>2 DEF KeptInv, GrantedOk, KeyIsThere, Named,
         diskVars, startKeeps
    <2>8. LedgerOwed'
      BY <1>1 DEF LedgerOwed
    <2>9. StartOk'
      BY <1>1, <1>2, <1>3, <2>1, <2>2 DEF KeptInv, StartOk, Starting, Named,
         diskVars, startKeeps
    <2>10. CleanStart' /\ FaultsOk'
      BY <1>1, <1>2, <1>3, <2>1, <2>2, StillClean DEF KeptInv, CleanStart, FaultsOk,
         Starting, diskVars, startKeeps, TypeOK
    <2>11. KeepsEnd
      <3> SUFFICES ASSUME MaxFaults <= 1, EndInv
                   PROVE  EndInv'
        BY DEF KeepsEnd
      <3>1. Spent'
        BY <1>1, <1>2, <1>3, <2>1, <2>2 DEF EndInv, Spent, startKeeps
      <3>2. EndedOk'
        BY <1>1, <1>2, <1>3, <2>1, <2>2 DEF EndInv, EndedOk, Ended, Unrecorded,
           NoKeys, Named, diskVars, startKeeps
      <3> QED
        BY <1>2, <3>1, <3>2 DEF EndInv
    <2> QED
      BY <1>2, <2>3, <2>4, <2>5, <2>6, <2>7, <2>8, <2>9, <2>10, <2>11 DEF KeptInv
  <1>4. CASE todo # {}
    <2>1. PICK g \in todo : /\ DeleteKeys(g, Kinds \ {target})
                            /\ todo' = todo \ {g} /\ phase' = phase
      BY <1>4 DEF DropOld
    <2>2. g \in Grants /\ Kinds \ {target} \in SUBSET Kinds /\ target \in Kinds
      BY <1>1, <2>1 DEF TypeOK
    <2>3. /\ keys' \in [Grants -> [Kinds -> Nat]]
          /\ faults' \in 0 .. MaxFaults /\ faults <= faults' /\ faults' \in Nat
          /\ faults \in Nat /\ MaxFaults \in Nat
      BY <1>1, <2>1, <2>2, Deletes, StandingBoundsAssumption DEF TypeOK
    <2>4. /\ \A h \in Grants \ {g} : keys'[h] = keys[h]
          /\ \A h \in Grants, k \in Kinds : keys'[h][k] \in {0, keys[h][k]}
          /\ keys'[g][target] = keys[g][target]
      BY <1>1, <2>1, <2>2, Deletes DEF TypeOK
    <2>5. /\ loaded = TRUE /\ standing = ledger /\ g \in Named(standing)
          /\ standing[g].wrap = target /\ moving = {}
      BY <1>1, <2>1 DEF StartOk, MemoryOk, Starting, TypeOK
    <2>6. TypeOK'
      BY <1>1, <1>2, <2>1, <2>3 DEF TypeOK, diskVars, startKeeps, bounds
    <2>7. MemoryOk'
      BY <1>1, <1>2, <2>1, <2>2, <2>3, <2>4, <2>5 DEF KeptInv, MemoryOk, Named,
         startKeeps
    <2>8. GensOk'
      BY <1>1, <1>2, <2>1, <2>2, <2>3, <2>4, <2>5 DEF KeptInv, GensOk, Named,
         diskVars, startKeeps
    <2>9. UnpublishedIsUnknown'
      <3> SUFFICES ASSUME NEW h \in Grants, Unpublished(h)'
                   PROVE  Unknown(h)'
        BY DEF UnpublishedIsUnknown
      <3>1. Unpublished(h)
        BY <1>1, <1>2, <2>1, <2>2, <2>3, <2>4, <2>5 DEF Unpublished, Creates,
           startKeeps
      <3>2. Unknown(h)
        BY <3>1 DEF KeptInv, UnpublishedIsUnknown
      <3> QED
        BY <1>1, <1>2, <2>1, <2>2, <2>3, <2>4, <2>5, <3>2 DEF Unknown, Named,
           diskVars, startKeeps
    <2>10. GrantedOk'
      BY <1>1, <1>2, <2>1, <2>2, <2>3, <2>4, <2>5 DEF KeptInv, GrantedOk,
         KeyIsThere, Named, diskVars, startKeeps
    <2>11. LedgerOwed'
      BY <1>1 DEF LedgerOwed
    <2>12. StartOk'
      BY <1>1, <1>2, <2>1, <2>2, <2>3, <2>4, <2>5 DEF KeptInv, StartOk, Starting,
         Named, diskVars, startKeeps
    <2>13. CleanStart' /\ FaultsOk'
      BY <1>1, <1>2, <2>1, <2>2, <2>3, <2>4, <2>5, StillClean DEF KeptInv,
         CleanStart, FaultsOk, Starting, diskVars, startKeeps, TypeOK
    <2>14. KeepsEnd
      <3> SUFFICES ASSUME MaxFaults <= 1, EndInv
                   PROVE  EndInv'
        BY DEF KeepsEnd
      <3>1. Spent'
        BY <1>1, <1>2, <2>1, <2>2, <2>3, <2>4, <2>5 DEF EndInv, Spent, startKeeps
      <3>2. EndedOk'
        BY <1>1, <1>2, <2>1, <2>2, <2>3, <2>4, <2>5 DEF EndInv, EndedOk, Ended,
           Unrecorded, NoKeys, Named, diskVars, startKeeps
      <3> QED
        BY <1>2, <3>1, <3>2 DEF EndInv
    <2> QED
      BY <1>2, <2>6, <2>7, <2>8, <2>9, <2>10, <2>11, <2>12, <2>13, <2>14 DEF KeptInv
  <1> QED
    BY <1>3, <1>4

LEMMA ListOrphansKeeps ==
  ASSUME KeptInv, ListOrphans
  PROVE  KeptInv' /\ KeepsEnd
  <1>1. /\ phase = "list" /\ phase' = "clean" /\ TypeOK /\ StartOk /\ MemoryOk
        /\ UNCHANGED <<diskVars, standing, moving, startKeeps, faults>>
    BY DEF ListOrphans, KeptInv
  <1>2. /\ PlacesOk' /\ MintedOnce' /\ OperationsOk' /\ RevokedKeys'
        /\ dead = {} /\ saveFailed = FALSE /\ \A h \in Grants : cached[h] = 0
        /\ \A q \in Requests : local[q].pc \in {"idle", "done"}
        /\ dead' = dead /\ local' = local /\ told' = told /\ cached' = cached
        /\ saveFailed' = saveFailed
    BY <1>1, Quiet DEF startKeeps
  <1>3. todo' = IF loaded /\ jobsLoaded
                THEN Listed \ (names \cup Named(standing)) ELSE {}
    BY DEF ListOrphans
  <1>4. todo' \subseteq Grants /\ \A h \in todo' : loaded /\ h \notin names
    BY <1>3 DEF Listed
  <1>5. faults' \in 0 .. MaxFaults /\ faults <= faults' /\ faults \in Nat
    BY <1>1, StandingBoundsAssumption DEF TypeOK
  <1>6. TypeOK'
    BY <1>1, <1>2, <1>4 DEF TypeOK, diskVars, startKeeps, bounds
  <1>7. MemoryOk'
    BY <1>1, <1>2, <1>4, <1>5 DEF KeptInv, MemoryOk, Named, startKeeps
  <1>8. GensOk'
    BY <1>1, <1>2, <1>4, <1>5 DEF KeptInv, GensOk, Named, diskVars, startKeeps
  <1>9. UnpublishedIsUnknown'
    <2> SUFFICES ASSUME NEW h \in Grants, Unpublished(h)'
                 PROVE  Unknown(h)'
      BY DEF UnpublishedIsUnknown
    <2>1. Unpublished(h)
      BY <1>1, <1>2, <1>4, <1>5 DEF Unpublished, Creates, startKeeps
    <2>2. Unknown(h)
      BY <2>1 DEF KeptInv, UnpublishedIsUnknown
    <2> QED
      BY <1>1, <1>2, <1>4, <1>5, <2>2 DEF Unknown, Named, diskVars, startKeeps
  <1>10. GrantedOk'
    BY <1>1, <1>2, <1>4, <1>5 DEF KeptInv, GrantedOk, KeyIsThere, Named, diskVars,
       startKeeps
  <1>11. LedgerOwed'
    BY <1>1 DEF LedgerOwed
  <1>12. StartOk'
    BY <1>1, <1>2, <1>4, <1>5 DEF KeptInv, StartOk, Starting, Named, diskVars,
       startKeeps
  <1>13. CleanStart' /\ FaultsOk'
    <2>1. FaultsOk'
      BY <1>1 DEF KeptInv, FaultsOk, startKeeps
    <2>2. ASSUME (Starting /\ faults = faultsAtStart)'
          PROVE  /\ loaded' /\ jobsLoaded' /\ reach'
                 /\ \A h \in Grants : ~NoKeys(h)' => h \in todo' \cup Named(standing)'
      <3>1. loaded /\ jobsLoaded /\ reach /\ loaded' /\ jobsLoaded' /\ reach'
        BY <1>1, <2>2 DEF KeptInv, CleanStart, Starting, startKeeps
      <3>2. todo' = Listed \ (names \cup Named(standing))
        BY <1>3, <3>1
      <3>3. names \subseteq Named(standing) /\ Named(standing)' = Named(standing)
        BY <1>1 DEF StartOk, Starting, Named
      <3>4. \A h \in Grants : ~NoKeys(h)' => h \in Listed
        BY <1>1, <3>1 DEF NoKeys, Listed, Reachable, diskVars
      <3> QED
        BY <3>1, <3>2, <3>3, <3>4
    <2> QED
      BY <1>1, <2>1, <2>2 DEF CleanStart
  <1>14. KeepsEnd
    <2> SUFFICES ASSUME MaxFaults <= 1, EndInv
                 PROVE  EndInv'
      BY DEF KeepsEnd
    <2>1. Spent'
      BY <1>1, <1>2, <1>4, <1>5 DEF EndInv, Spent, startKeeps
    <2>2. EndedOk'
      BY <1>1, <1>2, <1>4, <1>5 DEF EndInv, EndedOk, Ended, Unrecorded, NoKeys,
         Named, diskVars, startKeeps
    <2> QED
      BY <1>2, <2>1, <2>2 DEF EndInv
  <1> QED
    BY <1>2, <1>6, <1>7, <1>8, <1>9, <1>10, <1>11, <1>12, <1>13, <1>14 DEF KeptInv

LEMMA DeleteOrphanKeeps ==
  ASSUME KeptInv, DeleteOrphan
  PROVE  KeptInv' /\ KeepsEnd
  <1>1. /\ phase = "clean" /\ phase' = "clean" /\ TypeOK /\ StartOk /\ MemoryOk
        /\ UNCHANGED <<ledger, made, phase, standing, moving, startKeeps>>
    BY DEF DeleteOrphan, KeptInv
  <1>2. /\ PlacesOk' /\ MintedOnce' /\ OperationsOk' /\ RevokedKeys'
        /\ dead = {} /\ saveFailed = FALSE /\ \A h \in Grants : cached[h] = 0
        /\ \A q \in Requests : local[q].pc \in {"idle", "done"}
        /\ dead' = dead /\ local' = local /\ told' = told /\ cached' = cached
        /\ saveFailed' = saveFailed
    BY <1>1, Quiet DEF startKeeps
  <1>3. PICK g \in todo : DeleteKeys(g, Kinds) /\ todo' = todo \ {g}
    BY DEF DeleteOrphan
  <1>4. g \in Grants /\ Kinds \in SUBSET Kinds /\ moving = {}
    BY <1>1, <1>3 DEF TypeOK, StartOk
  <1>5. /\ keys' \in [Grants -> [Kinds -> Nat]]
        /\ faults' \in 0 .. MaxFaults /\ faults <= faults' /\ faults' \in Nat
        /\ faults \in Nat /\ MaxFaults \in Nat
    BY <1>1, <1>3, <1>4, Deletes, StandingBoundsAssumption DEF TypeOK
  <1>6. /\ \A h \in Grants \ {g} : keys'[h] = keys[h]
        /\ \A h \in Grants, k \in Kinds : keys'[h][k] \in {0, keys[h][k]}
        /\ faults' = faults => \A k \in Kinds : keys'[g][k] # 0 => ~Reachable(k)
    BY <1>1, <1>3, <1>4, Deletes DEF TypeOK
  <1>7. g \notin Named(ledger)
    BY <1>1, <1>3 DEF StartOk, Starting
  <1>8. told[g] # "granted"
    BY <1>4, <1>7 DEF KeptInv, GrantedOk, KeyIsThere, Named
  <1>9. TypeOK'
    BY <1>1, <1>2, <1>3, <1>5 DEF TypeOK, diskVars, startKeeps, bounds
  <1>10. MemoryOk'
    BY <1>1, <1>2, <1>3, <1>4, <1>5, <1>6, <1>8 DEF KeptInv, MemoryOk, Named,
       startKeeps
  <1>11. GensOk'
    BY <1>1, <1>2, <1>3, <1>4, <1>5, <1>6, <1>8 DEF KeptInv, GensOk, Named,
       diskVars, startKeeps
  <1>12. UnpublishedIsUnknown'
    <2> SUFFICES ASSUME NEW h \in Grants, Unpublished(h)'
                 PROVE  Unknown(h)'
      BY DEF UnpublishedIsUnknown
    <2>1. Unpublished(h)
      BY <1>1, <1>2, <1>3, <1>4, <1>5, <1>6, <1>8 DEF Unpublished, Creates,
         startKeeps
    <2>2. Unknown(h)
      BY <2>1 DEF KeptInv, UnpublishedIsUnknown
    <2> QED
      BY <1>1, <1>2, <1>3, <1>4, <1>5, <1>6, <1>8, <2>2 DEF Unknown, Named,
         diskVars, startKeeps
  <1>13. GrantedOk'
    BY <1>1, <1>2, <1>3, <1>4, <1>5, <1>6, <1>8 DEF KeptInv, GrantedOk, KeyIsThere,
       Named, diskVars, startKeeps
  <1>14. LedgerOwed'
    BY <1>1 DEF LedgerOwed
  <1>15. StartOk'
    BY <1>1, <1>2, <1>3, <1>4, <1>5, <1>6, <1>8 DEF KeptInv, StartOk, Starting,
       Named, diskVars, startKeeps
  <1>16. CleanStart' /\ FaultsOk'
    <2>1. /\ FaultsOk'
          /\ faults' = faultsAtStart' => faults = faultsAtStart /\ faults' = faults
      BY <1>1, <1>5, StillClean DEF KeptInv, startKeeps
    <2>2. ASSUME (Starting /\ faults = faultsAtStart)'
          PROVE  /\ loaded' /\ jobsLoaded' /\ reach'
                 /\ \A h \in Grants : ~NoKeys(h)' => h \in todo' \cup Named(standing)'
      <3>1. /\ loaded /\ jobsLoaded /\ reach /\ loaded' /\ jobsLoaded' /\ reach'
            /\ \A h \in Grants : ~NoKeys(h) => h \in todo \cup Named(standing)
        BY <1>1, <2>1, <2>2 DEF KeptInv, CleanStart, Starting, startKeeps
      <3>2. \A k \in Kinds : keys'[g][k] = 0
        BY <1>6, <2>1, <2>2, <3>1 DEF Reachable
      <3>3. \A h \in Grants : ~NoKeys(h)' => h # g /\ ~NoKeys(h)
        BY <1>6, <3>2 DEF NoKeys
      <3>4. Named(standing)' = Named(standing)
        BY <1>1 DEF Named
      <3> QED
        BY <1>3, <3>1, <3>3, <3>4
    <2> QED
      BY <1>1, <2>1, <2>2 DEF CleanStart
  <1>17. KeepsEnd
    <2> SUFFICES ASSUME MaxFaults <= 1, EndInv
                 PROVE  EndInv'
      BY DEF KeepsEnd
    <2>1. Spent'
      BY <1>1, <1>2, <1>3, <1>4, <1>5, <1>6, <1>8 DEF EndInv, Spent, startKeeps
    <2>2. EndedOk'
      BY <1>1, <1>2, <1>3, <1>4, <1>5, <1>6, <1>8 DEF EndInv, EndedOk, Ended,
         Unrecorded, NoKeys, Named, diskVars, startKeeps
    <2> QED
      BY <1>2, <2>1, <2>2 DEF EndInv
  <1> QED
    BY <1>2, <1>9, <1>10, <1>11, <1>12, <1>13, <1>14, <1>15, <1>16, <1>17
       DEF KeptInv

LEMMA ListenKeeps ==
  ASSUME KeptInv, Listen
  PROVE  KeptInv' /\ KeepsEnd
  <1>1. /\ phase = "clean" /\ phase' = "up" /\ TypeOK /\ StartOk /\ MemoryOk
        /\ UNCHANGED <<diskVars, standing, todo, moving, startKeeps, faults>>
    BY DEF Listen, KeptInv
  <1>2. /\ PlacesOk' /\ MintedOnce' /\ OperationsOk' /\ RevokedKeys'
        /\ dead = {} /\ saveFailed = FALSE /\ \A h \in Grants : cached[h] = 0
        /\ \A q \in Requests : local[q].pc \in {"idle", "done"}
        /\ dead' = dead /\ local' = local /\ told' = told /\ cached' = cached
        /\ saveFailed' = saveFailed
    BY <1>1, Quiet DEF startKeeps
  <1>3. todo = {} /\ moving = {}
    BY <1>1 DEF Listen, StartOk
  <1>4. faults' \in 0 .. MaxFaults /\ faults <= faults' /\ faults \in Nat
    BY <1>1, StandingBoundsAssumption DEF TypeOK
  <1>5. loaded => standing = ledger
    BY <1>1 DEF StartOk, Starting
  <1>6. TypeOK'
    BY <1>1, <1>2 DEF TypeOK, diskVars, startKeeps, bounds
  <1>7. MemoryOk'
    BY <1>1, <1>2, <1>3, <1>4 DEF KeptInv, MemoryOk, Named, startKeeps
  <1>8. GensOk'
    BY <1>1, <1>2, <1>3, <1>4 DEF KeptInv, GensOk, Named, diskVars, startKeeps
  <1>9. UnpublishedIsUnknown'
    <2> SUFFICES ASSUME NEW h \in Grants, Unpublished(h)'
                 PROVE  Unknown(h)'
      BY DEF UnpublishedIsUnknown
    <2>1. Unpublished(h)
      BY <1>1, <1>2, <1>3, <1>4 DEF Unpublished, Creates, startKeeps
    <2>2. Unknown(h)
      BY <2>1 DEF KeptInv, UnpublishedIsUnknown
    <2> QED
      BY <1>1, <1>2, <1>3, <1>4, <2>2 DEF Unknown, Named, diskVars, startKeeps
  <1>10. GrantedOk'
    BY <1>1, <1>2, <1>5 DEF KeptInv, GrantedOk, KeyIsThere, Alike, diskVars,
       startKeeps
  <1>11. LedgerOwed'
    BY <1>1, <1>2, <1>5 DEF LedgerOwed, Alike, diskVars, startKeeps
  <1>12. StartOk'
    BY <1>1, <1>2, <1>3, <1>4 DEF KeptInv, StartOk, Starting, Named, diskVars,
       startKeeps
  <1>13. CleanStart' /\ FaultsOk'
    BY <1>1, <1>2, <1>3, <1>4, StillClean DEF KeptInv, CleanStart, FaultsOk,
       Starting, diskVars, startKeeps, TypeOK
  <1>14. KeepsEnd
    <2> SUFFICES ASSUME MaxFaults <= 1, EndInv
                 PROVE  EndInv'
      BY DEF KeepsEnd
    <2>1. Spent'
      BY <1>1, <1>2, <1>3, <1>4 DEF EndInv, Spent, startKeeps
    <2>2. EndedOk'
      BY <1>1, <1>2, <1>3, <1>4 DEF EndInv, EndedOk, Ended, Unrecorded, NoKeys,
         Named, diskVars, startKeeps
    <2> QED
      BY <1>2, <2>1, <2>2 DEF EndInv
  <1> QED
    BY <1>2, <1>6, <1>7, <1>8, <1>9, <1>10, <1>11, <1>12, <1>13, <1>14 DEF KeptInv

-------------------------------------------------------------------------------
(* What the specification promises. *)

LEMMA InitKept == Init => KeptInv /\ EndInv
  <1> SUFFICES ASSUME Init
               PROVE  KeptInv /\ EndInv
    OBVIOUS
  <1> DEFINE old == [wrap |-> "keychain", gen |-> 1, serves |-> 0]
  <1>1. /\ old \in Record /\ NoRecord \in Record /\ NoRecords \in [Grants -> Record]
        /\ old.wrap = "keychain" /\ old.gen = 1 /\ NoRecord.wrap = "none"
    BY DEF Record, NoRecord, NoRecords, Kinds
  <1>2. ledger = [g \in Grants |-> IF g \in Old THEN old ELSE NoRecord]
    BY DEF Init
  <1> HIDE DEF old
  <1>3. /\ ledger \in [Grants -> Record] /\ standing = ledger
        /\ \A g \in Grants : ledger[g] = IF g \in Old THEN old ELSE NoRecord
    BY <1>1, <1>2 DEF Init
  <1>4. /\ keys \in [Grants -> [Kinds -> Nat]] /\ made \in [Grants -> Nat]
        /\ \A g \in Grants : keys[g]["keychain"] = IF g \in Old THEN 1 ELSE 0
    BY DEF Init, Kinds
  <1>5. \A r \in Requests : /\ local[r] \in Local /\ local[r].pc = "idle"
                            /\ local[r].op = "none"
    <2> DEFINE idle == [pc |-> "idle", op |-> "none", g |-> CHOOSE g \in Grants : TRUE,
                        sealed |-> NoRecord, snap |-> NoRecords, left |-> {}]
    <2>1. idle \in Local /\ idle.pc = "idle" /\ idle.op = "none"
      <3>1. (CHOOSE g \in Grants : TRUE) \in Grants
        BY StandingGrantsAssumption
      <3> QED
        BY <1>1, <3>1 DEF Local, Places
    <2>2. local = [r \in Requests |-> idle]
      BY DEF Init
    <2> HIDE DEF idle
    <2> QED
      BY <2>1, <2>2
  <1>6. local \in [Requests -> Local]
    <2>1. local = [r \in Requests |-> local[r]]
      BY Zenon DEF Init
    <2> QED
      BY <1>5, <2>1, Zenon
  <1>7. /\ Old \subseteq Grants /\ NoOne \notin Requests /\ MaxFaults \in Nat
        /\ phase = "up" /\ loaded = TRUE /\ jobsLoaded = TRUE /\ reach = TRUE
        /\ vaultKind = "keychain" /\ target = "keychain"
        /\ names = Old /\ todo = {} /\ moving = {} /\ dead = {}
        /\ cached = [g \in Grants |-> 0] /\ ledgerMu = NoOne /\ dirty = FALSE
        /\ told = [g \in Grants |-> IF g \in Old THEN "granted" ELSE "none"]
        /\ saveFailed = FALSE
        /\ crashes = 0 /\ moves = 0 /\ faults = 0 /\ faultsAtStart = 0
    BY StandingOldAssumption, StandingNoOneAssumption, StandingBoundsAssumption,
       Zenon DEF Init
  <1>8. TypeOK
    <2>1. /\ cached \in [Grants -> Nat]
          /\ told \in [Grants -> {"none", "granted", "failed", "ending", "revoked"}]
      BY <1>7
    <2>2. vaultKind \in Kinds /\ target \in Kinds
      BY <1>7 DEF Kinds
    <2>3. faults \in 0 .. MaxFaults /\ faultsAtStart \in 0 .. MaxFaults
      BY <1>7
    <2>4. /\ loaded \in BOOLEAN /\ jobsLoaded \in BOOLEAN /\ reach \in BOOLEAN
          /\ dirty \in BOOLEAN /\ saveFailed \in BOOLEAN
          /\ phase \in {"down", "move", "drop", "list", "clean", "up"}
          /\ names \subseteq Grants /\ todo \subseteq Grants
          /\ moving \subseteq Grants /\ dead \subseteq Grants
          /\ ledgerMu \in Requests \cup {NoOne} /\ crashes \in Nat /\ moves \in Nat
      BY <1>7
    <2> QED
      BY <1>3, <1>4, <1>6, <2>1, <2>2, <2>3, <2>4 DEF TypeOK
  <1>9. PlacesOk /\ OperationsOk /\ MintedOnce
    BY <1>5, <1>7 DEF PlacesOk, PlaceOk, OperationsOk, CreateOk, RevokeOk,
       MintedOnce, Creates
  <1>10. MemoryOk /\ GensOk
    BY <1>1, <1>3, <1>5, <1>7 DEF MemoryOk, GensOk, Named
  <1>11. UnpublishedIsUnknown
    BY <1>1, <1>3, <1>5, <1>7 DEF UnpublishedIsUnknown, Unpublished, Unknown, Named
  <1>12. GrantedOk /\ LedgerOwed
    BY <1>1, <1>3, <1>4, <1>5, <1>7 DEF GrantedOk, KeyIsThere, Alike, LedgerOwed
  <1>13. StartOk /\ CleanStart /\ FaultsOk
    BY <1>7 DEF StartOk, CleanStart, FaultsOk, Starting
  <1>14. EndInv
    BY <1>5, <1>7 DEF EndInv, Spent, EndedOk, Ended, RevokedKeys
  <1> QED
    BY <1>8, <1>9, <1>10, <1>11, <1>12, <1>13, <1>14 DEF KeptInv

LEMMA RequestKeeps ==
  ASSUME KeptInv, NEW r \in Requests, Request(r)
  PROVE  KeptInv' /\ KeepsEnd
  <1>1. ASSUME StopExit(r)
        PROVE  KeptInv' /\ KeepsEnd
    <2>1. Gone /\ crashes' \in Nat
      BY <1>1 DEF StopExit, KeptInv, TypeOK
    <2> QED
      BY <2>1, GoneKeeps
  <1> QED
    BY <1>1, CreateKeyKeeps, CreateSealKeeps, CreatePublishKeeps,
       CreateUnpublishKeeps, SaveBeginKeeps, SaveWriteKeeps, RevokeRemoveKeeps,
       RetireKeeps, DeleteKeyKeeps, ServeCheckKeeps, ServeOpenKeeps,
       ServeCountKeeps, ServeBookkeepKeeps, StopFlushKeeps, StopCollectKeeps,
       StopRetireKeeps DEF Request

LEMMA StepKeeps == KeptInv /\ [Next]_vars => KeptInv' /\ KeepsEnd
  <1> SUFFICES ASSUME KeptInv, [Next]_vars
               PROVE  KeptInv' /\ KeepsEnd
    OBVIOUS
  <1>1. ASSUME Crash
        PROVE  KeptInv' /\ KeepsEnd
    <2>1. Gone /\ crashes' \in Nat
      BY <1>1 DEF Crash, KeptInv, TypeOK
    <2> QED
      BY <2>1, GoneKeeps
  <1>2. ASSUME UNCHANGED vars
        PROVE  KeptInv' /\ KeepsEnd
    <2>1. KeptInv' = KeptInv
      BY <1>2 DEF KeptInv, TypeOK, PlacesOk, PlaceOk, MemoryOk, GensOk, MintedOnce,
         Creates, UnpublishedIsUnknown, Unpublished, Unknown, OperationsOk,
         CreateOk, RevokeOk, KeyIsThere, Alike, GrantedOk, StartOk, LedgerOwed,
         Owing, CleanStart, FaultsOk, Starting, NoKeys, Named, vars, diskVars,
         startVars, bounds
    <2>2. EndInv' = EndInv
      BY <1>2 DEF EndInv, Spent, EndedOk, Ended, RevokedKeys, Unrecorded, NoKeys,
         Named, vars, diskVars, startVars, bounds
    <2> QED
      BY <2>1, <2>2 DEF KeepsEnd
  <1>3. ASSUME Start
        PROVE  KeptInv' /\ KeepsEnd
    BY <1>3, LoadKeeps, SettleKeeps, ResealKeeps, MoveWriteKeeps, DropOldKeeps,
       ListOrphansKeeps, DeleteOrphanKeeps, ListenKeeps DEF Start
  <1> QED
    BY <1>1, <1>2, <1>3, AskKeeps, RequestKeeps, VaultMovesKeeps DEF Next, Finished

LEMMA KeptAlways == Spec => []KeptInv
  <1>1. Init => KeptInv
    BY InitKept
  <1>2. KeptInv /\ [Next]_vars => KeptInv'
    BY StepKeeps
  <1> QED
    BY <1>1, <1>2, PTL DEF Spec

\* With one fault at most, what ended is known to have ended.
LEMMA EndedAlways ==
  ASSUME MaxFaults <= 1
  PROVE  Spec => [](KeptInv /\ EndInv)
  <1>1. Init => KeptInv /\ EndInv
    BY InitKept
  <1>2. KeptInv /\ EndInv /\ [Next]_vars => (KeptInv /\ EndInv)'
    BY StepKeeps DEF KeepsEnd
  <1> QED
    BY <1>1, <1>2, PTL DEF Spec

\* Every variable keeps to what the code can put in it (Server, standingGrant
\* and the two files).
THEOREM StandingTyped == Spec => []TypeOK
  <1>1. KeptInv => TypeOK
    BY DEF KeptInv
  <1> QED
    BY <1>1, KeptAlways, PTL

\* "At no point is a grant's only key gone" (grantmove.go), whatever fails and
\* however often: the ledger names a grant the human was given, and the very
\* key its secrets are sealed to is there.
THEOREM StandingKeyOfAGrantIsKept == Spec => []KeyOfAGrantIsKept
  <1>1. KeptInv => KeyOfAGrantIsKept
    BY DEF KeptInv, GrantedOk, KeyIsThere, KeyOfAGrantIsKept
  <1> QED
    BY <1>1, KeptAlways, PTL

\* When nobody is about to save and no save failed, the ledger names the
\* grants there are, sealed as they are (saveLedger), whatever else fails.
THEOREM StandingLedgerFollows == Spec => []LedgerFollows
  <1>1. KeptInv => LedgerFollows
    BY DEF KeptInv, LedgerOwed, Owing, OwesASave, Alike, LedgerFollows
  <1> QED
    BY <1>1, KeptAlways, PTL

\* A start without a fault leaves no key that no grant names
\* (DeleteOrphanGrantKeys, DropOld).
THEOREM StandingLeftoversGo == Spec => LeftoversGo
  <1> DEFINE Leaves == (phase = "clean" /\ phase' = "up" /\ faults = faultsAtStart) =>
          \A g \in Grants :
              (\E k \in Kinds : keys[g][k] # 0) => g \in Named(standing)
  <1>1. KeptInv /\ [Next]_vars => [Leaves]_vars
    <2> SUFFICES ASSUME KeptInv, Next, phase = "clean", phase' = "up",
                        faults = faultsAtStart
                 PROVE  \A g \in Grants :
                           (\E k \in Kinds : keys[g][k] # 0) => g \in Named(standing)
      OBVIOUS
    <2>1. todo = {}
      BY DEF Next, Request, Start, Ask, At, CreateKey, CreateSeal, CreatePublish,
         CreateUnpublish, SaveBegin, SaveWrite, RevokeRemove, Retire, DeleteKey,
         ServeCheck, ServeOpen, ServeCount, ServeBookkeep, StopFlush, StopCollect,
         StopRetire, StopExit, Gone, Crash, VaultMoves, Load, Settle, Reseal,
         MoveWrite, DropOld, ListOrphans, DeleteOrphan, Listen, Finished
    <2> QED
      BY <2>1 DEF KeptInv, CleanStart, Starting, NoKeys
  <1> QED
    BY <1>1, KeptAlways, PTL DEF Spec, LeftoversGo

\* With one fault at most, the ledger and the keys kept open follow: no serve
\* leaves a key cached on a grant that ended (standingGrant.dead).
THEOREM StandingLedgerAndCacheFollow ==
  ASSUME MaxFaults <= 1
  PROVE  Spec => []LedgerAndCacheFollow
  <1>1. KeptInv /\ EndInv => LedgerAndCacheFollow
    BY DEF KeptInv, LedgerOwed, Owing, OwesASave, Alike, LedgerFollows, EndInv,
       EndedOk, Ended, NoKeyLeftCached, LedgerAndCacheFollow
  <1> QED
    BY <1>1, EndedAlways, PTL

\* A step of a request moves that request alone, unless the service goes.
LEMMA OnlyItMoves ==
  ASSUME TypeOK, NEW r \in Requests, Ask(r) \/ Request(r), ~Gone
  PROVE  OthersStay(r)
  <1>1. ASSUME NEW new, local' = [local EXCEPT ![r] = new]
        PROVE  OthersStay(r)
    BY <1>1 DEF OthersStay, TypeOK
  <1>2. ASSUME NEW p, Goto(r, p)
        PROVE  OthersStay(r)
    BY <1>1, <1>2 DEF Goto
  <1>3. ASSUME \/ CreatePublish(r) \/ CreateUnpublish(r) \/ Retire(r) \/ ServeCount(r)
               \/ StopFlush(r) \/ CreateSeal(r) \/ RevokeRemove(r) \/ DeleteKey(r)
               \/ ServeOpen(r) \/ ServeBookkeep(r)
        PROVE  OthersStay(r)
    <2>1. \E p \in Places \cup {IF dirty THEN "save" ELSE "collect"} : Goto(r, p)
      BY <1>3, Zenon DEF CreatePublish, CreateUnpublish, Retire, ServeCount,
         StopFlush, CreateSeal, RevokeRemove, DeleteKey, ServeOpen, ServeBookkeep,
         Places
    <2> QED
      BY <1>2, <2>1
  <1>4. ASSUME \/ CreateKey(r) \/ SaveBegin(r) \/ SaveWrite(r) \/ ServeCheck(r)
               \/ StopCollect(r) \/ StopRetire(r) \/ Ask(r)
        PROVE  OthersStay(r)
    <2>1. CASE CreateKey(r)
      BY <1>2, <2>1 DEF CreateKey, OthersStay, TypeOK
    <2>2. CASE SaveBegin(r)
      BY <2>2 DEF SaveBegin, OthersStay, TypeOK
    <2>3. CASE SaveWrite(r)
      <3>1. PICK ok \in BOOLEAN :
              local' = [local EXCEPT ![r].pc = AfterSave(local[r].op, ok),
                                     ![r].snap = NoRecords]
        BY <2>3, Zenon DEF SaveWrite
      <3> QED
        BY <3>1 DEF OthersStay, TypeOK
    <2>4. CASE ServeCheck(r)
      BY <2>4 DEF ServeCheck, OthersStay, TypeOK
    <2>5. CASE StopCollect(r)
      BY <2>5 DEF StopCollect, OthersStay, TypeOK
    <2>6. CASE StopRetire(r)
      <3>1. PICK g \in local[r].left : local' = [local EXCEPT ![r].left = @ \ {g}]
        BY <2>6, Zenon DEF StopRetire
      <3> QED
        BY <3>1 DEF OthersStay, TypeOK
    <2>7. CASE Ask(r)
      <3>1. PICK op \in OpsOf[r], g \in Grants :
              local' = [local EXCEPT ![r].op = op, ![r].g = g,
                ![r].pc = IF op = "create" /\ ~loaded THEN "done" ELSE Entry(op)]
        BY <2>7, Zenon DEF Ask
      <3> QED
        BY <3>1 DEF OthersStay, TypeOK
    <2> QED
      BY <1>4, <2>1, <2>2, <2>3, <2>4, <2>5, <2>6, <2>7
  <1> QED
    BY <1>3, <1>4, Zenon DEF Request, StopExit

\* With one fault at most, what was revoked or refused never opens a secret
\* again (openStanding): not by a serve that looked before the revoke, nor
\* after a restart that loads an old ledger or finds the key still there.
THEOREM StandingEndedIsNeverOpened ==
  ASSUME MaxFaults <= 1
  PROVE  Spec => EndedIsNeverOpened
  <1> DEFINE Refuses == \A r \in Requests :
                          Opened(r) => told[local[r].g] \notin {"failed", "revoked"}
  <1>1. KeptInv /\ EndInv /\ [Next]_vars => [Refuses]_vars
    <2> SUFFICES ASSUME KeptInv, EndInv, Next, NEW r \in Requests, Opened(r),
                        Ended(local[r].g)
                 PROVE  FALSE
      BY DEF Ended
    <2>1. /\ local[r].pc = "open" /\ local'[r].pc = "count"
          /\ local[r].g \in Grants /\ phase = "up" /\ TypeOK
      BY LocalFields DEF Opened, At, KeptInv
    <2>2. ServeOpen(r)
      <3>1. ~Start /\ local' # local
        BY <2>1 DEF Start, Load, Settle, Reseal, MoveWrite, DropOld, ListOrphans,
           DeleteOrphan, Listen
      <3>2. ~Gone
        <4> SUFFICES ASSUME Gone
                     PROVE  FALSE
          OBVIOUS
        <4>1. local' = [q \in Requests |-> IF local[q].pc = "idle" THEN local[q]
                 ELSE [local[q] EXCEPT !.pc = "done", !.snap = NoRecords, !.left = {}]]
          BY Zenon DEF Gone
        <4>2. local'[r] = IF local[r].pc = "idle" THEN local[r]
                 ELSE [local[r] EXCEPT !.pc = "done", !.snap = NoRecords, !.left = {}]
          BY <4>1, Zenon
        <4> QED
          BY <2>1, <4>2, LocalFields DEF Local
      <3>3. PICK q \in Requests : Ask(q) \/ Request(q)
        BY <3>1, <3>2, Zenon DEF Next, Crash, VaultMoves, Finished, vars
      <3>4. OthersStay(q)
        BY <2>1, <3>2, <3>3, OnlyItMoves
      <3>5. q = r
        BY <2>1, <3>4 DEF OthersStay
      <3> QED
        BY <2>1, <3>2, <3>3, <3>5, Zenon DEF Request, Ask, At, CreateKey,
           CreateSeal, CreatePublish, CreateUnpublish, SaveBegin, SaveWrite,
           RevokeRemove, Retire, DeleteKey, ServeCheck, ServeCount, ServeBookkeep,
           StopFlush, StopCollect, StopRetire, StopExit
    <2> DEFINE g == local[r].g
               sealed == local[r].sealed
               key == IF cached[g] # 0 THEN cached[g]
                      ELSE IF Reachable(sealed.wrap) THEN keys[g][sealed.wrap] ELSE 0
    <2>3. g \notin dead /\ key # 0
      <3>1. Goto(r, "done") => local'[r].pc = "done"
        BY <2>1, Goes DEF NowAt, Now, Places
      <3>2. Goto(r, "done") \/ (g \notin dead /\ key # 0)
        BY <2>2 DEF ServeOpen
      <3> QED
        BY <2>1, <3>1, <3>2
    <2>4. sealed.wrap \in Kinds
      BY <2>1, LocalFields DEF KeptInv, GensOk, Record
    <2> QED
      BY <2>1, <2>3, <2>4 DEF EndInv, EndedOk, Unrecorded, NoKeys
  <1> QED
    BY <1>1, EndedAlways, PTL DEF Spec, EndedIsNeverOpened
=============================================================================
