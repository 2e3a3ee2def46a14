------------------------------ MODULE KeyCustody ------------------------------
(***************************************************************************)
(* What every change of the vault's master key promises: a key is          *)
(* destroyed only when no envelope is sealed under it any more, and        *)
(* nothing is sealed under a key that was destroyed.  It says nothing of   *)
(* where keys rest (login keychain, staged keychain item, Secure Enclave)  *)
(* nor of the steps a rotation or a move takes; VaultKey does, and         *)
(* implements this specification (src/internal/cli/vaultrekey.go,          *)
(* vaultmove.go, src/internal/vault/rekey.go).                             *)
(***************************************************************************)
CONSTANTS Keys, Files, NoKey

VARIABLES held,    \* the keys some place can still produce
          gone,    \* the keys the hardware lost, which no program destroyed
          under    \* the key each envelope is sealed under, NoKey if there is none

custody == <<held, gone, under>>

CustodyInit ==
    /\ held \in SUBSET Keys
    /\ gone = {}
    /\ under = [f \in Files |-> NoKey]

Make(k) ==
    /\ held' = held \union {k}
    /\ UNCHANGED <<gone, under>>

Seal(f, k) ==
    /\ k \in held \union gone
    /\ under' = [under EXCEPT ![f] = k]
    /\ UNCHANGED <<held, gone>>

Delete(f) ==
    /\ under' = [under EXCEPT ![f] = NoKey]
    /\ UNCHANGED <<held, gone>>

Destroy(k) ==
    /\ \A f \in Files : under[f] # k
    /\ held' = held \ {k}
    /\ UNCHANGED <<gone, under>>

\* The enclave is reset, or the vault was copied to another Mac.
Disaster(lost) ==
    /\ held' = held \ lost
    /\ gone' = gone \union lost
    /\ UNCHANGED under

CustodyNext ==
    \/ \E k \in Keys : Make(k) \/ Destroy(k)
    \/ \E f \in Files : Delete(f) \/ \E k \in Keys : Seal(f, k)
    \/ \E lost \in SUBSET held : Disaster(lost)

CustodySpec == CustodyInit /\ [][CustodyNext]_custody

(* No envelope is sealed under a key that a program destroyed. *)
InCustody == \A f \in Files : under[f] \in held \union gone \union {NoKey}
===============================================================================
