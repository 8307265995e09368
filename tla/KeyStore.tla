------------------------------ MODULE KeyStore ------------------------------
(***************************************************************************)
(* The in-enclave key store of runtime/src/key_store.rs: the HPKE key      *)
(* pairs of the newest versions, oldest first, and the number of the       *)
(* newest.  A key pair is named by the order in which it was generated     *)
(* (aead::generate_keypair never returns the same pair twice), and that    *)
(* name stands for the public and for the private half.                    *)
(***************************************************************************)
EXTENDS Naturals, Sequences

CONSTANT RETENTION      \* how many key versions the store keeps

\* The literal 2 of lookup is an upper bound on the age at which a version
\* may be called expired, so it is right for any retention of at least 2.
ASSUME RetentionAssumption == RETENTION \in Nat /\ RETENTION >= 2

StoredKey == [version : Nat, public_key : Nat]
Store     == [current_version : Nat, keys : Seq(StoredKey)]

EmptyStore == [current_version |-> 0, keys |-> <<>>]

-----------------------------------------------------------------------------
(* Rotation.                                                               *)

\* Mutant: the loop of rotate stops one key too late.
KeepOneMore(keys) ==
  IF Len(keys) <= RETENTION + 1 THEN keys ELSE Tail(keys)

\* Mutant: rotate forgets every key but the new one.
KeepOnlyLast(keys) == <<keys[Len(keys)]>>

\* while keys.len() > RETENTION { keys.remove(0) }.  Only one key is pushed
\* between two runs of the loop, so it removes at most one.
KeepNewest(keys) ==
  IF Len(keys) <= RETENTION THEN keys ELSE Tail(keys)

\* Mutant: the version is taken from the number of keys held.
RotateByLength(store, k) ==
  LET version == Len(store.keys) + 1
  IN  [current_version |-> version,
       keys |-> KeepNewest(Append(store.keys,
                                  [version |-> version, public_key |-> k]))]

Rotate(store, k) ==
  LET version == store.current_version + 1
  IN  [current_version |-> version,
       keys |-> KeepNewest(Append(store.keys,
                                  [version |-> version, public_key |-> k]))]

NewStore(k) == Rotate(EmptyStore, k)

-----------------------------------------------------------------------------
(* Queries.                                                                *)

KeysOf(store)     == {store.keys[i] : i \in DOMAIN store.keys}
VersionsOf(store) == {key.version : key \in KeysOf(store)}

Positions(store, v) == {i \in DOMAIN store.keys : store.keys[i].version = v}

Holds(store, v) == Positions(store, v) # {}

\* keys.iter().find(..): the first key of that version.
Find(store, v) ==
  store.keys[CHOOSE i \in Positions(store, v) :
                \A j \in Positions(store, v) : i <= j]

Current(store) == Find(store, store.current_version)

SaturatingSub(a, b) == IF a >= b THEN a - b ELSE 0

\* Mutant: lookup compares with > instead of >=.
LookupErrorTooLate(store, v) ==
  IF SaturatingSub(store.current_version, v) > 2
    THEN "key_expired" ELSE "key_unknown"

LookupError(store, v) ==
  IF SaturatingSub(store.current_version, v) >= 2
    THEN "key_expired" ELSE "key_unknown"

\* Mutant: decrypt tries the current key whatever version was asked for.
DecryptWithCurrent(store, v, key, aad_ok) ==
  IF Current(store).public_key = key /\ aad_ok THEN "ok" ELSE "decrypt_failed"

\* The outcome of decrypting, with the key of version v, what was encrypted to
\* the public key `key`; aad_ok tells whether the AAD is the encryptor's.
Decrypt(store, v, key, aad_ok) ==
  IF ~Holds(store, v) THEN LookupError(store, v)
  ELSE IF Find(store, v).public_key = key /\ aad_ok THEN "ok"
  ELSE "decrypt_failed"

-----------------------------------------------------------------------------
(* What every store the code builds looks like: the newest versions, one   *)
(* key each, oldest first, with none missing.                              *)

WellFormed(store) ==
  /\ store.current_version >= 1
  /\ Len(store.keys) = IF store.current_version < RETENTION
                         THEN store.current_version ELSE RETENTION
  /\ \A i \in 1..Len(store.keys) :
       store.keys[i].version = (store.current_version - Len(store.keys)) + i
=============================================================================
