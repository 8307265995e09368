------------------------------- MODULE Layouts -------------------------------
(***************************************************************************)
(* The byte layouts the program reads back: the key store inside the       *)
(* sealed blob, the blob itself and the HPKE ciphertext.  Bytes are written *)
(* by the encoder, may be damaged (a torn write, a client's own ct), and   *)
(* are read by the decoder, which must neither index past their end (that  *)
(* panics, and ends the enclave) nor make up what was not written.         *)
(* A byte has Base values, a u16 is two of them, and every other field of  *)
(* fixed width is one.                                                     *)
(***************************************************************************)
EXTENDS Naturals, Sequences, SequencesExt

CONSTANTS
  Base,         \* bound: the number of values of a byte
  PublicKeys, PrivateKeys,
  MaxDamage     \* bound: damages done to one piece of data

ASSUME BaseAssumption == Base \in Nat /\ Base > 2
ASSUME LengthAssumption ==
  \A k \in PublicKeys \cup PrivateKeys : k \in Seq(0..Base - 1) /\ Len(k) < Base * Base

VARIABLES
  original,  \* what was encoded: its kind and, for a key store, the store
  bytes,     \* what the decoder gets
  damage,    \* the damages done
  verdict    \* what the decoder makes of it

vars == <<original, bytes, damage, verdict>>

Bytes == 0..Base - 1
Fits(b, end) == end <= Len(b)
\* Every layout begins with two fields that are read before the rest.
HeaderFits(b) == Fits(b, 2)
\* bytes[from..from + n], counted from 0.
Slice(b, from, n) == SubSeq(b, from + 1, from + n)

-----------------------------------------------------------------------------
(* u16::to_le_bytes and from_le_bytes.                                     *)

LittleEndian(n) == <<n % Base, n \div Base>>
U16(b, off) == b[off + 1] + Base * b[off + 2]

-----------------------------------------------------------------------------
(* KeyStore::encode and KeyStore::decode.                                  *)

EncodeKey(k) ==
  <<k.version>> \o LittleEndian(Len(k.public_key)) \o k.public_key
    \o LittleEndian(Len(k.private_key)) \o k.private_key

Encode(store) ==
  <<store.current_version, Len(store.keys) % Base>>
    \o FlattenSeq([i \in 1..Len(store.keys) |-> EncodeKey(store.keys[i])])

NoStore == [current_version |-> 0, keys |-> <<>>]
Error == [outcome |-> "error", store |-> NoStore]
Panic == [outcome |-> "panic", store |-> NoStore]
Read(store) == [outcome |-> "ok", store |-> store]

\* Mutant: the length field that follows the public key is forgotten.
PublicKeyAlone(b, off, n) == Fits(b, off + n)

PublicKeyFits(b, off, n) == Fits(b, off + n + 2)

\* Mutant: a private key that is cut short is taken as it is.
PrivateKeyLenient(b, off, n) == Fits(b, off)

PrivateKeyFits(b, off, n) == Fits(b, off + n)

\* The key at off and where the next begins, or the reason there is none: the
\* checks in the order of the code, a slice past the end where it would panic.
DecodeKey(b, off) ==
  LET fail(how) == [next |-> off, why |-> how, key |-> <<>>]
      pkAt == off + 3
      pkLen == U16(b, off + 1)
      skAt == pkAt + pkLen + 2
      skLen == U16(b, skAt - 2)
  IN  IF ~Fits(b, pkAt) \/ ~PublicKeyFits(b, pkAt, pkLen) THEN fail("error")
      ELSE IF ~Fits(b, skAt) THEN fail("panic")
      ELSE IF ~PrivateKeyFits(b, skAt, skLen) THEN fail("error")
      ELSE IF ~Fits(b, skAt + skLen) THEN fail("panic")
      ELSE [next |-> skAt + skLen, why |-> "ok",
            key |-> <<[version |-> b[off + 1],
                       public_key |-> Slice(b, pkAt, pkLen),
                       private_key |-> Slice(b, skAt, skLen)]>>]

\* One turn of the loop of decode, after an earlier one and before the first.
Turn(b, before) ==
  LET turn == DecodeKey(b, before.next)
  IN  IF before.why # "ok" THEN before
      ELSE [next |-> turn.next, why |-> turn.why, keys |-> before.keys \o turn.key]

NoTurn == [next |-> 2, why |-> "ok", keys |-> <<>>]

\* Mutant: a key that cannot be read ends the loop, and the rest is returned.
ReturnedLenient(b, last) ==
  IF last.why = "panic" THEN Panic
  ELSE Read([current_version |-> b[1], keys |-> last.keys])

Returned(b, last) ==
  CASE last.why = "ok"    -> Read([current_version |-> b[1], keys |-> last.keys])
    [] last.why = "error" -> Error
    [] last.why = "panic" -> Panic

Decode(b) ==
  IF ~HeaderFits(b) THEN Error
  ELSE IF ~Fits(b, 2) THEN Panic
  ELSE LET turns[n \in 0..b[2]] == IF n = 0 THEN NoTurn ELSE Turn(b, turns[n - 1])
       IN  Returned(b, turns[b[2]])

-----------------------------------------------------------------------------
(* seal and unseal.  magic, keyid, isvsvn, cpusvn, nonce, ciphertext, tag; *)
(* AES-GCM opens nothing but what was sealed, under the key and with the   *)
(* nonce it was sealed with.                                               *)

MAGIC == 1
HDR == 5
TAG == 1
Seal(store) == <<MAGIC, 2, 0, 1, 2>> \o Encode(store) \o <<0>>

LooksSealed(b) == Fits(b, HDR + TAG) /\ b[1] = MAGIC

Unseal(b) ==
  IF ~LooksSealed(b) THEN Error
  ELSE IF ~Fits(b, HDR) THEN Panic
  ELSE IF Tail(b) # Tail(Seal(original.store)) THEN Error
  ELSE Decode(SubSeq(b, HDR + 1, Len(b) - TAG))

-----------------------------------------------------------------------------
(* aead::encrypt and aead::decrypt: enc_len, enc, ciphertext with tag.     *)

Enc == <<1, 0, 2, 1>>
Encrypted == LittleEndian(Len(Enc)) \o Enc \o <<2, 1>>

\* Mutant: the length of the encapsulated key is taken as the client gives it.
EncUnchecked(b, encLen) == TRUE

EncFits(b, encLen) == Fits(b, 2 + encLen)

\* The checks in the order of the code, an index past the end where it would
\* panic; HPKE takes no other encapsulated key and no other ciphertext.
Decrypt(b) ==
  LET encLen == U16(b, 0)
      enc == Slice(b, 2, encLen)
      ciphertext == SubSeq(b, 3 + encLen, Len(b))
  IN  IF ~HeaderFits(b) THEN Error
      ELSE IF ~Fits(b, 2) THEN Panic
      ELSE IF ~EncFits(b, encLen) THEN Error
      ELSE IF ~Fits(b, 2 + encLen) THEN Panic
      ELSE IF enc # Enc \/ ciphertext # <<2, 1>> THEN Error
      ELSE Read(original.store)

-----------------------------------------------------------------------------
StoredKeys(version) ==
  [version : {version}, public_key : PublicKeys, private_key : PrivateKeys]

\* What new and rotate make: one key, or the newest two.
Stores ==
  {[current_version |-> 1, keys |-> <<k>>] : k \in StoredKeys(1)}
    \cup {[current_version |-> 2, keys |-> <<j, k>>] : j \in StoredKeys(1), k \in StoredKeys(2)}

Written == [store |-> Encode(original.store), blob |-> Seal(original.store), ct |-> Encrypted]

Init ==
  /\ original \in [kind : {"store", "blob"}, store : Stores] \cup {[kind |-> "ct", store |-> NoStore]}
  /\ bytes = Written[original.kind]
  /\ damage = <<>>
  /\ verdict = [outcome |-> "none", store |-> NoStore]

MayDamage(how) ==
  /\ verdict.outcome = "none" /\ Len(damage) < MaxDamage
  /\ damage' = Append(damage, how)
  /\ UNCHANGED <<original, verdict>>

\* std::fs::write truncates the file before it writes, and may be cut off.
Cut ==
  /\ MayDamage("cut")
  /\ \E n \in 0..Len(bytes) - 1 : bytes' = SubSeq(bytes, 1, n)

Extend ==
  /\ MayDamage("extend")
  /\ \E b \in Bytes : bytes' = Append(bytes, b)

Alter ==
  /\ MayDamage("alter")
  /\ \E i \in DOMAIN bytes, b \in Bytes :
       b # bytes[i] /\ bytes' = [bytes EXCEPT ![i] = b]

Readers == [store |-> Decode(bytes), blob |-> Unseal(bytes), ct |-> Decrypt(bytes)]

ReadBack ==
  /\ verdict.outcome = "none"
  /\ verdict' = Readers[original.kind]
  /\ UNCHANGED <<original, bytes, damage>>

Next == Cut \/ Extend \/ Alter \/ ReadBack

Spec == Init /\ [][Next]_vars

-----------------------------------------------------------------------------
(* No reader indexes past the end of what it is given, however it was
   damaged: every slice of decode, unseal and decrypt is covered by a check
   before it, so that a torn file or a client's ct is an error, not the end of
   the enclave. *)
NeverPanics == verdict.outcome # "panic"

(* What was not damaged is read as it was written, for keys of any lengths,
   and what lost its end is refused: after a torn write the store is whole
   or there is none. *)
WholeOrNothing ==
  verdict.outcome # "none" =>
    /\ damage = <<>> => verdict = Read(original.store)
    /\ damage # <<>> /\ Range(damage) = {"cut"} => verdict = Error

(* decode makes nothing up: the store it returns is encoded at the beginning
   of the bytes it read, and nothing in the bytes after that counted. *)
DecodedIsWritten ==
  original.kind = "store" /\ verdict.outcome = "ok" =>
    IsPrefix(Encode(verdict.store), bytes)
=============================================================================
