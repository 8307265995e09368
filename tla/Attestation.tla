----------------------------- MODULE Attestation -----------------------------
(***************************************************************************)
(* What a client learns from a challenge: an enclave puts a digest of its  *)
(* key and of the nonce it was given into REPORTDATA, the host hands the   *)
(* answer on, verify_attestation decides, and HPKE takes the key or not.   *)
(* The fields of the answer are the host's; only the quote is an enclave's.*)
(* SHA-256 is its input, a field of fixed width is one element of it, and  *)
(* a quote verifies iff an enclave made it.                                *)
(***************************************************************************)
EXTENDS Naturals, Sequences, FiniteSets

CONSTANTS
  PROTOCOL_VERSION,
  W16, W8,        \* 2^16 and 2^8: the number of values of u16 and of u8
  KeyVersions, Nonces,
  PublicKeys,     \* the keys HPKE makes and takes
  AnsweredKeys,   \* what may stand for a key in an answer
  Measurements,   \* of the enclaves there are
  Expected,       \* --expected-mrenclave, or AnyMeasurement
  AnyMeasurement,
  MaxAttested     \* bound: attestations made

ASSUME WidthAssumption == W16 \in Nat \ {0} /\ W8 \in Nat \ {0}
ASSUME VersionAssumption == PROTOCOL_VERSION \in Nat /\ KeyVersions \subseteq Nat
\* A key of HPKE has 65 bytes; nothing bounds what an answer holds instead.
ASSUME KeyAssumption ==
  /\ PublicKeys \subseteq AnsweredKeys /\ AnsweredKeys \subseteq Seq(Nat)
  /\ \A pk \in PublicKeys : Len(pk) < W16
\* Nothing bounds a nonce: its length may wrap.
ASSUME NonceAssumption == Nonces \subseteq Seq(Nat)
ASSUME ExpectedAssumption ==
  AnyMeasurement \notin Measurements /\ Expected \in Measurements \cup {AnyMeasurement}

VARIABLES
  attested,  \* what enclaves have reported
  nonce,     \* the nonce of the challenge under way
  answer,    \* the answer the client looks at
  verdict

vars == <<attested, nonce, answer, verdict>>

\* Mutant: the key is not delimited.
BindingUndelimited(key_version, public_key, n) ==
  <<PROTOCOL_VERSION, key_version>> \o public_key \o <<Len(n) % W8>> \o n

Binding(key_version, public_key, n) ==
  <<PROTOCOL_VERSION, key_version, Len(public_key) % W16>> \o public_key
    \o <<Len(n) % W8>> \o n

Claims == [mrenclave : Measurements, key_version : KeyVersions,
           public_key : PublicKeys, nonce : Nonces]

Quote(claim) ==
  [mrenclave |-> claim.mrenclave,
   report_data |-> Binding(claim.key_version, claim.public_key, claim.nonce)]

NoQuote == [mrenclave |-> AnyMeasurement, report_data |-> <<>>]

NoAnswer == [quote |-> NoQuote, key_version |-> 0, public_key |-> <<>>, binding_nonce |-> <<>>]

Init ==
  /\ attested = {}
  /\ nonce \in Nonces
  /\ answer = NoAnswer
  /\ verdict = "none"

\* An enclave, of this program or of another, is asked to attest to a nonce.
Attest ==
  /\ Cardinality(attested) < MaxAttested
  /\ \E claim \in Claims : attested' = attested \cup {claim}
  /\ UNCHANGED <<nonce, answer, verdict>>

IsGenuine(quote) == \E claim \in attested : quote = Quote(claim)

MeasurementFits(quote) == Expected = AnyMeasurement \/ quote.mrenclave = Expected

BoundToChallenge(a) == Binding(a.key_version, a.public_key, nonce)

\* Mutant: the check of binding_nonce is made against nothing.
ReturnedUnchecked(a) == a.binding_nonce = <<>>

NonceReturned(a) == a.binding_nonce = nonce

Verifies(a) ==
  /\ IsGenuine(a.quote)
  /\ MeasurementFits(a.quote)
  /\ NonceReturned(a)
  /\ a.quote.report_data = BoundToChallenge(a)

\* The host answers with a quote it has, and with fields of its own choice.
Answer ==
  /\ verdict = "none"
  /\ \E quote \in {Quote(claim) : claim \in attested} \cup {NoQuote},
        kv \in KeyVersions, pk \in AnsweredKeys, bn \in Nonces :
       answer' = [quote |-> quote, key_version |-> kv, public_key |-> pk, binding_nonce |-> bn]
  /\ verdict' = IF Verifies(answer') THEN "accepted" ELSE "refused"
  /\ UNCHANGED <<attested, nonce>>

\* The client encrypts to the key it accepted; from_bytes refuses what is none.
Encrypt ==
  /\ verdict = "accepted"
  /\ verdict' = IF answer.public_key \in PublicKeys THEN "encrypted" ELSE "unusable"
  /\ UNCHANGED <<attested, nonce, answer>>

Challenge ==
  /\ verdict # "none"
  /\ nonce' \in Nonces
  /\ answer' = NoAnswer
  /\ verdict' = "none"
  /\ UNCHANGED attested

Next == Attest \/ Answer \/ Encrypt \/ Challenge

Spec == Init /\ [][Next]_vars

-----------------------------------------------------------------------------
AttestationTypeOK ==
  /\ attested \subseteq Claims
  /\ nonce \in Nonces
  /\ verdict \in {"none", "accepted", "refused", "encrypted", "unusable"}

Claim(mrenclave) ==
  [mrenclave |-> mrenclave, key_version |-> answer.key_version,
   public_key |-> answer.public_key, nonce |-> nonce]

(* A client encrypts only to what an enclave of the expected measurement
   reported, as this very key under this very version, for the nonce of this
   challenge: no two reports of keys share a digest although key and nonce
   have no fixed length and the length of the nonce is kept in one byte.  That
   verify_attestation accepted the answer is not enough for it, since the
   length of what stands for a key is cut to two bytes; HPKE's refusal of
   whatever is no key belongs to it. *)
EncryptedIsAttested ==
  verdict = "encrypted" =>
    /\ Claim(answer.quote.mrenclave) \in attested
    /\ Expected # AnyMeasurement => answer.quote.mrenclave = Expected

(* What an enclave of the expected measurement reported for this nonce is
   accepted, and encrypted to, when the host hands it on unchanged, also for a
   nonce whose length does not fit its byte. *)
HonestIsAccepted ==
  verdict \in {"refused", "unusable"} =>
    \A claim \in attested :
      ~ /\ MeasurementFits(Quote(claim))
        /\ claim.nonce = nonce
        /\ answer = [quote |-> Quote(claim), key_version |-> claim.key_version,
                     public_key |-> claim.public_key, binding_nonce |-> nonce]
=============================================================================
