-------------------------- MODULE AttestationProofs --------------------------
(***************************************************************************)
(* The digest of report_data_binding determines what it was made from as   *)
(* long as the key fits its field, and with that a client encrypts only to *)
(* reports of the expected enclave for its own nonce, for every width, for *)
(* every nonce and for whatever the answer holds in place of a key.        *)
(***************************************************************************)
EXTENDS Attestation, SequenceTheorems, TLAPS

(* A remainder is a natural number, and of a smaller number it is that number. *)
LEMMA Remainder ==
  ASSUME NEW a \in Nat, NEW b \in Nat \ {0}
  PROVE  a % b \in Nat /\ (a < b => a % b = a)
OBVIOUS

(* The elements of two sequences joined, by their places. *)
LEMMA Joined ==
  ASSUME NEW s \in Seq(Nat), NEW t \in Seq(Nat)
  PROVE  /\ s \o t \in Seq(Nat) /\ Len(s \o t) = Len(s) + Len(t)
         /\ \A i \in 1..Len(s) : (s \o t)[i] = s[i]
         /\ \A i \in 1..Len(t) : (s \o t)[Len(s) + i] = t[i]
<1>1. /\ s \o t \in Seq(Nat) /\ Len(s \o t) = Len(s) + Len(t)
      /\ \A i \in 1..Len(s) + Len(t) :
           (s \o t)[i] = IF i <= Len(s) THEN s[i] ELSE t[i - Len(s)]
  BY ConcatProperties
<1>2. Len(s) \in Nat /\ Len(t) \in Nat
  OBVIOUS
<1>3. ASSUME NEW i \in 1..Len(t)
      PROVE  (s \o t)[Len(s) + i] = t[i]
  <2>1. Len(s) + i \in 1..Len(s) + Len(t) /\ ~(Len(s) + i <= Len(s)) /\ (Len(s) + i) - Len(s) = i
    BY <1>2
  <2>2. QED
    BY <1>1, <2>1
<1>4. QED
  BY <1>1, <1>2, <1>3

LEMMA ShortSequences ==
  ASSUME NEW a \in Nat, NEW b \in Nat, NEW c \in Nat
  PROVE  /\ <<a>> \in Seq(Nat) /\ Len(<<a>>) = 1
         /\ <<a, b, c>> \in Seq(Nat) /\ Len(<<a, b, c>>) = 3
         /\ <<a, b, c>>[2] = b /\ <<a, b, c>>[3] = c
OBVIOUS

(* What stands at which place of the input of the digest. *)
Layout(b, kv, l, pk, n) ==
  /\ Len(b) = 4 + Len(pk) + Len(n)
  /\ b[2] = kv
  /\ b[3] = l
  /\ \A i \in 1..Len(pk) : b[3 + i] = pk[i]
  /\ \A i \in 1..Len(n) : b[4 + Len(pk) + i] = n[i]

LEMMA PartsInPlace ==
  ASSUME NEW v \in Nat, NEW kv \in Nat, NEW l \in Nat, NEW m \in Nat,
         NEW pk \in Seq(Nat), NEW n \in Seq(Nat)
  PROVE  Layout(<<v, kv, l>> \o pk \o <<m>> \o n, kv, l, pk, n)
<1>1. PICK head \in Seq(Nat) : /\ head = <<v, kv, l>>
                              /\ Len(head) = 3 /\ head[2] = kv /\ head[3] = l
  <2>1. /\ <<v, kv, l>> \in Seq(Nat) /\ Len(<<v, kv, l>>) = 3
        /\ <<v, kv, l>>[2] = kv /\ <<v, kv, l>>[3] = l
    BY ShortSequences
  <2>2. QED
    BY <2>1, Zenon
<1>2. PICK mark \in Seq(Nat) : mark = <<m>> /\ Len(mark) = 1
  BY ShortSequences
<1>3. Len(pk) \in Nat /\ Len(n) \in Nat
  OBVIOUS
<1>4. PICK keyed \in Seq(Nat) : /\ keyed = head \o pk /\ Len(keyed) = 3 + Len(pk)
                               /\ \A i \in 1..3 : keyed[i] = head[i]
                               /\ \A j \in 1..Len(pk) : keyed[3 + j] = pk[j]
  <2>1. /\ head \o pk \in Seq(Nat) /\ Len(head \o pk) = 3 + Len(pk)
        /\ \A i \in 1..3 : (head \o pk)[i] = head[i]
        /\ \A i \in 1..Len(pk) : (head \o pk)[3 + i] = pk[i]
    BY <1>1, Joined
  <2>2. QED
    BY <2>1
<1>5. PICK marked \in Seq(Nat) : /\ marked = keyed \o mark /\ Len(marked) = 4 + Len(pk)
                                /\ \A i \in 1..Len(keyed) : marked[i] = keyed[i]
  <2>1. /\ keyed \o mark \in Seq(Nat) /\ Len(keyed \o mark) = Len(keyed) + Len(mark)
        /\ \A i \in 1..Len(keyed) : (keyed \o mark)[i] = keyed[i]
    BY Joined
  <2>2. Len(keyed) + Len(mark) = 4 + Len(pk)
    BY <1>2, <1>3, <1>4
  <2>3. QED
    BY <2>1, <2>2
<1>6. PICK whole : /\ whole = marked \o n /\ Len(whole) = Len(marked) + Len(n)
                   /\ \A i \in 1..Len(marked) : whole[i] = marked[i]
                   /\ \A i \in 1..Len(n) : whole[Len(marked) + i] = n[i]
  <2>1. /\ Len(marked \o n) = Len(marked) + Len(n)
        /\ \A i \in 1..Len(marked) : (marked \o n)[i] = marked[i]
        /\ \A i \in 1..Len(n) : (marked \o n)[Len(marked) + i] = n[i]
    BY Joined
  <2>2. QED
    BY <2>1, Zenon
<1>7. whole[2] = kv /\ whole[3] = l
  <2>1. /\ 2 \in 1..Len(marked) /\ 3 \in 1..Len(marked)
        /\ 2 \in 1..Len(keyed) /\ 3 \in 1..Len(keyed)
        /\ 2 \in 1..3 /\ 3 \in 1..3
    BY <1>3, <1>4, <1>5
  <2>2. QED
    BY <1>1, <1>4, <1>5, <1>6, <2>1
<1>8. ASSUME NEW i \in 1..Len(pk)
      PROVE  whole[3 + i] = pk[i]
  <2>1. 3 + i \in 1..Len(marked) /\ 3 + i \in 1..Len(keyed)
    BY <1>3, <1>4, <1>5
  <2>2. QED
    BY <1>4, <1>5, <1>6, <2>1
<1>9. ASSUME NEW i \in 1..Len(n)
      PROVE  whole[4 + Len(pk) + i] = n[i]
  BY <1>5, <1>6
<1>10. Len(whole) = 4 + Len(pk) + Len(n)
  BY <1>5, <1>6
<1>11. whole = <<v, kv, l>> \o pk \o <<m>> \o n
  BY <1>1, <1>2, <1>4, <1>5, <1>6
<1>12. QED
  BY <1>7, <1>8, <1>9, <1>10, <1>11 DEF Layout

LEMMA BindingLayout ==
  ASSUME NEW kv \in Nat, NEW pk \in Seq(Nat), NEW n \in Seq(Nat)
  PROVE  Layout(Binding(kv, pk, n), kv, Len(pk) % W16, pk, n)
<1>1. Len(pk) \in Nat /\ Len(n) \in Nat
  OBVIOUS
<1>2. Len(pk) % W16 \in Nat /\ Len(n) % W8 \in Nat
  BY <1>1, Remainder, WidthAssumption
<1>3. QED
  BY <1>2, PartsInPlace, VersionAssumption, Zenon DEF Binding

(* The encoding is injective in version, key and nonce as long as the length
   of the key fits its field; the length of the nonce need not. *)
THEOREM BindingInjective ==
  ASSUME NEW kv1 \in Nat, NEW kv2 \in Nat,
         NEW pk1 \in Seq(Nat), NEW pk2 \in Seq(Nat), Len(pk1) < W16, Len(pk2) < W16,
         NEW n1 \in Seq(Nat), NEW n2 \in Seq(Nat),
         Binding(kv1, pk1, n1) = Binding(kv2, pk2, n2)
  PROVE  kv1 = kv2 /\ pk1 = pk2 /\ n1 = n2
<1>1. PICK b : Layout(b, kv1, Len(pk1) % W16, pk1, n1) /\ Layout(b, kv2, Len(pk2) % W16, pk2, n2)
  <2>1. Layout(Binding(kv1, pk1, n1), kv1, Len(pk1) % W16, pk1, n1)
    BY BindingLayout, Zenon
  <2>2. Layout(Binding(kv2, pk2, n2), kv2, Len(pk2) % W16, pk2, n2)
    BY BindingLayout, Zenon
  <2>3. QED
    BY <2>1, <2>2, Zenon
<1>2. /\ Len(pk1) \in Nat /\ Len(pk2) \in Nat /\ Len(n1) \in Nat /\ Len(n2) \in Nat
  OBVIOUS
<1>3. Len(pk1) % W16 = Len(pk1) /\ Len(pk2) % W16 = Len(pk2)
  BY <1>2, Remainder, WidthAssumption
<1>4. Len(pk1) = Len(pk2)
  BY <1>1, <1>3, Zenon DEF Layout
<1>5. Len(n1) = Len(n2)
  BY <1>1, <1>2, <1>4 DEF Layout
<1>6. pk1 = pk2
  <2>1. \A i \in 1..Len(pk1) : pk1[i] = pk2[i]
    BY <1>1, <1>4, Zenon DEF Layout
  <2>2. QED
    BY <1>4, <2>1, SeqEqual
<1>7. n1 = n2
  <2>1. \A i \in 1..Len(n1) : n1[i] = n2[i]
    BY <1>1, <1>4, <1>5, Zenon DEF Layout
  <2>2. QED
    BY <1>5, <2>1, SeqEqual
<1>8. QED
  BY <1>1, <1>6, <1>7, Zenon DEF Layout

(* The answer that was accepted passed the checks, with the reports there are
   now: reports are never withdrawn. *)
Accepts == answer.key_version \in KeyVersions /\ Verifies(answer)

AInv ==
  /\ AttestationTypeOK
  /\ verdict \in {"accepted", "encrypted"} => Accepts
  /\ verdict = "encrypted" => answer.public_key \in PublicKeys

LEMMA AttestationInit == Init => AInv
BY DEF Init, AInv, AttestationTypeOK

(* A verdict once given is not changed by further reports. *)
LEMMA AttestationNext == AInv /\ [Next]_vars => AInv'
<1> SUFFICES ASSUME AInv, [Next]_vars PROVE AInv'
  OBVIOUS
<1>1. CASE Attest
  <2>1. PICK claim \in Claims : attested' = attested \cup {claim}
    BY <1>1 DEF Attest
  <2>2. UNCHANGED <<nonce, answer, verdict>>
    BY <1>1 DEF Attest
  <2>3. AttestationTypeOK'
    BY <2>1, <2>2 DEF AInv, AttestationTypeOK
  <2>4. ASSUME verdict \in {"accepted", "encrypted"} PROVE Accepts'
    BY <2>1, <2>2, <2>4 DEF AInv, Accepts, Verifies, IsGenuine, MeasurementFits,
                            NonceReturned, BoundToChallenge, Quote, Binding
  <2>5. QED
    BY <2>2, <2>3, <2>4 DEF AInv
<1>2. CASE Answer
  <2>1. PICK quote \in {Quote(claim) : claim \in attested} \cup {NoQuote},
             kv \in KeyVersions, pk \in AnsweredKeys, bn \in Nonces :
          answer' = [quote |-> quote, key_version |-> kv, public_key |-> pk,
                     binding_nonce |-> bn]
    BY <1>2 DEF Answer
  <2>2. /\ verdict' = IF Verifies(answer') THEN "accepted" ELSE "refused"
        /\ UNCHANGED <<attested, nonce>>
    BY <1>2 DEF Answer
  <2>3. AttestationTypeOK'
    BY <2>2 DEF AInv, AttestationTypeOK
  <2>4. ASSUME verdict' = "accepted" PROVE Accepts'
    <3>1. Verifies(answer')
      BY <2>2, <2>4
    <3>2. answer'.key_version \in KeyVersions
      BY <2>1
    <3>3. QED
      BY <2>2, <3>1, <3>2 DEF Accepts, Verifies, IsGenuine, MeasurementFits,
                              NonceReturned, BoundToChallenge, Quote, Binding
  <2>5. QED
    BY <2>2, <2>3, <2>4 DEF AInv
<1>3. CASE Challenge
  BY <1>3 DEF Challenge, AInv, AttestationTypeOK
<1>6. CASE Encrypt
  <2>1. /\ verdict = "accepted" /\ UNCHANGED <<attested, nonce, answer>>
        /\ verdict' = IF answer.public_key \in PublicKeys THEN "encrypted" ELSE "unusable"
    BY <1>6 DEF Encrypt
  <2>2. Accepts'
    BY <2>1 DEF AInv, Accepts, Verifies, IsGenuine, MeasurementFits,
                NonceReturned, BoundToChallenge, Quote, Binding
  <2>3. AttestationTypeOK'
    BY <2>1 DEF AInv, AttestationTypeOK
  <2>4. QED
    BY <2>1, <2>2, <2>3 DEF AInv
<1>4. CASE UNCHANGED vars
  BY <1>4 DEF vars, AInv, AttestationTypeOK, Accepts, Verifies, IsGenuine, MeasurementFits,
              NonceReturned, BoundToChallenge, Quote, Binding
<1>5. QED
  BY <1>1, <1>2, <1>3, <1>4, <1>6 DEF Next

(* A verified answer with a key is a report: the genuine quote it carries was
   made from the very fields the client looked at. *)
LEMMA VerifiedIsAttested == AInv => EncryptedIsAttested
<1> SUFFICES ASSUME AInv, verdict = "encrypted"
             PROVE  /\ Claim(answer.quote.mrenclave) \in attested
                    /\ Expected # AnyMeasurement => answer.quote.mrenclave = Expected
  BY DEF EncryptedIsAttested
<1>1. /\ answer.key_version \in KeyVersions /\ answer.public_key \in PublicKeys
      /\ IsGenuine(answer.quote) /\ MeasurementFits(answer.quote)
      /\ answer.quote.report_data = Binding(answer.key_version, answer.public_key, nonce)
  BY DEF AInv, Accepts, Verifies, BoundToChallenge
<1>2. PICK claim \in attested : answer.quote = Quote(claim)
  BY <1>1 DEF IsGenuine
<1>3. claim \in Claims /\ nonce \in Nonces
  BY DEF AInv, AttestationTypeOK
<1>4. /\ claim.key_version \in Nat /\ answer.key_version \in Nat
      /\ claim.public_key \in Seq(Nat) /\ Len(claim.public_key) < W16
      /\ answer.public_key \in Seq(Nat) /\ Len(answer.public_key) < W16
      /\ claim.nonce \in Seq(Nat) /\ nonce \in Seq(Nat)
  BY <1>1, <1>3, VersionAssumption, KeyAssumption, NonceAssumption DEF Claims
<1>5. Binding(claim.key_version, claim.public_key, claim.nonce)
        = Binding(answer.key_version, answer.public_key, nonce)
  BY <1>1, <1>2 DEF Quote
<1>6. /\ claim.key_version = answer.key_version
      /\ claim.public_key = answer.public_key /\ claim.nonce = nonce
  BY <1>4, <1>5, BindingInjective
<1>7. answer.quote.mrenclave = claim.mrenclave
  BY <1>2 DEF Quote
<1>8. Claim(answer.quote.mrenclave) = claim
  BY <1>3, <1>6, <1>7 DEF Claim, Claims
<1>9. QED
  BY <1>1, <1>8 DEF MeasurementFits

(* A client encrypts only to what an enclave of the expected measurement
   reported for its challenge (protocol/src/lib.rs:334-375 and
   protocol/src/aead.rs:37-39), whatever the host answers. *)
THEOREM EncryptedKeysAreAttested == Spec => []EncryptedIsAttested
<1>1. Init => AInv
  BY AttestationInit
<1>2. AInv /\ [Next]_vars => AInv'
  BY AttestationNext
<1>3. AInv => EncryptedIsAttested
  BY VerifiedIsAttested
<1>4. QED
  BY <1>1, <1>2, <1>3, PTL DEF Spec

-----------------------------------------------------------------------------
(* Why an answer was of no use: it had no quote, a genuine quote that says
   something else, or no key.  Later reports do not change that. *)
Refuses ==
  /\ verdict = "refused" =>
       \/ answer.quote = NoQuote
       \/ ~MeasurementFits(answer.quote)
       \/ ~NonceReturned(answer)
       \/ answer.quote.report_data # BoundToChallenge(answer)
  /\ verdict = "unusable" => answer.public_key \notin PublicKeys

LEMMA RefusedForAReason == Refuses /\ [Next]_vars => Refuses'
<1> SUFFICES ASSUME Refuses, [Next]_vars PROVE Refuses'
  OBVIOUS
<1> USE DEF Refuses, MeasurementFits, NonceReturned, BoundToChallenge, Binding
<1>1. CASE Attest
  BY <1>1 DEF Attest
<1>2. CASE Answer
  <2>1. PICK quote \in {Quote(claim) : claim \in attested} \cup {NoQuote},
             kv \in KeyVersions, pk \in AnsweredKeys, bn \in Nonces :
          answer' = [quote |-> quote, key_version |-> kv, public_key |-> pk,
                     binding_nonce |-> bn]
    BY <1>2 DEF Answer
  <2>2. answer'.quote = NoQuote \/ IsGenuine(answer'.quote)
    BY <2>1 DEF IsGenuine
  <2>3. verdict' = (IF Verifies(answer') THEN "accepted" ELSE "refused") /\ nonce' = nonce
    BY <1>2 DEF Answer
  <2> QED
    BY <2>2, <2>3 DEF Verifies
<1>3. CASE Challenge
  BY <1>3 DEF Challenge
<1>4. CASE UNCHANGED vars
  BY <1>4 DEF vars
<1>5. CASE Encrypt
  BY <1>5 DEF Encrypt
<1> QED
  BY <1>1, <1>2, <1>3, <1>4, <1>5 DEF Next

(* What an enclave of the expected measurement reported for the challenge is
   accepted and encrypted to if the host hands it on unchanged
   (protocol/src/lib.rs:334-375): the checks never contradict the binding,
   whatever the nonce's length. *)
THEOREM HonestAnswersAreAccepted == Spec => []HonestIsAccepted
<1>1. Init => Refuses
  BY DEF Init, Refuses
<1>2. AInv /\ Refuses => HonestIsAccepted
  <2> SUFFICES ASSUME AInv, Refuses, verdict \in {"refused", "unusable"}, NEW claim \in attested,
                      MeasurementFits(Quote(claim)), claim.nonce = nonce,
                      answer = [quote |-> Quote(claim), key_version |-> claim.key_version,
                                public_key |-> claim.public_key, binding_nonce |-> nonce]
               PROVE  FALSE
    BY DEF HonestIsAccepted
  <2>1. answer.quote # NoQuote
    <3>1. claim.mrenclave \in Measurements
      BY DEF AInv, AttestationTypeOK, Claims
    <3> QED
      BY <3>1, ExpectedAssumption DEF Quote, NoQuote
  <2>2. answer.quote.report_data = BoundToChallenge(answer)
    BY DEF Quote, BoundToChallenge
  <2>3. answer.public_key \in PublicKeys
    BY DEF AInv, AttestationTypeOK, Claims
  <2> QED
    BY <2>1, <2>2, <2>3 DEF Refuses, NonceReturned
<1> QED
  BY <1>1, <1>2, AttestationInit, AttestationNext, RefusedForAReason, PTL DEF Spec
=============================================================================
