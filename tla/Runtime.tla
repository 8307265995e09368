------------------------------ MODULE Runtime ------------------------------
(***************************************************************************)
(* The enclave program of runtime/src/main.rs with the files its loader    *)
(* keeps for it.  run_loop is sequential: it bootstraps the key store,     *)
(* then takes one request at a time from the host and handles it to the    *)
(* end.  pc names the next call that leaves the enclave; between two such  *)
(* calls the code only touches its own memory, so one action takes the     *)
(* loop from one call to the next.  A loader call and the loader's answer  *)
(* (handle_loader_op) are one step: the enclave waits for that answer and  *)
(* does nothing else.                                                      *)
(*                                                                         *)
(* The enclave lives in the loader process, and either may end at any      *)
(* point; the files survive.  Any error a handler returns ends run_loop.   *)
(***************************************************************************)
EXTENDS KeyStore

CONSTANTS
  Nonces,                 \* challenge nonces a request may carry
  NoNonce,                \* a request without a nonce
  BadNonce,               \* a nonce that is not valid base64
  DefaultNonce,           \* b"pr3c-default-nonce"
  StaleNonce,             \* b"stale-auto-attest-nonce"
  RotationNonce,          \* version.to_le_bytes(): the version is beside it
  Measurements,           \* the MRENCLAVEs of the builds that may be started
  STALE_THRESHOLD_SECS,   \* 5400 in the code
  Faults,                 \* which of the faults below the environment commits
  MaxKeys,                \* bound: key pairs ever generated
  MaxAttests,             \* bound: attestations in one boot
  MaxBoots,               \* bound: times the enclave is started
  MaxTime                 \* bound: the clock

FaultKinds == {"crash", "write", "read", "quote", "rebuild", "clock", "frame"}

ASSUME ThresholdAssumption == STALE_THRESHOLD_SECS \in Nat
ASSUME FaultAssumption == Faults \subseteq FaultKinds
ASSUME BoundAssumption == {MaxKeys, MaxAttests, MaxBoots, MaxTime} \subseteq Nat
ASSUME NonceAssumption == {NoNonce, BadNonce} \cap Nonces = {} /\ NoNonce # BadNonce

VARIABLES
  pc,                     \* the next call of the enclave, or why it has none
  request,                \* the frame being handled; op "boot" in bootstrap
  store,                  \* the KeyStore in enclave memory
  last_attested_at,       \* 0 until the first attestation of this boot (or at 0)
  attest_sequence,
  attest,                 \* the AttestationResponse under construction
  mrenclave,              \* measurement of the build that is loaded
  sealed,                 \* sealed_keys.bin
  keyring,                \* keyring.json
  cache,                  \* attestation.json
  now,                    \* the clock behind now_secs()
  generated,              \* how many key pairs were generated, ever
  boots,                  \* how often the enclave was started
  taken_at,               \* history: the clock when the request was taken
  published,              \* history: keys that left the enclave in a frame
  lost                    \* history: a sealed store was destroyed

volatile == <<request, store, last_attested_at, attest_sequence, attest, taken_at>>
disk     == <<sealed, keyring, cache>>
platform == <<mrenclave, now, boots>>
history  == <<published, lost>>
vars     == <<pc, volatile, disk, platform, generated, history>>

-----------------------------------------------------------------------------
(* Data.                                                                   *)

NonceValues == Nonces \cup {NoNonce, BadNonce, DefaultNonce, StaleNonce, RotationNonce}

\* A ciphertext by what decrypting it tells: absent, not base64, damaged or
\* sent with another AAD, a plaintext without x and y, or one with them.
Ciphertexts == [form : {"missing", "garbled", "altered", "text", "xy"}, key : Nat]

NoCiphertext == [form |-> "missing", key |-> 0]

Requests == [op : {"boot", "attest", "compute", "rotate", "other"}, id : Nat,
             nonce : NonceValues, key_version : Nat, ct : Ciphertexts]

BootRequest == [op |-> "boot", id |-> 0, nonce |-> NoNonce,
                key_version |-> 0, ct |-> NoCiphertext]

Attestations == [version : Nat, public_key : Nat, nonce : NonceValues, attested_at : Nat]

NoAttestation == [version |-> 0, public_key |-> 0, nonce |-> NoNonce, attested_at |-> 0]

\* A file is missing, whole, or truncated by a write that did not finish.
FileStates == {"missing", "torn", "ok"}

SealedBlob(mr, s) == [state |-> "ok", mr |-> mr, store |-> s]

\* keyring_json: the public side of the store, which in the model is the store.
KeyringJson(s) == [state |-> "ok", store |-> s]

AttestationCacheJson(a, seq) == [state |-> "ok", attestation |-> a, sequence |-> seq]

-----------------------------------------------------------------------------
Init ==
  /\ pc = "down"
  /\ request = BootRequest
  /\ store = EmptyStore
  /\ last_attested_at = 0
  /\ attest_sequence = 0
  /\ attest = NoAttestation
  /\ mrenclave \in Measurements
  /\ sealed = [state |-> "missing", mr |-> mrenclave, store |-> EmptyStore]
  /\ keyring = [state |-> "missing", store |-> EmptyStore]
  /\ cache = [state |-> "missing", attestation |-> NoAttestation, sequence |-> 0]
  /\ now = 1
  /\ generated = 0
  /\ boots = 0
  /\ taken_at = 0
  /\ published = {}
  /\ lost = FALSE

-----------------------------------------------------------------------------
(* Bootstrap.                                                              *)

\* The memory of the enclave ends with it, and its locals start afresh.
MemoryCleared ==
  /\ request' = BootRequest
  /\ store' = EmptyStore
  /\ last_attested_at' = 0
  /\ attest_sequence' = 0
  /\ attest' = NoAttestation
  /\ taken_at' = 0

\* The loader builds and enters the enclave.
Boot ==
  /\ pc \in {"down", "exited"}
  /\ boots < MaxBoots
  /\ boots' = boots + 1
  /\ pc' = "read_sealed"
  /\ MemoryCleared
  /\ \/ mrenclave' = mrenclave
     \/ "rebuild" \in Faults /\ mrenclave' \in Measurements
  /\ UNCHANGED <<disk, now, generated, history>>

\* Only the build that sealed the blob derives the key that opens it.
Unseals == sealed.state = "ok" /\ sealed.mr = mrenclave

\* Mutant: keyring.json is left as it is when the sealed store is loaded.
AfterUnsealSkipKeyring == "ready"

AfterUnseal == "keyring"

BootUnsealed ==
  /\ pc = "read_sealed"
  /\ Unseals
  /\ store' = sealed.store
  /\ pc' = AfterUnseal
  /\ UNCHANGED <<request, last_attested_at, attest_sequence, attest, taken_at, disk,
                 platform, generated, history>>

\* No answer with ok=true, or a blob that does not unseal: a new store.  The
\* loader answers "not found" to every read that fails.
BootNewStore ==
  /\ pc = "read_sealed"
  /\ ~Unseals \/ "read" \in Faults
  /\ generated < MaxKeys
  /\ generated' = generated + 1
  /\ store' = NewStore(generated + 1)
  /\ pc' = "seal"
  /\ UNCHANGED <<request, last_attested_at, attest_sequence, attest, taken_at, disk,
                 platform, history>>

\* host.Ready names the current key and carries no quote.
ReadyFrame ==
  [op |-> "ready", id |-> 0, outcome |-> "ok",
   attest |-> [NoAttestation EXCEPT !.version = Current(store).version,
                                    !.public_key = Current(store).public_key]]

SendReady ==
  /\ pc = "ready"
  /\ published' = published \cup {Current(store)}
  /\ pc' = "idle"
  /\ UNCHANGED <<volatile, disk, platform, generated, lost>>

-----------------------------------------------------------------------------
(* Taking a request.                                                       *)

\* Mutant: an attestation counts as fresh one second too long.
StaleTooLate ==
  \/ last_attested_at = 0
  \/ SaturatingSub(now, last_attested_at) > STALE_THRESHOLD_SECS + 1

Stale ==
  \/ last_attested_at = 0
  \/ SaturatingSub(now, last_attested_at) > STALE_THRESHOLD_SECS

\* Mutant: a rotation is sealed only by the next one.
RotateUnsealed(frame) ==
  CASE frame.op = "attest"  -> IF frame.nonce = BadNonce THEN "exited" ELSE "init_quote"
    [] frame.op = "compute" -> IF Stale THEN "init_quote" ELSE "reply"
    [] frame.op = "rotate"  -> "keyring"
    [] OTHER                -> "reply"

\* The first call a handler makes; the nonce is decoded before it.
FirstStep(frame) ==
  CASE frame.op = "attest"  -> IF frame.nonce = BadNonce THEN "exited" ELSE "init_quote"
    [] frame.op = "compute" -> IF Stale THEN "init_quote" ELSE "reply"
    [] frame.op = "rotate"  -> "seal"
    [] OTHER                -> "reply"

Receive(frame) ==
  /\ pc = "idle"
  /\ attest_sequence < MaxAttests
  /\ request' = frame
  /\ taken_at' = now
  /\ pc' = FirstStep(frame)
  /\ IF frame.op = "rotate"
       THEN /\ generated < MaxKeys
            /\ generated' = generated + 1
            /\ store' = Rotate(store, generated + 1)
       ELSE UNCHANGED <<generated, store>>
  /\ UNCHANGED <<last_attested_at, attest_sequence, attest, disk, platform,
                 published, lost>>

\* The Host of this repository decodes and encodes every nonce itself.
BadNonces == IF "frame" \in Faults THEN {BadNonce} ELSE {}

\* The frames the host may send: any version, and what was encrypted to a key
\* that has left the enclave or was never readable.
HostFrames ==
  LET frame(op, nonce, kv, ct) ==
        [op |-> op, id |-> 1, nonce |-> nonce, key_version |-> kv, ct |-> ct]
  IN  {frame(op, n, 0, NoCiphertext) :
         op \in {"attest", "rotate"}, n \in Nonces \cup {NoNonce} \cup BadNonces}
      \cup {frame("other", NoNonce, 0, NoCiphertext)}
      \cup {frame("compute", NoNonce, kv, ct) :
              kv \in 0..(store.current_version + 1),
              ct \in [form : {"missing", "garbled"}, key : {0}]
                     \cup [form : {"altered", "text", "xy"},
                           key : {p.public_key : p \in published}]}

-----------------------------------------------------------------------------
(* persist_store.                                                          *)

WriteSealed ==
  /\ pc = "seal"
  /\ sealed' = SealedBlob(mrenclave, store)
  /\ lost' = (lost \/ (request.op = "boot" /\ sealed.state = "ok"))
  /\ pc' = "keyring"
  /\ UNCHANGED <<volatile, keyring, cache, platform, generated, published>>

\* bootstrap_store sends host.Ready; a rotation decodes its nonce and attests.
AfterKeyring ==
  IF request.op = "boot" THEN "ready"
  ELSE IF request.nonce = BadNonce THEN "exited"
  ELSE "init_quote"

WriteKeyring ==
  /\ pc = "keyring"
  /\ keyring' = KeyringJson(store)
  /\ pc' = AfterKeyring
  /\ UNCHANGED <<volatile, sealed, cache, platform, generated, history>>

-----------------------------------------------------------------------------
(* do_attestation_and_cache.                                               *)

InitQuote ==
  /\ pc = "init_quote"
  /\ pc' = "get_quote"
  /\ UNCHANGED <<volatile, disk, platform, generated, history>>

\* The nonce bound into REPORTDATA.
BindingNonce ==
  IF request.op = "compute" THEN StaleNonce
  ELSE IF request.nonce # NoNonce THEN request.nonce
  ELSE IF request.op = "rotate" THEN RotationNonce
  ELSE DefaultNonce

GetQuote ==
  /\ pc = "get_quote"
  /\ attest' = [version |-> Current(store).version,
                public_key |-> Current(store).public_key,
                nonce |-> BindingNonce,
                attested_at |-> now]
  /\ attest_sequence' = attest_sequence + 1
  /\ pc' = "cache"
  /\ UNCHANGED <<request, store, last_attested_at, taken_at, disk, platform,
                 generated, history>>

WriteCache ==
  /\ pc = "cache"
  /\ cache' = AttestationCacheJson(attest, attest_sequence)
  /\ pc' = "refresh"
  /\ UNCHANGED <<volatile, sealed, keyring, platform, generated, history>>

\* A requested attestation goes out as the reply, with the request's id; the
\* ones made by compute and rotate go out first, with no id.
RefreshKeyring ==
  /\ pc = "refresh"
  /\ keyring' = KeyringJson(store)
  /\ last_attested_at' = IF request.op = "compute" THEN last_attested_at
                                                   ELSE attest.attested_at
  /\ pc' = IF request.op = "attest" THEN "reply" ELSE "announce"
  /\ UNCHANGED <<request, store, attest_sequence, attest, taken_at, sealed, cache,
                 platform, generated, history>>

AttestedKey == [version |-> attest.version, public_key |-> attest.public_key]

AttestationResponse(id) ==
  [op |-> "attestation", id |-> id, outcome |-> "ok", attest |-> attest]

Announce ==
  /\ pc = "announce"
  /\ published' = published \cup {AttestedKey}
  /\ last_attested_at' = attest.attested_at
  /\ pc' = "reply"
  /\ UNCHANGED <<request, store, attest_sequence, attest, taken_at, disk, platform,
                 generated, lost>>

-----------------------------------------------------------------------------
(* Replying.                                                               *)

\* What compute answers to a ciphertext sent as encrypted to version kv.
ComputeOutcome(s, kv, ct) ==
  LET decrypted == Decrypt(s, kv, ct.key, ct.form # "altered")
  IN  IF ct.form \in {"missing", "garbled"} THEN "bad_input"
      ELSE IF decrypted = "ok" /\ ct.form = "text" THEN "bad_input"
      ELSE decrypted

ReplyFrame ==
  CASE request.op = "attest" -> AttestationResponse(request.id)
    [] request.op = "compute" ->
         [op |-> "compute", id |-> request.id, attest |-> NoAttestation,
          outcome |-> ComputeOutcome(store, request.key_version, request.ct)]
    [] request.op = "rotate" ->
         [op |-> "rotate", id |-> request.id, outcome |-> "ok", attest |-> attest]
    [] OTHER ->
         [op |-> "error", id |-> request.id, outcome |-> "unsupported op",
          attest |-> NoAttestation]

Reply ==
  /\ pc = "reply"
  /\ published' = IF request.op \in {"attest", "rotate"}
                    THEN published \cup {AttestedKey} ELSE published
  /\ attest' = NoAttestation
  /\ request' = BootRequest
  /\ taken_at' = 0
  /\ pc' = "idle"
  /\ UNCHANGED <<store, last_attested_at, attest_sequence, disk, platform,
                 generated, lost>>

-----------------------------------------------------------------------------
(* Faults.                                                                 *)

Running == pc \notin {"down", "exited"}

\* std::fs::write truncates before it writes, so what interrupts it leaves a
\* file that is neither the old one nor the new one.
Tear ==
  \/ /\ pc = "seal"
     /\ sealed' = [sealed EXCEPT !.state = "torn"]
     /\ lost' = (lost \/ sealed.state = "ok")
     /\ UNCHANGED <<keyring, cache>>
  \/ /\ pc \in {"keyring", "refresh"}
     /\ keyring' = [keyring EXCEPT !.state = "torn"]
     /\ UNCHANGED <<sealed, cache, lost>>
  \/ /\ pc = "cache"
     /\ cache' = [cache EXCEPT !.state = "torn"]
     /\ UNCHANGED <<sealed, keyring, lost>>

\* The loader process ends: killed, or its host leg closed.
Crash ==
  /\ "crash" \in Faults
  /\ Running
  /\ pc' = "down"
  /\ Tear \/ UNCHANGED <<disk, lost>>
  /\ MemoryCleared
  /\ UNCHANGED <<platform, generated, published>>

\* The loader answers ok=false to a write, before or after the truncation.
WriteFails ==
  /\ "write" \in Faults
  /\ pc \in {"seal", "keyring", "cache", "refresh"}
  /\ pc' = "exited"
  /\ Tear \/ UNCHANGED <<disk, lost>>
  /\ MemoryCleared
  /\ UNCHANGED <<platform, generated, published>>

\* aesmd answers neither init_quote_ex nor get_quote_ex.
QuoteFails ==
  /\ "quote" \in Faults
  /\ pc \in {"init_quote", "get_quote"}
  /\ pc' = "exited"
  /\ MemoryCleared
  /\ UNCHANGED <<disk, platform, generated, history>>

Tick ==
  /\ now < MaxTime
  /\ now' = now + 1
  /\ UNCHANGED <<pc, volatile, disk, mrenclave, boots, generated, history>>

\* The enclave's clock is the host's, which may be set back, even to a time
\* before 1970, for which now_secs() answers 0.
ClockSetBack ==
  /\ "clock" \in Faults
  /\ now' \in 0..(now - 1)
  /\ UNCHANGED <<pc, volatile, disk, mrenclave, boots, generated, history>>

-----------------------------------------------------------------------------
Step ==
  \/ Boot \/ BootUnsealed \/ BootNewStore \/ SendReady
  \/ WriteSealed \/ WriteKeyring
  \/ InitQuote \/ GetQuote \/ WriteCache \/ RefreshKeyring
  \/ Announce \/ Reply

Fault == Crash \/ WriteFails \/ QuoteFails \/ ClockSetBack

Next ==
  \/ Step
  \/ \E frame \in HostFrames : Receive(frame)
  \/ Tick
  \/ Fault

Spec == Init /\ [][Next]_vars

-----------------------------------------------------------------------------
(* Properties.                                                             *)

PCs == {"down", "exited", "read_sealed", "seal", "keyring", "ready", "idle",
        "init_quote", "get_quote", "cache", "refresh", "announce", "reply"}

\* Every variable has its type; in particular the store, in memory and on
\* disk, never outgrows the retention rotate enforces (key_store.rs:40-42).
TypeOK ==
  /\ pc \in PCs
  /\ request \in Requests
  /\ store \in Store
  /\ last_attested_at \in Nat
  /\ attest_sequence \in Nat
  /\ attest \in Attestations
  /\ mrenclave \in Measurements
  /\ sealed \in [state : FileStates, mr : Measurements, store : Store]
  /\ keyring \in [state : FileStates, store : Store]
  /\ cache \in [state : FileStates, attestation : Attestations, sequence : Nat]
  /\ \A s \in {store, sealed.store, keyring.store} : Len(s.keys) <= RETENTION
  /\ now \in Nat
  /\ generated \in Nat
  /\ boots \in Nat
  /\ taken_at \in Nat
  /\ published \subseteq StoredKey
  /\ lost \in BOOLEAN

\* Every key anyone outside the enclave may have seen: in a frame, in
\* keyring.json or in attestation.json.
Exposed ==
  published
  \cup (IF keyring.state = "ok" THEN KeysOf(keyring.store) ELSE {})
  \cup (IF cache.state = "ok"
          THEN {[version |-> cache.attestation.version,
                 public_key |-> cache.attestation.public_key]}
          ELSE {})

\* A restart finds the key again, unless it was rotated out of the store.
Durable(p) ==
  /\ sealed.state = "ok"
  /\ p.version <= sealed.store.current_version
  /\ \/ p \in KeysOf(sealed.store)
     \/ p.version + RETENTION <= sealed.store.current_version

\* persist_store comes before any frame or file that shows a key
\* (main.rs:359-386, 200-212): as long as no sealed store was destroyed, every
\* key a client can know is on disk or legitimately rotated out, at every
\* point at which the enclave may be killed.
SealedBeforeExposed == ~lost => \A p \in Exposed : Durable(p)

\* A key version names one key for ever (key_store.rs:33-39): over restarts
\* and rotations that failed half-way, two keys seen under one version are the
\* same key, so that a client's key_version cannot select another key.
VersionNamesOneKey ==
  ~lost => \A p, q \in Exposed : p.version = q.version => p = q

\* The store the loop works with is the lineage of the sealed one.
Bootstrapping == pc \in {"down", "exited", "read_sealed"}
                 \/ (pc = "seal" /\ request.op = "boot")

\* Whatever was encrypted to a key that was ever exposed is decrypted while
\* its version is among the last RETENTION, and after that is refused as
\* key_expired, never as key_unknown and never with the wrong key
\* (key_store.rs:50-64).
ExposedKeysDecrypt ==
  ~lost /\ ~Bootstrapping =>
    \A p \in Exposed :
      ComputeOutcome(store, p.version, [form |-> "xy", key |-> p.public_key])
        = IF store.current_version < p.version + RETENTION THEN "ok"
                                                           ELSE "key_expired"

\* While the loop waits for a request the three files agree with the memory
\* of the enclave (main.rs:128-175, 195): a restart at this point resumes with
\* the same keys, and the caches show the current key.
DiskAgreesWhenIdle ==
  pc = "idle" =>
    /\ sealed = SealedBlob(mrenclave, store)
    /\ keyring = KeyringJson(store)
    /\ attest_sequence > 0 =>
         /\ cache.state = "ok"
         /\ cache.sequence = attest_sequence
         /\ cache.attestation.version = store.current_version
         /\ cache.attestation.public_key = Current(store).public_key
         /\ cache.attestation.attested_at = last_attested_at

\* A computation is answered only after an attestation of this boot, made for
\* it or at most STALE_THRESHOLD_SECS old by the enclave's clock when the
\* request was taken (main.rs:252-259, 296-300), of the key version that is
\* current and with a key that clients have been told.
ComputeAfterAttestation ==
  pc = "reply" /\ request.op = "compute" =>
    /\ attest = NoAttestation =>
         /\ last_attested_at # 0
         /\ SaturatingSub(taken_at, last_attested_at) <= STALE_THRESHOLD_SECS
    /\ cache.state = "ok"
    /\ cache.attestation.version = store.current_version
    /\ Current(store) \in published

-----------------------------------------------------------------------------
(* Why they hold: the inductive invariant.                                 *)

\* Between the sealing of the store and the next change of it.
StoreIsSealed == pc \notin {"down", "exited", "read_sealed", "seal"}

SealedKeys == IF sealed.state = "ok" THEN KeysOf(sealed.store) ELSE {}

MemoryWellFormed ==
  /\ pc \notin {"down", "exited", "read_sealed"} => WellFormed(store)
  /\ sealed.state = "ok" => WellFormed(sealed.store)

\* The store in memory is the sealed one, or one step ahead of it.
MemoryFollowsSealed ==
  /\ StoreIsSealed => sealed = SealedBlob(mrenclave, store)
  /\ pc = "read_sealed" => request.op = "boot"
  /\ pc = "seal" => \/ request.op = "boot" /\ store = NewStore(generated)
                    \/ /\ request.op = "rotate" /\ Unseals
                       /\ store = Rotate(sealed.store, generated)

\* The key about to be sealed is like no other.
KeysGenerated ==
  /\ generated <= MaxKeys
  /\ pc = "seal" => generated >= 1
  /\ \A p \in Exposed \cup SealedKeys :
       /\ p.public_key <= generated
       /\ pc = "seal" => p.public_key < generated

AttestNamesCurrent ==
  \/ pc \in {"cache", "refresh", "announce"}
  \/ pc = "reply" /\ request.op \in {"attest", "rotate"}
  => AttestedKey = Current(store)

\* The three properties above with what makes them inductive: the enclave
\* never runs ahead of sealed_keys.bin by more than the one key it is about to
\* seal, and what it attests is the current key (main.rs:128-133, 216-243).
IInv ==
  /\ TypeOK
  /\ MemoryWellFormed
  /\ MemoryFollowsSealed
  /\ KeysGenerated
  /\ AttestNamesCurrent
  /\ SealedBeforeExposed
  /\ VersionNamesOneKey

-----------------------------------------------------------------------------
(* What the sealed file promises over time.                                *)

LedgerVersion == IF sealed.state = "ok" THEN sealed.store.current_version ELSE 0

LedgerWindow ==
  IF sealed.state = "ok"
    THEN [v \in VersionsOf(sealed.store) |-> Find(sealed.store, v).public_key]
    ELSE [v \in {} |-> 0]

Ledger == INSTANCE KeyLedger WITH
  Keys <- 1..MaxKeys, version <- LedgerVersion, window <- LedgerWindow

\* The runtime and its files implement the ledger of KeyLedger: versions grow
\* by one with a fresh key, the last RETENTION stay, only the newest is
\* published, and nothing is destroyed but by a step that raises `lost`.
ImplementsLedger == Ledger!Spec

-----------------------------------------------------------------------------
(* What the repository says and the code does not keep.                    *)

\* runtime/src/main.rs:206 logs "no sealed_keys.bin, initializing KeyStore
\* v=1" where it starts a new store: that a store this build could open is
\* never replaced.  The loader says "not found" of every read that fails.
NewStoreOnlyWithoutBlob == [][BootNewStore => ~Unseals]_vars

\* test.sh:7, 251-258: a restart finds the sealed keys.  The write of
\* sealed_keys.bin is not atomic.
KeysSurviveRestart == ~lost
=============================================================================
