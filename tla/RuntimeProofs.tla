---------------------------- MODULE RuntimeProofs ----------------------------
(***************************************************************************)
(* The safety of Runtime for every retention, every set of faults and      *)
(* every bound.  IInv is inductive: TypeStep, MemoryStep, AttestStep and   *)
(* ExposureStep show that each of its parts survives a step.               *)
(***************************************************************************)
EXTENDS Runtime, KeyStoreProofs

\* A well-formed store respects the retention.
LEMMA WellFormedBounded ==
  ASSUME NEW s \in Store, WellFormed(s)
  PROVE  Len(s.keys) <= RETENTION /\ s.current_version >= 1
BY RetentionAssumption DEF WellFormed, Store

\* KeyStore::new gives a well-formed store with one key.
LEMMA NewStoreWellFormed ==
  ASSUME NEW k \in Nat
  PROVE  /\ NewStore(k) \in Store
         /\ WellFormed(NewStore(k))
         /\ NewStore(k).current_version = 1
         /\ KeysOf(NewStore(k)) = {[version |-> 1, public_key |-> k]}
<1>1. EmptyStore \in Store /\ Rotatable(EmptyStore) /\ EmptyStore.current_version = 0
      /\ KeysOf(EmptyStore) = {}
  BY DEF EmptyStore, Store, Rotatable, KeysOf
<1>2. NewStore(k) \in Store /\ WellFormed(NewStore(k)) /\ NewStore(k).current_version = 1
  BY <1>1, RotateType, RotateWellFormed DEF NewStore
<1>3. /\ \A p \in KeysOf(NewStore(k)) : p = [version |-> 1, public_key |-> k]
      /\ [version |-> 1, public_key |-> k] = Current(NewStore(k))
  BY <1>1, RotateKeepsKeys DEF NewStore
<1>4. Current(NewStore(k)) \in KeysOf(NewStore(k))
  BY <1>2, CurrentInWellFormed
<1> QED
  BY <1>2, <1>3, <1>4

\* What a host may send: read_frame takes any JSON of this shape, and "boot" is
\* no frame.  Every step of Runtime is one of the enclave with such a host.
Sendable == {frame \in Requests : frame.op # "boot"}

Reacts ==
  \/ Step
  \/ \E frame \in Sendable : Receive(frame)
  \/ Tick
  \/ Fault

\* Every frame of HostFrames is one of them.
LEMMA FramesAreSendable ==
  ASSUME TypeOK, [Next]_vars
  PROVE  [Reacts]_vars
<1>1. \A p \in published : p.public_key \in Nat
  BY DEF TypeOK, StoredKey
<1>2. store.current_version \in Nat
  BY DEF TypeOK, Store
<1>3. HostFrames \subseteq Sendable
  BY <1>1, <1>2
    DEF Sendable, HostFrames, Requests, NonceValues, NoCiphertext, Ciphertexts, BadNonces
<1> QED
  BY <1>3 DEF Next, Reacts

-----------------------------------------------------------------------------
\* Every step preserves the types.
LEMMA TypeStep ==
  ASSUME TypeOK, MemoryWellFormed, [Reacts]_vars
  PROVE  TypeOK'
<1> USE DEF TypeOK, PCs, volatile, disk, platform, history
<1>0. EmptyStore \in Store /\ Len(EmptyStore.keys) <= RETENTION
      /\ BootRequest \in Requests /\ NoAttestation \in Attestations
      /\ (NoAttestation.attested_at = 0)
  BY RetentionAssumption DEF EmptyStore, Store, BootRequest, Requests, NoCiphertext,
     Ciphertexts, NonceValues, NoAttestation, Attestations
<1>1. CASE Boot
  BY <1>0, <1>1 DEF Boot, MemoryCleared
<1>2. CASE BootUnsealed
  BY <1>2 DEF BootUnsealed, AfterUnseal
<1>3. CASE BootNewStore
  <2>1. NewStore(generated + 1) \in Store /\ Len(NewStore(generated + 1).keys) <= RETENTION
    BY NewStoreWellFormed, WellFormedBounded
  <2> QED
    BY <1>3, <2>1 DEF BootNewStore
<1>4. CASE SendReady
  <2>1. Current(store) \in StoredKey
    BY <1>4, CurrentInWellFormed DEF SendReady, MemoryWellFormed
  <2> QED
    BY <1>4, <2>1 DEF SendReady
<1>5. ASSUME NEW frame \in Sendable, Receive(frame) PROVE TypeOK'
  <2>1. frame \in Requests
    BY DEF Sendable
  <2>2. FirstStep(frame) \in PCs
    BY DEF FirstStep
  <2>3. Rotate(store, generated + 1) \in Store
        /\ Len(Rotate(store, generated + 1).keys) <= RETENTION
    <3>1. Rotatable(store)
      BY <1>5 DEF Receive, MemoryWellFormed, Rotatable
    <3> QED
      BY <3>1, RotateType, RotateWellFormed, WellFormedBounded
  <2>4. store' \in Store /\ generated' \in Nat /\ Len(store'.keys) <= RETENTION
    BY <1>5, <2>3 DEF Receive
  <2> QED
    BY <1>5, <2>1, <2>2, <2>4 DEF Receive
<1>6. CASE WriteSealed
  BY <1>6 DEF WriteSealed, SealedBlob, FileStates
<1>7. CASE WriteKeyring
  BY <1>7 DEF WriteKeyring, KeyringJson, FileStates, AfterKeyring
<1>8. CASE InitQuote
  BY <1>8 DEF InitQuote
<1>9. CASE GetQuote
  <2>1. Current(store) \in StoredKey
    BY <1>9, CurrentInWellFormed DEF GetQuote, MemoryWellFormed
  <2>2. BindingNonce \in NonceValues
    BY DEF BindingNonce, Requests, NonceValues
  <2>3. attest' \in Attestations
    BY <1>9, <2>1, <2>2 DEF GetQuote, Attestations, StoredKey
  <2> QED
    BY <1>9, <2>3 DEF GetQuote
<1>10. CASE WriteCache
  BY <1>10 DEF WriteCache, AttestationCacheJson, FileStates
<1>11. CASE RefreshKeyring
  BY <1>11 DEF RefreshKeyring, KeyringJson, FileStates, Attestations
<1>12. CASE Announce
  BY <1>12 DEF Announce, AttestedKey, Attestations, StoredKey
<1>13. CASE Reply
  BY <1>0, <1>13 DEF Reply, AttestedKey, Attestations, StoredKey
<1>14. ASSUME Tear PROVE /\ sealed' \in [state : FileStates, mr : Measurements, store : Store]
                         /\ keyring' \in [state : FileStates, store : Store]
                         /\ cache' \in [state : FileStates, attestation : Attestations,
                                        sequence : Nat]
                         /\ sealed'.store = sealed.store /\ keyring'.store = keyring.store
                         /\ lost' \in BOOLEAN
  BY <1>14 DEF Tear, FileStates
<1>15. CASE Crash
  BY <1>0, <1>14, <1>15 DEF Crash, MemoryCleared
<1>16. CASE WriteFails
  BY <1>0, <1>14, <1>16 DEF WriteFails, MemoryCleared
<1>17. CASE QuoteFails
  BY <1>0, <1>17 DEF QuoteFails, MemoryCleared
<1>18. CASE Tick
  BY <1>18 DEF Tick
<1>19. CASE ClockSetBack
  BY <1>19 DEF ClockSetBack
<1>20. CASE UNCHANGED vars
  BY <1>20 DEF vars
<1> QED
  BY <1>1, <1>2, <1>3, <1>4, <1>5, <1>6, <1>7, <1>8, <1>9, <1>10, <1>11, <1>12, <1>13,
     <1>15, <1>16, <1>17, <1>18, <1>19, <1>20 DEF Reacts, Step, Fault
-----------------------------------------------------------------------------
\* What interrupts a write changes no store, and only sealed_keys.bin, torn,
\* can become another file as far as its keys go.
LEMMA TearEffect ==
  ASSUME TypeOK, Tear
  PROVE  /\ \/ sealed' = sealed /\ lost' = lost
            \/ /\ pc = "seal" /\ sealed'.state = "torn" /\ sealed'.store = sealed.store
               /\ lost' = (lost \/ sealed.state = "ok")
         /\ published' = published => Exposed' \subseteq Exposed
<1>1. CASE pc = "seal"
  <2>1. /\ sealed' = [sealed EXCEPT !.state = "torn"]
        /\ lost' = (lost \/ sealed.state = "ok")
        /\ UNCHANGED <<keyring, cache>>
    BY <1>1 DEF Tear
  <2> QED
    BY <1>1, <2>1 DEF Exposed, TypeOK
<1>2. CASE pc \in {"keyring", "refresh"}
  <2>1. /\ keyring' = [keyring EXCEPT !.state = "torn"]
        /\ UNCHANGED <<sealed, cache, lost>>
    BY <1>2 DEF Tear
  <2>2. keyring'.state = "torn"
    BY <2>1 DEF TypeOK
  <2> QED
    BY <2>1, <2>2 DEF Exposed
<1>3. CASE pc = "cache"
  <2>1. /\ cache' = [cache EXCEPT !.state = "torn"]
        /\ UNCHANGED <<sealed, keyring, lost>>
    BY <1>3 DEF Tear
  <2>2. cache'.state = "torn"
    BY <2>1 DEF TypeOK
  <2> QED
    BY <2>1, <2>2 DEF Exposed
<1> QED
  BY <1>1, <1>2, <1>3 DEF Tear

\* Every step keeps the stores well formed and the memory at most one step
\* ahead of the sealed file.
LEMMA MemoryStep ==
  ASSUME TypeOK, MemoryWellFormed, MemoryFollowsSealed, [Reacts]_vars
  PROVE  MemoryWellFormed' /\ MemoryFollowsSealed'
<1> USE DEF MemoryWellFormed, MemoryFollowsSealed, StoreIsSealed, Unseals,
            volatile, disk, platform, history
<1>0. /\ sealed \in [state : FileStates, mr : Measurements, store : Store]
      /\ store \in Store /\ generated \in Nat /\ pc \in PCs
  BY DEF TypeOK
<1>1. CASE Boot
  BY <1>1 DEF Boot, MemoryCleared, BootRequest
<1>2. CASE BootUnsealed
  BY <1>0, <1>2 DEF BootUnsealed, AfterUnseal, SealedBlob, FileStates
<1>3. CASE BootNewStore
  <2>1. WellFormed(NewStore(generated + 1))
    BY <1>0, NewStoreWellFormed
  <2> QED
    BY <1>3, <2>1 DEF BootNewStore
<1>4. CASE SendReady
  BY <1>4 DEF SendReady
<1>5. ASSUME NEW frame \in Sendable, Receive(frame)
      PROVE  MemoryWellFormed' /\ MemoryFollowsSealed'
  <2>1. sealed = SealedBlob(mrenclave, store) /\ WellFormed(store)
        /\ UNCHANGED <<sealed, mrenclave>> /\ request' = frame
    BY <1>5 DEF Receive
  <2>2. CASE frame.op = "rotate"
    <3>1. pc' = "seal" /\ generated' = generated + 1 /\ store' = Rotate(store, generated + 1)
      BY <1>5, <2>2 DEF Receive, FirstStep
    <3>2. WellFormed(store')
      BY <1>0, <2>1, <3>1, RotateWellFormed DEF Rotatable
    <3> QED
      BY <2>1, <2>2, <3>1, <3>2 DEF SealedBlob
  <2>3. CASE frame.op # "rotate"
    <3>1. pc' \in {"exited", "init_quote", "reply"} /\ store' = store
      BY <1>5, <2>3 DEF Receive, FirstStep
    <3> QED
      BY <2>1, <3>1
  <2> QED
    BY <2>2, <2>3
<1>6. CASE WriteSealed
  BY <1>6 DEF WriteSealed, SealedBlob
<1>7. CASE WriteKeyring
  BY <1>7 DEF WriteKeyring, AfterKeyring
<1>8. CASE InitQuote
  BY <1>8 DEF InitQuote
<1>9. CASE GetQuote
  BY <1>9 DEF GetQuote
<1>10. CASE WriteCache
  BY <1>10 DEF WriteCache
<1>11. CASE RefreshKeyring
  BY <1>11 DEF RefreshKeyring
<1>12. CASE Announce
  BY <1>12 DEF Announce
<1>13. CASE Reply
  BY <1>13 DEF Reply
<1>14. CASE Crash
  BY <1>14, TearEffect DEF Crash
<1>15. CASE WriteFails
  BY <1>15, TearEffect DEF WriteFails
<1>16. CASE QuoteFails
  BY <1>16 DEF QuoteFails
<1>17. CASE Tick
  BY <1>17 DEF Tick
<1>18. CASE ClockSetBack
  BY <1>18 DEF ClockSetBack
<1>19. CASE UNCHANGED vars
  BY <1>19 DEF vars
<1> QED
  BY <1>1, <1>2, <1>3, <1>4, <1>5, <1>6, <1>7, <1>8, <1>9, <1>10, <1>11, <1>12, <1>13,
     <1>14, <1>15, <1>16, <1>17, <1>18, <1>19 DEF Reacts, Step, Fault

\* An attestation under way names the current key, which nothing changes
\* before it is sent.
LEMMA AttestStep ==
  ASSUME TypeOK, MemoryWellFormed, AttestNamesCurrent, [Reacts]_vars
  PROVE  AttestNamesCurrent'
<1> USE DEF AttestNamesCurrent, AttestedKey, volatile, disk, platform, history
<1>1. CASE Boot
  BY <1>1 DEF Boot
<1>2. CASE BootUnsealed
  BY <1>2 DEF BootUnsealed, AfterUnseal
<1>3. CASE BootNewStore
  BY <1>3 DEF BootNewStore
<1>4. CASE SendReady
  BY <1>4 DEF SendReady
<1>5. ASSUME NEW frame \in Sendable, Receive(frame) PROVE AttestNamesCurrent'
  BY <1>5 DEF Receive, FirstStep
<1>6. CASE WriteSealed
  BY <1>6 DEF WriteSealed
<1>7. CASE WriteKeyring
  BY <1>7 DEF WriteKeyring, AfterKeyring
<1>8. CASE InitQuote
  BY <1>8 DEF InitQuote
<1>9. CASE GetQuote
  <2>1. Current(store) \in StoredKey
    BY <1>9, CurrentInWellFormed DEF GetQuote, MemoryWellFormed, TypeOK
  <2>2. /\ attest'.version = Current(store).version
        /\ attest'.public_key = Current(store).public_key
        /\ store' = store
    BY <1>9 DEF GetQuote
  <2> QED
    BY <2>1, <2>2 DEF StoredKey
<1>10. CASE WriteCache
  BY <1>10 DEF WriteCache
<1>11. CASE RefreshKeyring
  BY <1>11 DEF RefreshKeyring
<1>12. CASE Announce
  BY <1>12 DEF Announce
<1>13. CASE Reply
  BY <1>13 DEF Reply
<1>14. CASE Crash \/ WriteFails \/ QuoteFails
  BY <1>14 DEF Crash, WriteFails, QuoteFails
<1>15. CASE Tick \/ ClockSetBack
  BY <1>15 DEF Tick, ClockSetBack
<1>16. CASE UNCHANGED vars
  BY <1>16 DEF vars
<1> QED
  BY <1>1, <1>2, <1>3, <1>4, <1>5, <1>6, <1>7, <1>8, <1>9, <1>10, <1>11, <1>12, <1>13,
     <1>14, <1>15, <1>16 DEF Reacts, Step, Fault
-----------------------------------------------------------------------------
\* What a step can show: only keys of the sealed store, except where the
\* sealed file itself changes, and there it shows nothing.
ShowsSealedKeys ==
  /\ sealed' = sealed /\ lost' = lost
  /\ Exposed' \subseteq Exposed \cup SealedKeys

TearsSealed ==
  /\ sealed'.state = "torn" /\ lost' = (lost \/ sealed.state = "ok")
  /\ Exposed' \subseteq Exposed

LEMMA ExposureStep ==
  ASSUME IInv, [Reacts]_vars
  PROVE  ShowsSealedKeys \/ TearsSealed \/ WriteSealed
<1> USE DEF volatile, disk, platform, history
<1>0. TypeOK /\ MemoryWellFormed /\ MemoryFollowsSealed /\ AttestNamesCurrent
  BY DEF IInv
<1>1. ASSUME StoreIsSealed
      PROVE  KeysOf(store) \subseteq SealedKeys /\ Current(store) \in SealedKeys
  <2>1. sealed.state = "ok" /\ sealed.store = store
    BY <1>0, <1>1 DEF MemoryFollowsSealed, SealedBlob
  <2>2. store \in Store /\ WellFormed(store)
    BY <1>0, <1>1 DEF TypeOK, MemoryWellFormed, StoreIsSealed
  <2> QED
    BY <2>1, <2>2, CurrentInWellFormed DEF SealedKeys
<1>2. ASSUME UNCHANGED <<sealed, keyring, cache, published, lost>> PROVE ShowsSealedKeys
  BY <1>2 DEF ShowsSealedKeys, Exposed
<1>3. CASE SendReady
  <2>1. Current(store) \in SealedKeys /\ published' = published \cup {Current(store)}
        /\ UNCHANGED <<sealed, keyring, cache, lost>>
    BY <1>1, <1>3 DEF SendReady, StoreIsSealed
  <2> QED
    BY <2>1 DEF ShowsSealedKeys, Exposed
<1>4. CASE WriteKeyring \/ RefreshKeyring
  <2>1. KeysOf(store) \subseteq SealedKeys /\ keyring' = KeyringJson(store)
        /\ UNCHANGED <<sealed, cache, published, lost>>
    BY <1>1, <1>4 DEF WriteKeyring, RefreshKeyring, StoreIsSealed
  <2>2. keyring'.store = store
    BY <2>1 DEF KeyringJson
  <2> QED
    BY <2>1, <2>2 DEF ShowsSealedKeys, Exposed
<1>5. CASE WriteCache
  <2>1. AttestedKey \in SealedKeys /\ cache' = AttestationCacheJson(attest, attest_sequence)
        /\ UNCHANGED <<sealed, keyring, published, lost>>
    BY <1>0, <1>1, <1>5 DEF WriteCache, StoreIsSealed, AttestNamesCurrent
  <2>2. cache'.attestation = attest
    BY <2>1 DEF AttestationCacheJson
  <2> QED
    BY <2>1, <2>2 DEF ShowsSealedKeys, Exposed, AttestedKey
<1>6. CASE Announce
  <2>1. AttestedKey \in SealedKeys /\ published' = published \cup {AttestedKey}
        /\ UNCHANGED <<sealed, keyring, cache, lost>>
    BY <1>0, <1>1, <1>6 DEF Announce, StoreIsSealed, AttestNamesCurrent
  <2> QED
    BY <2>1 DEF ShowsSealedKeys, Exposed
<1>7. CASE Reply
  <2>1. /\ published' \subseteq published \cup SealedKeys
        /\ UNCHANGED <<sealed, keyring, cache, lost>>
    BY <1>0, <1>1, <1>7 DEF Reply, StoreIsSealed, AttestNamesCurrent
  <2> QED
    BY <2>1 DEF ShowsSealedKeys, Exposed
<1>8. CASE Crash \/ WriteFails
  <2>1. CASE Tear
    <3>1. /\ \/ sealed' = sealed /\ lost' = lost
             \/ sealed'.state = "torn" /\ lost' = (lost \/ sealed.state = "ok")
          /\ published' = published => Exposed' \subseteq Exposed
      BY <1>0, <2>1, TearEffect
    <3>2. published' = published
      BY <1>8 DEF Crash, WriteFails
    <3> QED
      BY <3>1, <3>2 DEF ShowsSealedKeys, TearsSealed
  <2>2. CASE UNCHANGED <<disk, lost>>
    BY <1>2, <1>8, <2>2 DEF Crash, WriteFails
  <2> QED
    BY <1>8, <2>1, <2>2 DEF Crash, WriteFails
<1>9. ASSUME NEW frame \in Sendable, Receive(frame) PROVE ShowsSealedKeys
  BY <1>2, <1>9 DEF Receive
<1>10. CASE Boot \/ BootUnsealed \/ BootNewStore \/ InitQuote \/ GetQuote
            \/ QuoteFails \/ Tick \/ ClockSetBack \/ UNCHANGED vars
  BY <1>2, <1>10 DEF Boot, BootUnsealed, BootNewStore, InitQuote, GetQuote,
     QuoteFails, Tick, ClockSetBack, vars
<1> QED
  BY <1>3, <1>4, <1>5, <1>6, <1>7, <1>8, <1>9, <1>10 DEF Reacts, Step, Fault

\* Types of what is exposed and sealed.
LEMMA ExposedTypes ==
  ASSUME TypeOK
  PROVE  Exposed \subseteq StoredKey /\ SealedKeys \subseteq StoredKey
         /\ \A p \in StoredKey : p.version \in Nat /\ p.public_key \in Nat
<1>1. ASSUME NEW s \in Store PROVE KeysOf(s) \subseteq StoredKey
  BY DEF Store, KeysOf
<1> QED
  BY <1>1 DEF TypeOK, Exposed, SealedKeys, StoredKey, Attestations

\* Sealing a store keeps every exposed key on disk, or destroys a store and
\* says so.
LEMMA WriteSealedStep ==
  ASSUME IInv, WriteSealed
  PROVE  /\ Exposed' = Exposed
         /\ SealedBeforeExposed'
         /\ \A p \in SealedKeys' : p.public_key <= generated
<1> USE DEF volatile, disk, platform, history
<1>1. /\ pc = "seal" /\ sealed' = SealedBlob(mrenclave, store)
      /\ lost' = (lost \/ (request.op = "boot" /\ sealed.state = "ok"))
      /\ UNCHANGED <<keyring, cache, published>>
  BY DEF WriteSealed
<1>2. Exposed' = Exposed
  BY <1>1 DEF Exposed
<1>3. sealed'.state = "ok" /\ sealed'.store = store /\ SealedKeys' = KeysOf(store)
  BY <1>1 DEF SealedBlob, SealedKeys
<1>4. TypeOK /\ MemoryWellFormed /\ MemoryFollowsSealed /\ KeysGenerated /\ SealedBeforeExposed
  BY DEF IInv
<1>5. generated \in Nat /\ Exposed \subseteq StoredKey /\ SealedKeys \subseteq StoredKey
  BY <1>4, ExposedTypes DEF TypeOK
<1>6. CASE request.op = "boot" /\ store = NewStore(generated)
  <2>1. KeysOf(store) = {[version |-> 1, public_key |-> generated]}
    BY <1>5, <1>6, NewStoreWellFormed
  <2>2. SealedBeforeExposed'
    BY <1>1, <1>2, <1>4, <1>6 DEF SealedBeforeExposed, Durable
  <2> QED
    BY <1>2, <1>3, <1>5, <2>1, <2>2
<1>7. CASE request.op = "rotate" /\ Unseals /\ store = Rotate(sealed.store, generated)
  <2>1. sealed.state = "ok" /\ sealed.store \in Store /\ WellFormed(sealed.store)
    BY <1>4, <1>7 DEF TypeOK, MemoryWellFormed, Unseals
  <2>2. Rotatable(sealed.store) /\ sealed.store.current_version \in Nat /\ RETENTION \in Nat
    BY <2>1, RetentionAssumption DEF Rotatable, Store
  <2>3. /\ store.current_version = sealed.store.current_version + 1
        /\ \A p \in KeysOf(sealed.store) :
             p \in KeysOf(store) \/ p.version + RETENTION <= store.current_version
        /\ \A p \in KeysOf(store) :
             \/ p \in KeysOf(sealed.store)
             \/ p = [version |-> store.current_version, public_key |-> generated]
    BY <1>5, <1>7, <2>1, <2>2, RotateWellFormed, RotateKeepsKeys
  <2>4. ASSUME ~lost', NEW p \in Exposed PROVE Durable(p)'
    <3>1. Durable(p) /\ p.version \in Nat
      BY <1>1, <1>4, <1>5, <2>4 DEF SealedBeforeExposed, StoredKey
    <3>2. p.version <= store.current_version
      BY <2>2, <2>3, <3>1 DEF Durable
    <3>3. p \in KeysOf(store) \/ p.version + RETENTION <= store.current_version
      BY <2>2, <2>3, <3>1 DEF Durable
    <3> QED
      BY <1>3, <3>2, <3>3 DEF Durable
  <2>5. \A p \in KeysOf(store) : p.public_key <= generated
    <3>1. \A p \in KeysOf(sealed.store) : p.public_key <= generated
      BY <1>4, <2>1 DEF KeysGenerated, SealedKeys
    <3> QED
      BY <1>5, <2>3, <3>1
  <2> QED
    BY <1>2, <1>3, <2>4, <2>5 DEF SealedBeforeExposed
<1> QED
  BY <1>1, <1>4, <1>6, <1>7 DEF MemoryFollowsSealed
\* A key pair is generated only on the way to sealing it.
LEMMA GeneratedStep ==
  ASSUME TypeOK, [Reacts]_vars
  PROVE  \/ generated' = generated /\ (pc' = "seal" => pc = "seal")
         \/ generated' = generated + 1 /\ generated < MaxKeys
<1> USE DEF volatile, disk, platform, history
<1>1. ASSUME NEW frame \in Sendable, Receive(frame)
      PROVE  \/ generated' = generated /\ (pc' = "seal" => pc = "seal")
             \/ generated' = generated + 1 /\ generated < MaxKeys
  BY <1>1 DEF Receive, FirstStep
<1>2. CASE Step
  BY <1>2 DEF Step, Boot, BootUnsealed, AfterUnseal, BootNewStore, SendReady, WriteSealed,
     WriteKeyring, AfterKeyring, InitQuote, GetQuote, WriteCache, RefreshKeyring,
     Announce, Reply
<1>3. CASE Tick \/ Fault \/ UNCHANGED vars
  BY <1>3 DEF Tick, Fault, Crash, WriteFails, QuoteFails, ClockSetBack, vars
<1> QED
  BY <1>1, <1>2, <1>3 DEF Reacts

\* The parts of the invariant that speak of keys.
LEMMA KeysStep ==
  ASSUME IInv, [Reacts]_vars
  PROVE  KeysGenerated' /\ SealedBeforeExposed' /\ VersionNamesOneKey'
<1>1. /\ TypeOK /\ MemoryWellFormed /\ KeysGenerated /\ SealedBeforeExposed
      /\ VersionNamesOneKey
  BY DEF IInv
<1>2. /\ generated \in Nat /\ MaxKeys \in Nat /\ RETENTION \in Nat
      /\ Exposed \subseteq StoredKey /\ SealedKeys \subseteq StoredKey
      /\ \A p \in StoredKey : p.version \in Nat /\ p.public_key \in Nat
  BY <1>1, ExposedTypes, BoundAssumption, RetentionAssumption DEF TypeOK
<1>3. \/ generated' = generated /\ (pc' = "seal" => pc = "seal")
      \/ generated' = generated + 1 /\ generated < MaxKeys
  BY <1>1, GeneratedStep
<1>4. CASE ShowsSealedKeys
  <2>1. /\ Exposed' \subseteq Exposed \cup SealedKeys /\ SealedKeys' = SealedKeys
        /\ sealed' = sealed /\ lost' = lost
    BY <1>4 DEF ShowsSealedKeys, SealedKeys
  <2>2. KeysGenerated'
    BY <1>1, <1>2, <1>3, <2>1 DEF KeysGenerated
  <2>3. \A p \in SealedKeys :
          /\ sealed.state = "ok" /\ sealed.store \in Store /\ WellFormed(sealed.store)
          /\ p \in KeysOf(sealed.store)
          /\ p.version <= sealed.store.current_version
          /\ sealed.store.current_version < p.version + RETENTION
          /\ \A q \in SealedKeys : q.version = p.version => q = p
    BY <1>1, KeysOfWellFormed DEF SealedKeys, MemoryWellFormed, TypeOK
  <2>4. \A p \in SealedKeys : Durable(p)
    BY <2>3 DEF Durable
  <2>5. SealedBeforeExposed'
    <3>1. ASSUME NEW p, Durable(p) PROVE Durable(p)'
      BY <2>1, <3>1 DEF Durable
    <3> QED
      BY <1>1, <2>1, <2>4, <3>1 DEF SealedBeforeExposed
  <2>6. ASSUME ~lost, NEW p \in SealedKeys, NEW q \in Exposed, p.version = q.version
        PROVE  p = q
    <3>1. Durable(q) /\ q.version \in Nat /\ sealed.store.current_version \in Nat
      BY <1>1, <1>2, <2>3, <2>6 DEF SealedBeforeExposed, Store
    <3>2. q \in SealedKeys
      BY <1>2, <2>3, <2>6, <3>1 DEF Durable, SealedKeys
    <3> QED
      BY <2>3, <2>6, <3>2
  <2>7. VersionNamesOneKey'
    BY <1>1, <2>1, <2>3, <2>6 DEF VersionNamesOneKey
  <2> QED
    BY <2>2, <2>5, <2>7
<1>5. CASE TearsSealed
  <2>1. /\ sealed'.state = "torn" /\ Exposed' \subseteq Exposed /\ SealedKeys' = {}
        /\ lost' = (lost \/ sealed.state = "ok")
    BY <1>5 DEF TearsSealed, SealedKeys
  <2>2. KeysGenerated'
    BY <1>1, <1>2, <1>3, <2>1 DEF KeysGenerated
  <2>3. ~lost' => Exposed' = {}
    BY <1>1, <2>1 DEF SealedBeforeExposed, Durable
  <2> QED
    BY <2>2, <2>3 DEF SealedBeforeExposed, VersionNamesOneKey
<1>6. CASE WriteSealed
  <2>1. /\ Exposed' = Exposed /\ SealedBeforeExposed'
        /\ \A p \in SealedKeys' : p.public_key <= generated
    BY <1>6, WriteSealedStep
  <2>2. generated' = generated /\ pc' = "keyring" /\ (~lost' => ~lost)
    BY <1>1, <1>6 DEF WriteSealed, TypeOK
  <2> QED
    BY <1>1, <2>1, <2>2 DEF KeysGenerated, VersionNamesOneKey
<1> QED
  BY <1>4, <1>5, <1>6, ExposureStep

-----------------------------------------------------------------------------
\* IInv survives every step, whatever the host sends.
LEMMA InvariantStep ==
  ASSUME IInv, [Reacts]_vars
  PROVE  IInv'
BY TypeStep, MemoryStep, AttestStep, KeysStep DEF IInv

\* IInv holds initially.
LEMMA InvariantInit == Init => IInv
<1>1. EmptyStore \in Store /\ Len(EmptyStore.keys) <= RETENTION
      /\ BootRequest \in Requests /\ NoAttestation \in Attestations
  BY RetentionAssumption DEF EmptyStore, Store, BootRequest, Requests, NoCiphertext,
     Ciphertexts, NonceValues, NoAttestation, Attestations
<1>2. ASSUME Init PROVE TypeOK
  <2>1. /\ sealed.store = EmptyStore /\ keyring.store = EmptyStore /\ store = EmptyStore
        /\ sealed \in [state : FileStates, mr : Measurements, store : Store]
        /\ keyring \in [state : FileStates, store : Store]
        /\ cache \in [state : FileStates, attestation : Attestations, sequence : Nat]
    BY <1>1, <1>2 DEF Init, FileStates
  <2>2. pc \in PCs
    BY <1>2 DEF Init, PCs
  <2>3. \A s \in {store, sealed.store, keyring.store} : Len(s.keys) <= RETENTION
    BY <1>1, <2>1
  <2> QED
    BY <1>1, <1>2, <2>1, <2>2, <2>3 DEF Init, TypeOK
<1>3. Init => Exposed = {} /\ SealedKeys = {}
  BY DEF Init, Exposed, SealedKeys
<1>4. Init => /\ MemoryWellFormed /\ MemoryFollowsSealed /\ AttestNamesCurrent
              /\ SealedBeforeExposed /\ VersionNamesOneKey /\ KeysGenerated
  BY <1>3, BoundAssumption DEF Init, MemoryWellFormed, MemoryFollowsSealed, StoreIsSealed,
     AttestNamesCurrent, SealedBeforeExposed, VersionNamesOneKey, KeysGenerated
<1> QED
  BY <1>2, <1>4, Zenon DEF IInv

\* IInv holds initially and survives every step.
THEOREM Invariance == Spec => []IInv
<1>1. IInv /\ [Next]_vars => IInv'
  BY FramesAreSendable, InvariantStep DEF IInv
<1> QED
  BY <1>1, InvariantInit, PTL DEF Spec

\* Every step of Runtime is one with a host that may send anything.
LEMMA AlwaysReacts == Spec => [][Reacts]_vars
<1>1. IInv /\ [Next]_vars => [Reacts]_vars
  BY FramesAreSendable DEF IInv
<1> QED
  BY <1>1, Invariance, PTL DEF Spec

\* Every variable keeps its type, and no store outgrows the retention.
THEOREM TypeCorrect == Spec => []TypeOK
<1>1. IInv => TypeOK
  BY DEF IInv
<1> QED
  BY <1>1, Invariance, PTL

\* However the enclave is killed and whichever calls fail, a key that anyone
\* has seen is sealed, unless it was rotated out or a sealed store destroyed.
THEOREM ExposedKeysAreSealed == Spec => []SealedBeforeExposed
<1>1. IInv => SealedBeforeExposed
  BY DEF IInv
<1> QED
  BY <1>1, Invariance, PTL

\* A key version never comes to name a second key.
THEOREM VersionsAreUnambiguous == Spec => []VersionNamesOneKey
<1>1. IInv => VersionNamesOneKey
  BY DEF IInv
<1> QED
  BY <1>1, Invariance, PTL

\* A key that was ever exposed decrypts or is refused as expired.
LEMMA ExposedDecrypts == IInv => ExposedKeysDecrypt
<1> SUFFICES ASSUME IInv, ~lost, ~Bootstrapping, NEW p \in Exposed
             PROVE  ComputeOutcome(store, p.version, [form |-> "xy", key |-> p.public_key])
                      = IF store.current_version < p.version + RETENTION
                          THEN "ok" ELSE "key_expired"
  BY DEF ExposedKeysDecrypt
<1>1. /\ TypeOK /\ MemoryWellFormed /\ MemoryFollowsSealed /\ Durable(p)
      /\ p \in StoredKey /\ p.version \in Nat
  BY ExposedTypes DEF IInv, SealedBeforeExposed
<1>2. /\ store \in Store /\ WellFormed(store) /\ generated \in Nat
      /\ sealed.store \in Store /\ sealed.store.current_version \in Nat
      /\ RETENTION \in Nat
  BY <1>1, RetentionAssumption DEF Bootstrapping, MemoryWellFormed, TypeOK, Store
<1>3. p \in KeysOf(store) \/ p.version + RETENTION <= store.current_version
  <2>1. CASE StoreIsSealed
    BY <1>1, <2>1 DEF MemoryFollowsSealed, SealedBlob, Durable
  <2>2. CASE pc = "seal" /\ request.op = "rotate"
    <3>1. store = Rotate(sealed.store, generated) /\ sealed.state = "ok"
      BY <1>1, <2>2 DEF MemoryFollowsSealed, Unseals
    <3>2. Rotatable(sealed.store)
      BY <1>1, <3>1 DEF Rotatable, MemoryWellFormed
    <3>3. /\ store.current_version = sealed.store.current_version + 1
          /\ \A q \in KeysOf(sealed.store) :
               q \in KeysOf(store) \/ q.version + RETENTION <= store.current_version
      BY <1>2, <3>1, <3>2, RotateWellFormed, RotateKeepsKeys
    <3> QED
      BY <1>1, <1>2, <3>3 DEF Durable
  <2> QED
    BY <1>1, <2>1, <2>2 DEF Bootstrapping, StoreIsSealed, MemoryFollowsSealed
<1>4. Decrypt(store, p.version, p.public_key, TRUE)
        = IF store.current_version < p.version + RETENTION THEN "ok" ELSE "key_expired"
  BY <1>1, <1>2, <1>3, DecryptOutcome
<1> QED
  BY <1>4 DEF ComputeOutcome

\* A ciphertext made for a key that was ever exposed is decrypted while the
\* version is among the last RETENTION, and is refused as expired after that.
THEOREM ExposedKeysKeepDecrypting == Spec => []ExposedKeysDecrypt
BY ExposedDecrypts, Invariance, PTL

-----------------------------------------------------------------------------
(* The files agree with the enclave whenever it waits for a request, and a   *)
(* computation follows a fresh attestation: FInv, inductive with IInv.       *)

\* From the write of the keyring to the next change of the store.
KeyringWritten == pc \in {"ready", "idle", "init_quote", "get_quote", "cache",
                          "refresh", "announce", "reply"}

\* The loop between two requests, or one step before or after it.
CacheSettled == pc \in {"ready", "idle", "reply"}

Caching == pc \in {"refresh", "announce"}

\* keyring.json shows the store, and attestation.json the attestation that
\* was made last, once this boot has made one.
FilesFollowMemory ==
  /\ KeyringWritten => keyring = KeyringJson(store)
  /\ Caching => cache = AttestationCacheJson(attest, attest_sequence)
  /\ CacheSettled /\ attest_sequence > 0 =>
       /\ cache.state = "ok"
       /\ cache.sequence = attest_sequence
       /\ cache.attestation.version = Current(store).version
       /\ cache.attestation.public_key = Current(store).public_key
       /\ cache.attestation.attested_at = last_attested_at

\* Nothing is attested before the store is loaded, and an attestation or its
\* time is remembered only of one that was made.
AttestedOnlyAfterBoot ==
  /\ request.op = "boot" /\ pc \in {"read_sealed", "seal", "keyring", "ready"}
       => attest_sequence = 0
  /\ pc = "ready" => request.op = "boot"
  /\ pc \in {"cache", "refresh", "announce"} => attest_sequence > 0
  /\ attest # NoAttestation => attest_sequence > 0
  /\ last_attested_at # 0 => attest_sequence > 0

FInv == FilesFollowMemory /\ AttestedOnlyAfterBoot

\* The keys clients may encrypt to include the one the enclave computes with.
CurrentIsPublished ==
  /\ pc = "keyring" => request.op \in {"boot", "rotate"}
  /\ \/ pc \in {"idle", "reply"}
     \/ /\ request.op \in {"attest", "compute"}
        /\ pc \in {"init_quote", "get_quote", "cache", "refresh", "announce"}
     => Current(store) \in published

\* A computation that made no attestation of its own found one that was fresh.
FreshWhenComputing ==
  pc = "reply" /\ request.op = "compute" /\ attest = NoAttestation =>
    /\ last_attested_at # 0
    /\ SaturatingSub(taken_at, last_attested_at) <= STALE_THRESHOLD_SECS

CInv == CurrentIsPublished /\ FreshWhenComputing

-----------------------------------------------------------------------------
\* Every step keeps the files in step with the memory.
LEMMA FilesStep ==
  ASSUME IInv, FInv, [Reacts]_vars
  PROVE  FInv'
<1> USE DEF FInv, FilesFollowMemory, AttestedOnlyAfterBoot, KeyringWritten, CacheSettled,
            Caching, volatile, disk, platform, history
<1>0. /\ attest_sequence \in Nat /\ attest \in Attestations
      /\ pc = "read_sealed" => request.op = "boot"
      /\ pc \in {"cache", "refresh", "announce"} => AttestedKey = Current(store)
  BY DEF IInv, TypeOK, MemoryFollowsSealed, AttestNamesCurrent
<1>1. CASE Boot
  BY <1>1 DEF Boot, MemoryCleared
<1>2. CASE BootUnsealed
  BY <1>0, <1>2 DEF BootUnsealed, AfterUnseal
<1>3. CASE BootNewStore
  BY <1>0, <1>3 DEF BootNewStore
<1>4. CASE SendReady
  BY <1>4 DEF SendReady
<1>5. ASSUME NEW frame \in Sendable, Receive(frame) PROVE FInv'
  <2>1. frame.op # "boot"
    BY DEF IInv, Sendable
  <2>2. CASE frame.op = "rotate"
    BY <1>5, <2>1, <2>2 DEF Receive, FirstStep
  <2>3. CASE frame.op # "rotate"
    <3>1. pc' \in {"exited", "init_quote", "reply"} /\ store' = store
      BY <1>5, <2>3 DEF Receive, FirstStep
    <3> QED
      BY <1>5, <2>1, <3>1 DEF Receive
  <2> QED
    BY <2>2, <2>3
<1>6. CASE WriteSealed
  BY <1>6 DEF WriteSealed
<1>7. CASE WriteKeyring
  BY <1>7 DEF WriteKeyring, AfterKeyring
<1>8. CASE InitQuote
  BY <1>8 DEF InitQuote
<1>9. CASE GetQuote
  BY <1>0, <1>9 DEF GetQuote
<1>10. CASE WriteCache
  BY <1>10 DEF WriteCache
<1>11. CASE RefreshKeyring
  <2>1. /\ cache' = AttestationCacheJson(attest, attest_sequence)
        /\ attest.version = Current(store).version
        /\ attest.public_key = Current(store).public_key
    BY <1>0, <1>11 DEF RefreshKeyring, AttestedKey
  <2> QED
    BY <1>11, <2>1 DEF RefreshKeyring, AttestationCacheJson
<1>12. CASE Announce
  <2>1. /\ cache' = AttestationCacheJson(attest, attest_sequence)
        /\ attest.version = Current(store).version
        /\ attest.public_key = Current(store).public_key
    BY <1>0, <1>12 DEF Announce, AttestedKey
  <2> QED
    BY <1>12, <2>1 DEF Announce, AttestationCacheJson
<1>13. CASE Reply
  BY <1>13 DEF Reply
<1>14. CASE Crash
  BY <1>14 DEF Crash, MemoryCleared
<1>15. CASE WriteFails
  BY <1>15 DEF WriteFails, MemoryCleared
<1>16. CASE QuoteFails
  BY <1>16 DEF QuoteFails, MemoryCleared
<1>17. CASE Tick \/ ClockSetBack
  BY <1>17 DEF Tick, ClockSetBack
<1>18. CASE UNCHANGED vars
  BY <1>18 DEF vars
<1> QED
  BY <1>1, <1>2, <1>3, <1>4, <1>5, <1>6, <1>7, <1>8, <1>9, <1>10, <1>11, <1>12, <1>13,
     <1>14, <1>15, <1>16, <1>17, <1>18 DEF Reacts, Step, Fault

\* Every step keeps the current key known to clients.
LEMMA PublishedStep ==
  ASSUME IInv, CurrentIsPublished, [Reacts]_vars
  PROVE  CurrentIsPublished'
<1> USE DEF CurrentIsPublished, volatile, disk, platform, history
<1>0. /\ pc = "read_sealed" => request.op = "boot"
      /\ pc = "seal" => request.op \in {"boot", "rotate"}
      /\ pc \in {"refresh", "announce"} => AttestedKey = Current(store)
  BY DEF IInv, MemoryFollowsSealed, AttestNamesCurrent
<1>1. CASE Boot
  BY <1>1 DEF Boot
<1>2. CASE BootUnsealed
  BY <1>0, <1>2 DEF BootUnsealed, AfterUnseal
<1>3. CASE BootNewStore
  BY <1>3 DEF BootNewStore
<1>4. CASE SendReady
  BY <1>4 DEF SendReady
<1>5. ASSUME NEW frame \in Sendable, Receive(frame) PROVE CurrentIsPublished'
  <2>1. CASE frame.op = "rotate"
    BY <1>5, <2>1 DEF Receive, FirstStep
  <2>2. CASE frame.op # "rotate"
    BY <1>5, <2>2 DEF Receive, FirstStep
  <2> QED
    BY <2>1, <2>2
<1>6. CASE WriteSealed
  BY <1>0, <1>6 DEF WriteSealed
<1>7. CASE WriteKeyring
  BY <1>7 DEF WriteKeyring, AfterKeyring
<1>8. CASE InitQuote
  BY <1>8 DEF InitQuote
<1>9. CASE GetQuote
  BY <1>9 DEF GetQuote
<1>10. CASE WriteCache
  BY <1>10 DEF WriteCache
<1>11. CASE RefreshKeyring
  BY <1>11 DEF RefreshKeyring
<1>12. CASE Announce
  BY <1>0, <1>12 DEF Announce
<1>13. CASE Reply
  BY <1>13 DEF Reply
<1>14. CASE Crash
  BY <1>14 DEF Crash
<1>15. CASE WriteFails
  BY <1>15 DEF WriteFails
<1>16. CASE QuoteFails
  BY <1>16 DEF QuoteFails
<1>17. CASE Tick \/ ClockSetBack
  BY <1>17 DEF Tick, ClockSetBack
<1>18. CASE UNCHANGED vars
  BY <1>18 DEF vars
<1> QED
  BY <1>1, <1>2, <1>3, <1>4, <1>5, <1>6, <1>7, <1>8, <1>9, <1>10, <1>11, <1>12, <1>13,
     <1>14, <1>15, <1>16, <1>17, <1>18 DEF Reacts, Step, Fault

\* Every step keeps what a computation waits for: an attestation made for it,
\* or one that was not stale.
LEMMA FreshStep ==
  ASSUME IInv, FreshWhenComputing, [Reacts]_vars
  PROVE  FreshWhenComputing'
<1> USE DEF FreshWhenComputing, volatile, disk, platform, history
<1>0. /\ now \in Nat /\ taken_at \in Nat /\ last_attested_at \in Nat
      /\ attest.attested_at \in Nat
  BY DEF IInv, TypeOK, Attestations
<1>1. CASE Boot
  BY <1>1 DEF Boot, MemoryCleared
<1>2. CASE BootUnsealed
  BY <1>2 DEF BootUnsealed, AfterUnseal
<1>3. CASE BootNewStore
  BY <1>3 DEF BootNewStore
<1>4. CASE SendReady
  BY <1>4 DEF SendReady
<1>5. ASSUME NEW frame \in Sendable, Receive(frame)
      PROVE  FreshWhenComputing'
  <2>1. pc' = "reply" /\ frame.op = "compute" => ~Stale
    BY <1>5 DEF Receive, FirstStep
  <2>2. ~Stale => /\ last_attested_at # 0
                  /\ SaturatingSub(now, last_attested_at) <= STALE_THRESHOLD_SECS
    BY <1>0, ThresholdAssumption DEF Stale, SaturatingSub
  <2> QED
    BY <1>5, <2>1, <2>2 DEF Receive
<1>6. CASE WriteSealed
  BY <1>6 DEF WriteSealed
<1>7. CASE WriteKeyring
  BY <1>7 DEF WriteKeyring, AfterKeyring
<1>8. CASE InitQuote
  BY <1>8 DEF InitQuote
<1>9. CASE GetQuote
  BY <1>9 DEF GetQuote
<1>10. CASE WriteCache
  BY <1>10 DEF WriteCache
<1>11. CASE RefreshKeyring
  BY <1>11 DEF RefreshKeyring
<1>12. CASE Announce
  <2>1. attest.version = Current(store).version /\ Current(store).version >= 1
    BY <1>12, CurrentInWellFormed
      DEF Announce, IInv, TypeOK, MemoryWellFormed, WellFormed, AttestNamesCurrent, AttestedKey
  <2>2. attest' # NoAttestation
    BY <1>12, <2>1 DEF Announce, NoAttestation
  <2> QED
    BY <1>12, <2>2 DEF Announce
<1>13. CASE Reply
  BY <1>13 DEF Reply
<1>14. CASE Crash
  BY <1>14 DEF Crash, MemoryCleared
<1>15. CASE WriteFails
  BY <1>15 DEF WriteFails, MemoryCleared
<1>16. CASE QuoteFails
  BY <1>16 DEF QuoteFails, MemoryCleared
<1>17. CASE Tick
  BY <1>0, <1>17 DEF Tick
<1>18. CASE ClockSetBack
  BY <1>0, <1>18 DEF ClockSetBack
<1>19. CASE UNCHANGED vars
  BY <1>19 DEF vars
<1> QED
  BY <1>1, <1>2, <1>3, <1>4, <1>5, <1>6, <1>7, <1>8, <1>9, <1>10, <1>11, <1>12, <1>13,
     <1>14, <1>15, <1>16, <1>17, <1>18, <1>19 DEF Reacts, Step, Fault

-----------------------------------------------------------------------------
LEMMA FilesInvariance == Spec => []FInv
<1>1. Init => FInv
  BY DEF Init, FInv, FilesFollowMemory, AttestedOnlyAfterBoot, KeyringWritten, CacheSettled,
     Caching
<1>2. IInv /\ FInv /\ [Reacts]_vars => FInv'
  BY FilesStep
<1> QED
  BY <1>1, <1>2, Invariance, AlwaysReacts, PTL DEF Spec

\* Whenever the enclave waits for a request, a restart would resume with the
\* keys it has, and keyring.json and attestation.json show the current key,
\* whatever failed or was killed before.
THEOREM FilesAgreeWhenIdle == Spec => []DiskAgreesWhenIdle
<1>1. IInv /\ FInv => DiskAgreesWhenIdle
  <2> SUFFICES ASSUME IInv, FInv, pc = "idle"
               PROVE  /\ sealed = SealedBlob(mrenclave, store)
                      /\ keyring = KeyringJson(store)
                      /\ attest_sequence > 0 =>
                           /\ cache.state = "ok"
                           /\ cache.sequence = attest_sequence
                           /\ cache.attestation.version = store.current_version
                           /\ cache.attestation.public_key = Current(store).public_key
                           /\ cache.attestation.attested_at = last_attested_at
    BY DEF DiskAgreesWhenIdle
  <2>1. sealed = SealedBlob(mrenclave, store)
    BY DEF IInv, MemoryFollowsSealed, StoreIsSealed
  <2>2. Current(store).version = store.current_version
    BY CurrentInWellFormed DEF IInv, TypeOK, MemoryWellFormed
  <2> QED
    BY <2>1, <2>2 DEF FInv, FilesFollowMemory, KeyringWritten, CacheSettled
<1> QED
  BY <1>1, Invariance, FilesInvariance, PTL

\* No computation is answered before this boot attested, for the request or so
\* shortly before it that the attestation was not stale, and with another key
\* than the one clients have been told.
THEOREM ComputationsAreAttested == Spec => []ComputeAfterAttestation
<1>1. Init => CInv
  BY DEF Init, CInv, CurrentIsPublished, FreshWhenComputing
<1>2. IInv /\ CInv /\ [Reacts]_vars => CInv'
  BY PublishedStep, FreshStep DEF CInv
<1>3. IInv /\ FInv /\ CInv => ComputeAfterAttestation
  <2> SUFFICES ASSUME IInv, FInv, CInv, pc = "reply", request.op = "compute"
               PROVE  /\ attest = NoAttestation =>
                           /\ last_attested_at # 0
                           /\ SaturatingSub(taken_at, last_attested_at) <= STALE_THRESHOLD_SECS
                      /\ cache.state = "ok"
                      /\ cache.attestation.version = store.current_version
                      /\ Current(store) \in published
    BY DEF ComputeAfterAttestation
  <2>1. attest = NoAttestation =>
          /\ last_attested_at # 0
          /\ SaturatingSub(taken_at, last_attested_at) <= STALE_THRESHOLD_SECS
    BY DEF CInv, FreshWhenComputing
  <2>2. Current(store).version = store.current_version
    BY CurrentInWellFormed DEF IInv, TypeOK, MemoryWellFormed
  <2>3. cache.state = "ok" /\ cache.attestation.version = store.current_version
    BY <2>1, <2>2 DEF FInv, FilesFollowMemory, AttestedOnlyAfterBoot, CacheSettled
  <2>4. Current(store) \in published
    BY DEF CInv, CurrentIsPublished
  <2> QED
    BY <2>1, <2>3, <2>4
<1> QED
  BY <1>1, <1>2, <1>3, Invariance, AlwaysReacts, FilesInvariance, PTL DEF Spec

-----------------------------------------------------------------------------
(* What `lost`, the condition of the theorems above, can come from.        *)

\* No other build was started unless builds change, and a bootstrap that is
\* about to seal a new store found none it could open unless reads fail.
BlobIsKept ==
  /\ "rebuild" \notin Faults => sealed.mr = mrenclave
  /\ "read" \notin Faults /\ pc = "seal" /\ request.op = "boot" => ~Unseals

\* The ways a sealed store is destroyed: its write is interrupted, or a
\* bootstrap that did not get to read it, or could not open it, seals a new one.
TornByFault == pc = "seal" /\ (Crash \/ WriteFails)

ReplacedAtBoot ==
  /\ WriteSealed /\ request.op = "boot"
  /\ "read" \in Faults \/ sealed.mr # mrenclave

\* Every step keeps the blob of the build, and loses it in these ways only.
LEMMA LossStep ==
  ASSUME TypeOK, BlobIsKept, [Reacts]_vars
  PROVE  /\ BlobIsKept'
         /\ ~lost /\ lost' => TornByFault \/ ReplacedAtBoot
<1> USE DEF BlobIsKept, Unseals, volatile, disk, platform, history
<1>0. sealed \in [state : FileStates, mr : Measurements, store : Store]
  BY DEF TypeOK
<1>1. CASE Boot
  BY <1>1 DEF Boot
<1>2. CASE BootUnsealed
  BY <1>2 DEF BootUnsealed, AfterUnseal
<1>3. CASE BootNewStore
  BY <1>3 DEF BootNewStore
<1>4. CASE SendReady
  BY <1>4 DEF SendReady
<1>5. ASSUME NEW frame \in Sendable, Receive(frame)
      PROVE  BlobIsKept' /\ lost' = lost
  BY <1>5 DEF Receive, Sendable
<1>6. CASE WriteSealed
  BY <1>6 DEF WriteSealed, SealedBlob, ReplacedAtBoot
<1>7. CASE WriteKeyring
  BY <1>7 DEF WriteKeyring, AfterKeyring
<1>8. CASE InitQuote \/ GetQuote
  BY <1>8 DEF InitQuote, GetQuote
<1>9. CASE WriteCache \/ RefreshKeyring
  BY <1>9 DEF WriteCache, RefreshKeyring
<1>10. CASE Announce \/ Reply
  BY <1>10 DEF Announce, Reply
<1>11. CASE Crash \/ WriteFails
  <2>1. sealed'.mr = sealed.mr /\ mrenclave' = mrenclave /\ pc' # "seal"
    BY <1>0, <1>11 DEF Crash, WriteFails, Tear
  <2>2. ~lost /\ lost' => pc = "seal"
    BY <1>11 DEF Crash, WriteFails, Tear
  <2> QED
    BY <1>11, <2>1, <2>2 DEF TornByFault
<1>12. CASE QuoteFails
  BY <1>12 DEF QuoteFails
<1>13. CASE Tick \/ ClockSetBack
  BY <1>13 DEF Tick, ClockSetBack
<1>14. CASE UNCHANGED vars
  BY <1>14 DEF vars
<1> QED
  BY <1>1, <1>2, <1>3, <1>4, <1>5, <1>6, <1>7, <1>8, <1>9, <1>10, <1>11, <1>12, <1>13,
     <1>14 DEF Reacts, Step, Fault

LEMMA BlobInvariance == Spec => []BlobIsKept
<1>1. Init => BlobIsKept
  BY DEF Init, BlobIsKept
<1>2. TypeOK /\ BlobIsKept /\ [Reacts]_vars => BlobIsKept'
  BY LossStep
<1> QED
  BY <1>1, <1>2, TypeCorrect, AlwaysReacts, PTL DEF Spec

\* A sealed store is destroyed only while sealed_keys.bin is being written, by
\* the end of the loader or a write that fails, and by a bootstrap that was
\* not shown it or is that of another build.  A rotation that is not
\* interrupted, a quote that fails and a frame that ends run_loop destroy
\* nothing.
THEOREM KeysAreLostInKnownWays ==
  Spec => [][~lost /\ lost' => TornByFault \/ ReplacedAtBoot]_vars
<1>1. TypeOK /\ BlobIsKept /\ [Reacts]_vars
        => [~lost /\ lost' => TornByFault \/ ReplacedAtBoot]_vars
  BY LossStep
<1> QED
  BY <1>1, TypeCorrect, BlobInvariance, AlwaysReacts, PTL

\* Where the loader is not killed, reads and writes the files without failing
\* and is built once, restarts lose no key, whatever else happens: quotes that
\* fail, frames that end the enclave, a clock that is set back.
THEOREM KeysAreLostOnlyByFaults ==
  ASSUME Faults \cap {"crash", "write", "read", "rebuild"} = {}
  PROVE  Spec => []KeysSurviveRestart
<1>1. ~(Crash \/ WriteFails)
  BY DEF Crash, WriteFails
<1>2. BlobIsKept => ~ReplacedAtBoot
  BY DEF BlobIsKept, ReplacedAtBoot
<1>3. Init => KeysSurviveRestart
  BY DEF Init, KeysSurviveRestart
<1>4. TypeOK /\ BlobIsKept /\ KeysSurviveRestart /\ [Reacts]_vars => KeysSurviveRestart'
  BY <1>1, <1>2, LossStep DEF KeysSurviveRestart, TornByFault
<1> QED
  BY <1>3, <1>4, TypeCorrect, BlobInvariance, AlwaysReacts, PTL DEF Spec
=============================================================================
