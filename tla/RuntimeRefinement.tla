-------------------------- MODULE RuntimeRefinement --------------------------
(***************************************************************************)
(* The enclave and its files implement KeyLedger: every step of Runtime    *)
(* advances the ledger, publishes its newest key, destroys it, or is not   *)
(* seen by it.                                                             *)
(***************************************************************************)
EXTENDS RuntimeProofs

\* The window of the ledger as a function of a well-formed store.
WindowOf(s) == [v \in VersionsOf(s) |-> Find(s, v).public_key]

\* The newest version is in the window, with the current key.
LEMMA WindowCurrent ==
  ASSUME NEW s \in Store, WellFormed(s)
  PROVE  /\ s.current_version \in VersionsOf(s)
         /\ WindowOf(s)[s.current_version] = Current(s).public_key
         /\ Current(s) = [version |-> s.current_version,
                          public_key |-> WindowOf(s)[s.current_version]]
<1>1. Current(s) \in StoredKey /\ Current(s) \in KeysOf(s)
      /\ Current(s).version = s.current_version
  BY CurrentInWellFormed
<1>2. s.current_version \in VersionsOf(s)
  BY <1>1 DEF VersionsOf
<1>3. Current(s) = Find(s, s.current_version)
  BY DEF Current
<1>4. WindowOf(s)[s.current_version] = Current(s).public_key
  BY <1>2, <1>3 DEF WindowOf
<1> QED
  BY <1>1, <1>2, <1>4 DEF StoredKey

\* What a rotation does to the window.
LEMMA WindowRotate ==
  ASSUME NEW s \in Store, NEW k \in Nat, Rotatable(s)
  PROVE  WindowOf(Rotate(s, k)) =
           [v \in {w \in VersionsOf(s) \cup {s.current_version + 1} :
                     w + RETENTION > s.current_version + 1} |->
              IF v = s.current_version + 1 THEN k ELSE WindowOf(s)[v]]
<1> DEFINE t == Rotate(s, k)
           n == s.current_version + 1
           kept == {w \in VersionsOf(s) \cup {n} : w + RETENTION > n}
<1>1. s.current_version \in Nat /\ n \in Nat /\ RETENTION \in Nat /\ RETENTION >= 2
  BY RetentionAssumption DEF Store
<1>2. t \in Store /\ WellFormed(t) /\ t.current_version = n
  BY RotateType, RotateWellFormed
<1>3. /\ \A p \in KeysOf(s) : p \in KeysOf(t) \/ p.version + RETENTION <= n
      /\ \A p \in KeysOf(t) : p \in KeysOf(s) \/ p = [version |-> n, public_key |-> k]
      /\ [version |-> n, public_key |-> k] = Current(t)
  BY RotateKeepsKeys
<1>4. \A p \in KeysOf(t) : /\ p \in StoredKey /\ p.version <= n /\ n < p.version + RETENTION
                           /\ Find(t, p.version) = p
  BY <1>2, KeysOfWellFormed
<1>5. \A p \in KeysOf(s) : /\ p \in StoredKey /\ p.version <= s.current_version
                           /\ Find(s, p.version) = p
  <2>1. CASE s = EmptyStore
    BY <2>1 DEF EmptyStore, KeysOf
  <2>2. CASE WellFormed(s)
    BY <2>2, KeysOfWellFormed
  <2> QED
    BY <2>1, <2>2 DEF Rotatable
<1>6. Current(t) \in KeysOf(t)
  BY <1>2, CurrentInWellFormed
<1> HIDE DEF t, n
<1>7. VersionsOf(t) = kept
  <2>1. ASSUME NEW v \in VersionsOf(t) PROVE v \in kept
    <3>1. PICK p \in KeysOf(t) : v = p.version
      BY DEF VersionsOf
    <3>2. v \in Nat /\ v + RETENTION > n
      BY <1>1, <1>4, <3>1 DEF StoredKey
    <3>3. v \in VersionsOf(s) \/ v = n
      BY <1>3, <3>1 DEF VersionsOf
    <3> QED
      BY <3>2, <3>3
  <2>2. ASSUME NEW v \in kept PROVE v \in VersionsOf(t)
    <3>1. CASE v = n
      <4>1. Current(t).version = n
        BY <1>3
      <4> QED
        BY <1>6, <3>1, <4>1 DEF VersionsOf
    <3>2. CASE v \in VersionsOf(s)
      <4>1. PICK p \in KeysOf(s) : v = p.version
        BY <3>2 DEF VersionsOf
      <4>2. v \in Nat /\ v + RETENTION > n
        BY <1>5, <2>2, <4>1 DEF StoredKey
      <4>3. p \in KeysOf(t)
        BY <1>1, <1>3, <4>1, <4>2
      <4> QED
        BY <4>1, <4>3 DEF VersionsOf
    <3> QED
      BY <2>2, <3>1, <3>2
  <2> QED
    BY <2>1, <2>2
<1>8. ASSUME NEW v \in kept
      PROVE  Find(t, v).public_key = IF v = n THEN k ELSE WindowOf(s)[v]
  <2>1. CASE v = n
    <3>1. Find(t, n) = [version |-> n, public_key |-> k]
      BY <1>2, <1>3 DEF Current
    <3> QED
      BY <2>1, <3>1
  <2>2. CASE v # n
    <3>1. v \in VersionsOf(t) /\ v \in VersionsOf(s)
      BY <1>7, <1>8, <2>2
    <3>2. PICK p \in KeysOf(t) : v = p.version
      BY <3>1 DEF VersionsOf
    <3>3. p \in KeysOf(s)
      BY <1>3, <2>2, <3>2
    <3>4. Find(t, v) = p /\ Find(s, v) = p
      BY <1>4, <1>5, <3>2, <3>3
    <3> QED
      BY <2>2, <3>1, <3>4 DEF WindowOf
  <2> QED
    BY <2>1, <2>2
<1> HIDE DEF kept
<1>9. WindowOf(t) = [v \in kept |-> IF v = n THEN k ELSE WindowOf(s)[v]]
  BY <1>7, <1>8 DEF WindowOf
<1> QED
  BY <1>9 DEF t, n, kept

\* What the mapping reads off the sealed file.
LEMMA LedgerOfSealed ==
  ASSUME TypeOK
  PROVE  /\ sealed.state = "ok" => /\ LedgerVersion = sealed.store.current_version
                                   /\ LedgerWindow = WindowOf(sealed.store)
                                   /\ DOMAIN LedgerWindow = VersionsOf(sealed.store)
         /\ sealed.state # "ok" => /\ LedgerVersion = 0
                                   /\ LedgerWindow = Ledger!NoKeys
                                   /\ DOMAIN LedgerWindow = {}
BY DEF LedgerVersion, LedgerWindow, WindowOf, Ledger!NoKeys

\* A key that is about to be sealed is fresh to the ledger.
LEMMA GeneratedIsFresh ==
  ASSUME IInv, pc = "seal"
  PROVE  generated \in 1..MaxKeys /\ Ledger!Fresh(generated)
<1>1. TypeOK /\ MemoryWellFormed /\ KeysGenerated
  BY DEF IInv
<1>2. generated \in Nat /\ MaxKeys \in Nat /\ generated \in 1..MaxKeys
  BY <1>1, BoundAssumption DEF TypeOK, KeysGenerated
<1>3. /\ \A p \in Exposed \cup SealedKeys : p.public_key < generated
      /\ Exposed \cup SealedKeys \subseteq StoredKey
  BY <1>1, ExposedTypes DEF KeysGenerated
<1>4. \A p \in published : p.public_key # generated
  <2>1. published \subseteq Exposed
    BY DEF Exposed
  <2> QED
    BY <1>2, <1>3, <2>1 DEF StoredKey
<1>5. \A v \in DOMAIN LedgerWindow : LedgerWindow[v] # generated
  <2> TAKE v \in DOMAIN LedgerWindow
  <2>1. sealed.state = "ok" /\ v \in VersionsOf(sealed.store)
        /\ LedgerWindow[v] = Find(sealed.store, v).public_key
    BY <1>1, LedgerOfSealed DEF WindowOf
  <2>2. PICK p \in KeysOf(sealed.store) : v = p.version
    BY <2>1 DEF VersionsOf
  <2>3. Find(sealed.store, v) = p
    BY <1>1, <2>1, <2>2, KeysOfWellFormed DEF MemoryWellFormed, TypeOK
  <2>4. p.public_key < generated /\ p.public_key \in Nat
    BY <1>3, <2>1, <2>2 DEF SealedKeys, StoredKey
  <2> QED
    BY <1>2, <2>1, <2>3, <2>4
<1> QED
  BY <1>2, <1>4, <1>5 DEF Ledger!Fresh

\* Sealing advances the ledger, or starts a new one in place of the old.
LEMMA WriteSealedRefines ==
  ASSUME IInv, IInv', WriteSealed
  PROVE  Ledger!Next
<1> USE DEF volatile, disk, platform, history
<1>1. /\ pc = "seal" /\ sealed' = SealedBlob(mrenclave, store)
      /\ lost' = (lost \/ (request.op = "boot" /\ sealed.state = "ok"))
      /\ published' = published
  BY DEF WriteSealed
<1>2. TypeOK /\ TypeOK' /\ MemoryWellFormed /\ MemoryFollowsSealed
  BY DEF IInv
<1>3. generated \in Nat /\ generated \in 1..MaxKeys /\ Ledger!Fresh(generated)
  BY <1>1, <1>2, GeneratedIsFresh DEF TypeOK
<1>4. sealed'.state = "ok" /\ sealed'.store = store
  BY <1>1 DEF SealedBlob
<1>5. LedgerVersion' = store.current_version /\ LedgerWindow' = WindowOf(store)
  BY <1>4 DEF LedgerVersion, LedgerWindow, WindowOf
<1>6. ASSUME NEW s \in Store, Rotatable(s), store = Rotate(s, generated),
             LedgerVersion = s.current_version, LedgerWindow = WindowOf(s),
             lost' = lost
      PROVE  Ledger!Next
  <2>1. LedgerVersion' = LedgerVersion + 1
    BY <1>3, <1>5, <1>6, RotateWellFormed
  <2>2. DOMAIN LedgerWindow = VersionsOf(s)
    BY <1>6 DEF WindowOf
  <2>3. LedgerWindow' =
          [v \in {w \in DOMAIN LedgerWindow \cup {LedgerVersion + 1} :
                    w + RETENTION > LedgerVersion + 1} |->
             IF v = LedgerVersion + 1 THEN generated ELSE LedgerWindow[v]]
    BY <1>3, <1>5, <1>6, <2>2, WindowRotate
  <2>4. Ledger!Advance(generated)
    BY <1>1, <1>3, <1>6, <2>1, <2>3 DEF Ledger!Advance
  <2> QED
    BY <1>3, <2>4 DEF Ledger!Next
<1>7. EmptyStore \in Store /\ Rotatable(EmptyStore) /\ VersionsOf(EmptyStore) = {}
      /\ EmptyStore.current_version = 0
  BY DEF EmptyStore, Store, Rotatable, VersionsOf, KeysOf
<1>8. CASE request.op = "boot" /\ store = NewStore(generated) /\ sealed.state # "ok"
  <2>1. LedgerVersion = 0 /\ LedgerWindow = [v \in {} |-> 0]
    BY <1>8 DEF LedgerVersion, LedgerWindow
  <2>2. WindowOf(EmptyStore) = [v \in {} |-> 0]
    BY <1>7 DEF WindowOf
  <2>3. lost' = lost
    BY <1>1, <1>2, <1>8 DEF TypeOK
  <2> QED
    BY <1>6, <1>7, <1>8, <2>1, <2>2, <2>3 DEF NewStore
<1>9. CASE request.op = "boot" /\ store = NewStore(generated) /\ sealed.state = "ok"
  <2>1. LedgerVersion = sealed.store.current_version /\ sealed.store \in Store
        /\ sealed.store.current_version \in Nat /\ WellFormed(sealed.store)
    BY <1>2, <1>9, LedgerOfSealed DEF TypeOK, MemoryWellFormed, Store
  <2>2. LedgerVersion > 0
    BY <2>1, WellFormedBounded
  <2>3. store \in Store /\ WellFormed(store) /\ store.current_version = 1
        /\ KeysOf(store) = {[version |-> 1, public_key |-> generated]}
    BY <1>3, <1>9, NewStoreWellFormed
  <2>4. VersionsOf(store) = {1}
    BY <2>3 DEF VersionsOf
  <2>5. WindowOf(store)[1] = generated
    BY <2>3, CurrentInWellFormed, WindowCurrent
  <2>6. LedgerWindow' = [v \in {1} |-> generated]
    BY <1>5, <2>4, <2>5 DEF WindowOf
  <2>7. Ledger!Destroy
    BY <1>1, <1>3, <1>5, <1>9, <2>2, <2>3, <2>6 DEF Ledger!Destroy
  <2> QED
    BY <2>7 DEF Ledger!Next
<1>10. CASE request.op = "rotate" /\ Unseals /\ store = Rotate(sealed.store, generated)
  <2>1. /\ sealed.state = "ok" /\ sealed.store \in Store /\ Rotatable(sealed.store)
        /\ LedgerVersion = sealed.store.current_version
        /\ LedgerWindow = WindowOf(sealed.store)
    BY <1>2, <1>10, LedgerOfSealed DEF Unseals, MemoryWellFormed, Rotatable, TypeOK
  <2>2. lost' = lost
    BY <1>1, <1>2, <1>10 DEF TypeOK
  <2> QED
    BY <1>6, <1>10, <2>1, <2>2
<1> QED
  BY <1>1, <1>2, <1>8, <1>9, <1>10 DEF MemoryFollowsSealed
\* While the store is sealed, the current key is the newest of the ledger, and
\* showing it publishes that.
LEMMA PublishRefines ==
  ASSUME IInv, StoreIsSealed, sealed' = sealed, lost' = lost,
         published' = published \cup {Current(store)}
  PROVE  Ledger!Publish
<1>1. TypeOK /\ MemoryWellFormed /\ MemoryFollowsSealed
  BY DEF IInv
<1>2. sealed.state = "ok" /\ sealed.store = store /\ store \in Store /\ WellFormed(store)
  BY <1>1 DEF MemoryFollowsSealed, SealedBlob, MemoryWellFormed, StoreIsSealed, TypeOK
<1>3. /\ LedgerVersion = store.current_version /\ LedgerWindow = WindowOf(store)
      /\ DOMAIN LedgerWindow = VersionsOf(store)
  BY <1>1, <1>2, LedgerOfSealed
<1>4. /\ store.current_version \in VersionsOf(store)
      /\ Current(store) = [version |-> store.current_version,
                           public_key |-> WindowOf(store)[store.current_version]]
  BY <1>2, WindowCurrent
<1>5. LedgerVersion' = LedgerVersion /\ LedgerWindow' = LedgerWindow
  BY DEF LedgerVersion, LedgerWindow
<1> QED
  BY <1>3, <1>4, <1>5 DEF Ledger!Publish

\* Every step of the runtime is a step of the ledger, or leaves it alone.
LEMMA StepRefines ==
  ASSUME IInv, IInv', [Reacts]_vars
  PROVE  Ledger!Next \/ UNCHANGED Ledger!ledgerVars
<1> USE DEF volatile, disk, platform, history
<1>1. TypeOK /\ TypeOK' /\ MemoryWellFormed /\ AttestNamesCurrent
  BY DEF IInv
<1>2. ASSUME UNCHANGED <<sealed, published, lost>> PROVE UNCHANGED Ledger!ledgerVars
  BY <1>2 DEF Ledger!ledgerVars, LedgerVersion, LedgerWindow
<1>3. CASE SendReady
  BY <1>3, PublishRefines DEF SendReady, StoreIsSealed, Ledger!Next
<1>4. CASE Announce
  <2>1. AttestedKey = Current(store)
    BY <1>1, <1>4 DEF Announce, AttestNamesCurrent
  <2> QED
    BY <1>4, <2>1, PublishRefines DEF Announce, StoreIsSealed, Ledger!Next
<1>5. CASE Reply
  <2>1. CASE request.op \in {"attest", "rotate"}
    <3>1. AttestedKey = Current(store)
      BY <1>1, <1>5, <2>1 DEF Reply, AttestNamesCurrent
    <3> QED
      BY <1>5, <2>1, <3>1, PublishRefines DEF Reply, StoreIsSealed, Ledger!Next
  <2>2. CASE request.op \notin {"attest", "rotate"}
    BY <1>2, <1>5, <2>2 DEF Reply
  <2> QED
    BY <2>1, <2>2
<1>6. CASE WriteSealed
  BY <1>6, WriteSealedRefines
<1>7. ASSUME Tear, published' = published
      PROVE  Ledger!Next \/ UNCHANGED Ledger!ledgerVars
  <2>1. \/ sealed' = sealed /\ lost' = lost
        \/ /\ sealed'.state = "torn" /\ lost' = (lost \/ sealed.state = "ok")
    BY <1>1, <1>7, TearEffect
  <2>2. CASE sealed' = sealed /\ lost' = lost
    BY <1>2, <1>7, <2>2
  <2>3. CASE /\ sealed'.state = "torn" /\ lost' = (lost \/ sealed.state = "ok")
             /\ sealed.state # "ok"
    <3>1. LedgerVersion' = LedgerVersion /\ LedgerWindow' = LedgerWindow /\ lost' = lost
      BY <1>1, <2>3 DEF LedgerVersion, LedgerWindow, TypeOK
    <3> QED
      BY <1>7, <3>1 DEF Ledger!ledgerVars
  <2>4. CASE /\ sealed'.state = "torn" /\ lost' = (lost \/ sealed.state = "ok")
             /\ sealed.state = "ok"
    <3>1. LedgerVersion = sealed.store.current_version /\ sealed.store \in Store
          /\ WellFormed(sealed.store) /\ sealed.store.current_version \in Nat
      BY <1>1, <2>4, LedgerOfSealed DEF TypeOK, MemoryWellFormed, Store
    <3>2. LedgerVersion > 0
      BY <3>1, WellFormedBounded
    <3>3. LedgerVersion' = 0 /\ LedgerWindow' = Ledger!NoKeys /\ lost' = TRUE
      BY <2>4 DEF LedgerVersion, LedgerWindow, Ledger!NoKeys
    <3>4. Ledger!Destroy
      BY <1>7, <3>2, <3>3 DEF Ledger!Destroy
    <3> QED
      BY <3>4 DEF Ledger!Next
  <2> QED
    BY <2>1, <2>2, <2>3, <2>4
<1>8. CASE Crash \/ WriteFails
  BY <1>2, <1>7, <1>8 DEF Crash, WriteFails
<1>9. ASSUME NEW frame \in Sendable, Receive(frame)
      PROVE  UNCHANGED Ledger!ledgerVars
  BY <1>2, <1>9 DEF Receive
<1>10. CASE Boot \/ BootUnsealed \/ BootNewStore \/ WriteKeyring \/ InitQuote \/ GetQuote
            \/ WriteCache \/ RefreshKeyring \/ QuoteFails \/ Tick \/ ClockSetBack
            \/ UNCHANGED vars
  BY <1>2, <1>10 DEF Boot, BootUnsealed, BootNewStore, WriteKeyring, InitQuote, GetQuote,
     WriteCache, RefreshKeyring, QuoteFails, Tick, ClockSetBack, vars
<1> QED
  BY <1>3, <1>4, <1>5, <1>6, <1>8, <1>9, <1>10 DEF Reacts, Step, Fault

\* The runtime and its files implement the ledger of key versions.
THEOREM RuntimeImplementsLedger == Spec => ImplementsLedger
<1>1. Init => Ledger!Init
  BY DEF Init, Ledger!Init, LedgerVersion, LedgerWindow, Ledger!NoKeys
<1>2. IInv /\ IInv' /\ [Reacts]_vars => [Ledger!Next]_(Ledger!ledgerVars)
  BY StepRefines
<1> QED
  BY <1>1, <1>2, Invariance, AlwaysReacts, PTL DEF Spec, ImplementsLedger, Ledger!Spec
=============================================================================
