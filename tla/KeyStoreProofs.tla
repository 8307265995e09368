--------------------------- MODULE KeyStoreProofs ---------------------------
(***************************************************************************)
(* Lemmas about the operators of KeyStore, for every retention.            *)
(***************************************************************************)
EXTENDS KeyStore, TLAPS

\* The keys of the store before a rotation: none, or the newest versions.
Rotatable(s) == s = EmptyStore \/ WellFormed(s)

\* rotate gives a store of the right type.
LEMMA RotateType ==
  ASSUME NEW s \in Store, NEW k \in Nat
  PROVE  Rotate(s, k) \in Store
<1> DEFINE entry == [version |-> s.current_version + 1, public_key |-> k]
           keys == Append(s.keys, entry)
<1>1. s.current_version + 1 \in Nat /\ s.keys \in Seq(StoredKey)
  BY DEF Store
<1>2. entry \in StoredKey
  BY <1>1 DEF StoredKey
<1>3. keys \in Seq(StoredKey) /\ Len(keys) = Len(s.keys) + 1
  BY <1>1, <1>2
<1>4. KeepNewest(keys) \in Seq(StoredKey)
  <2>1. keys # <<>>
    BY <1>1, <1>3
  <2> QED
    BY <1>3, <2>1 DEF KeepNewest
<1> QED
  BY <1>1, <1>4 DEF Rotate, Store

\* How many keys a rotation drops.
Dropped(s) == IF Len(s.keys) = RETENTION THEN 1 ELSE 0

\* The keys rotate leaves: those it had, less the oldest when there were
\* RETENTION already, and the new one.
LEMMA RotateKeys ==
  ASSUME NEW s \in Store, NEW k \in Nat, Len(s.keys) <= RETENTION
  PROVE  /\ Rotate(s, k).current_version = s.current_version + 1
         /\ Len(Rotate(s, k).keys) = Len(s.keys) + 1 - Dropped(s)
         /\ \A i \in 1..(Len(s.keys) - Dropped(s)) :
              Rotate(s, k).keys[i] = s.keys[i + Dropped(s)]
         /\ Rotate(s, k).keys[Len(s.keys) + 1 - Dropped(s)] =
              [version |-> s.current_version + 1, public_key |-> k]
<1> DEFINE entry == [version |-> s.current_version + 1, public_key |-> k]
           keys == Append(s.keys, entry)
           t == Rotate(s, k)
<1>1. s.current_version \in Nat /\ s.keys \in Seq(StoredKey) /\ RETENTION \in Nat
      /\ Len(s.keys) \in Nat
  BY RetentionAssumption DEF Store
<1>2. /\ t.keys = KeepNewest(keys)
      /\ t.current_version = s.current_version + 1
  BY DEF Rotate
<1>3. entry \in StoredKey
  BY <1>1 DEF StoredKey
<1>4. /\ keys \in Seq(StoredKey)
      /\ Len(keys) = Len(s.keys) + 1
      /\ \A i \in 1..Len(s.keys) : keys[i] = s.keys[i]
      /\ keys[Len(s.keys) + 1] = entry
  BY <1>1, <1>3
<1>5. CASE Len(s.keys) = RETENTION
  <2>1. t.keys = Tail(keys)
    BY <1>1, <1>2, <1>4, <1>5 DEF KeepNewest
  <2>2. Len(t.keys) = Len(s.keys) /\ \A i \in 1..Len(s.keys) : t.keys[i] = keys[i + 1]
    BY <1>1, <1>4, <2>1
  <2>3. Dropped(s) = 1 /\ Len(s.keys) >= 1
    BY <1>5, RetentionAssumption DEF Dropped
  <2>4. t.keys[Len(s.keys)] = entry
    BY <1>1, <1>4, <2>2, <2>3
  <2>5. \A i \in 1..(Len(s.keys) - 1) : t.keys[i] = s.keys[i + 1]
    <3> TAKE i \in 1..(Len(s.keys) - 1)
    <3>1. i \in 1..Len(s.keys) /\ i + 1 \in 1..Len(s.keys)
      BY <1>1
    <3> QED
      BY <1>4, <2>2, <3>1
  <2> HIDE DEF t, keys, entry
  <2>6. /\ t.current_version = s.current_version + 1
        /\ Len(t.keys) = Len(s.keys) + 1 - Dropped(s)
        /\ \A i \in 1..(Len(s.keys) - Dropped(s)) : t.keys[i] = s.keys[i + Dropped(s)]
        /\ t.keys[Len(s.keys) + 1 - Dropped(s)] = entry
    BY <1>1, <1>2, <2>2, <2>3, <2>4, <2>5
  <2> QED
    BY <2>6 DEF t, entry
<1>6. CASE Len(s.keys) < RETENTION
  <2>1. t.keys = keys
    BY <1>1, <1>2, <1>4, <1>6 DEF KeepNewest
  <2>2. Dropped(s) = 0
    BY <1>1, <1>6 DEF Dropped
  <2> HIDE DEF t, keys, entry
  <2>3. /\ t.current_version = s.current_version + 1
        /\ Len(t.keys) = Len(s.keys) + 1 - Dropped(s)
        /\ \A i \in 1..(Len(s.keys) - Dropped(s)) : t.keys[i] = s.keys[i + Dropped(s)]
        /\ t.keys[Len(s.keys) + 1 - Dropped(s)] = entry
    BY <1>1, <1>2, <1>4, <2>1, <2>2
  <2> QED
    BY <2>3 DEF t, entry
<1>7. Len(s.keys) = RETENTION \/ Len(s.keys) < RETENTION
  BY <1>1
<1> QED
  BY <1>5, <1>6, <1>7

\* A rotation of an empty or well-formed store gives a well-formed one.
LEMMA RotateWellFormed ==
  ASSUME NEW s \in Store, NEW k \in Nat, Rotatable(s)
  PROVE  /\ WellFormed(Rotate(s, k))
         /\ Rotate(s, k).current_version = s.current_version + 1
<1> DEFINE t == Rotate(s, k)
<1>1. s.current_version \in Nat /\ Len(s.keys) \in Nat /\ RETENTION \in Nat
      /\ RETENTION >= 2
  BY RetentionAssumption DEF Store
<1>2. /\ Len(s.keys) = IF s.current_version < RETENTION
                         THEN s.current_version ELSE RETENTION
      /\ \A i \in 1..Len(s.keys) :
           s.keys[i].version = (s.current_version - Len(s.keys)) + i
  BY <1>1 DEF Rotatable, WellFormed, EmptyStore
<1>3. Len(s.keys) <= RETENTION
  BY <1>1, <1>2
<1>4. /\ t.current_version = s.current_version + 1
      /\ Len(t.keys) = Len(s.keys) + 1 - Dropped(s)
      /\ \A i \in 1..(Len(s.keys) - Dropped(s)) : t.keys[i] = s.keys[i + Dropped(s)]
      /\ t.keys[Len(s.keys) + 1 - Dropped(s)] =
           [version |-> s.current_version + 1, public_key |-> k]
  BY <1>3, RotateKeys
<1>5. Dropped(s) \in {0, 1} /\ (Dropped(s) = 1 <=> Len(s.keys) = RETENTION)
  BY DEF Dropped
<1> HIDE DEF t
<1>6. \A i \in 1..Len(t.keys) :
        t.keys[i].version = (t.current_version - Len(t.keys)) + i
  <2> TAKE i \in 1..Len(t.keys)
  <2>1. CASE i = Len(t.keys)
    BY <1>1, <1>4, <1>5, <2>1
  <2>2. CASE i # Len(t.keys)
    <3>1. i \in 1..(Len(s.keys) - Dropped(s)) /\ i + Dropped(s) \in 1..Len(s.keys)
      BY <1>1, <1>4, <1>5, <2>2
    <3>2. t.keys[i].version = (s.current_version - Len(s.keys)) + (i + Dropped(s))
      BY <1>2, <1>4, <3>1
    <3>3. i \in Nat /\ Dropped(s) \in Nat
      BY <1>1, <1>5, <3>1
    <3>4. t.current_version = s.current_version + 1
          /\ Len(t.keys) = Len(s.keys) + 1 - Dropped(s)
      BY <1>4
    <3>5. t.current_version - Len(t.keys) = (s.current_version - Len(s.keys)) + Dropped(s)
      <4>1. ASSUME NEW c \in Nat, NEW n \in Nat, NEW d \in Nat
            PROVE  (c + 1) - (n + 1 - d) = (c - n) + d
        OBVIOUS
      <4>2. (s.current_version + 1) - (Len(s.keys) + 1 - Dropped(s))
              = (s.current_version - Len(s.keys)) + Dropped(s)
        BY <1>1, <3>3, <4>1
      <4> QED
        BY <3>4, <4>2
    <3> QED
      BY <1>1, <3>2, <3>3, <3>5
  <2> QED
    BY <2>1, <2>2
<1>7. Len(t.keys) = IF t.current_version < RETENTION
                      THEN t.current_version ELSE RETENTION
  BY <1>1, <1>2, <1>4, <1>5
<1>8. WellFormed(t)
  BY <1>1, <1>4, <1>6, <1>7 DEF WellFormed
<1> QED
  BY <1>4, <1>8 DEF t

\* In a well-formed store, a version is held exactly when it is one of the
\* last ones, and find returns the key at its place.
LEMMA FindInWellFormed ==
  ASSUME NEW s \in Store, WellFormed(s), NEW i \in 1..Len(s.keys)
  PROVE  /\ Holds(s, s.keys[i].version)
         /\ Find(s, s.keys[i].version) = s.keys[i]
<1> DEFINE v == s.keys[i].version
<1>1. s.current_version \in Nat /\ Len(s.keys) \in Nat /\ DOMAIN s.keys = 1..Len(s.keys)
  BY DEF Store
<1>2. Positions(s, v) = {i}
  <2>1. \A j \in 1..Len(s.keys) : s.keys[j].version = (s.current_version - Len(s.keys)) + j
    BY DEF WellFormed
  <2>2. \A j \in 1..Len(s.keys) : s.keys[j].version = v => j = i
    BY <1>1, <2>1
  <2> QED
    BY <1>1, <2>2 DEF Positions
<1>3. (CHOOSE j \in Positions(s, v) : \A l \in Positions(s, v) : j <= l) = i
  BY <1>1, <1>2
<1> QED
  BY <1>2, <1>3 DEF Holds, Find

\* The current key of a well-formed store is its last one.
LEMMA CurrentInWellFormed ==
  ASSUME NEW s \in Store, WellFormed(s)
  PROVE  /\ Current(s) \in StoredKey
         /\ Current(s) \in KeysOf(s)
         /\ Current(s) = s.keys[Len(s.keys)]
         /\ Current(s).version = s.current_version
<1>1. s.current_version \in Nat /\ Len(s.keys) \in Nat /\ s.keys \in Seq(StoredKey)
      /\ DOMAIN s.keys = 1..Len(s.keys)
  BY DEF Store
<1>2. Len(s.keys) \in 1..Len(s.keys)
  BY <1>1, RetentionAssumption DEF WellFormed
<1>3. s.keys[Len(s.keys)].version = s.current_version
  <2>1. s.keys[Len(s.keys)].version = (s.current_version - Len(s.keys)) + Len(s.keys)
    BY <1>2 DEF WellFormed
  <2> QED
    BY <1>1, <2>1
<1>4. Current(s) = s.keys[Len(s.keys)]
  BY <1>2, <1>3, FindInWellFormed DEF Current
<1> QED
  BY <1>1, <1>2, <1>3, <1>4 DEF KeysOf

\* The keys of a well-formed store are of the last RETENTION versions, one
\* for each.
LEMMA KeysOfWellFormed ==
  ASSUME NEW s \in Store, WellFormed(s), NEW p \in KeysOf(s)
  PROVE  /\ p \in StoredKey
         /\ p.version <= s.current_version
         /\ s.current_version < p.version + RETENTION
         /\ Holds(s, p.version)
         /\ Find(s, p.version) = p
         /\ \A q \in KeysOf(s) : q.version = p.version => q = p
<1>1. s.current_version \in Nat /\ Len(s.keys) \in Nat /\ s.keys \in Seq(StoredKey)
      /\ DOMAIN s.keys = 1..Len(s.keys) /\ RETENTION \in Nat
  BY RetentionAssumption DEF Store
<1>2. PICK i \in 1..Len(s.keys) : p = s.keys[i]
  BY <1>1 DEF KeysOf
<1>3. p.version = (s.current_version - Len(s.keys)) + i /\ Len(s.keys) <= RETENTION
  BY <1>1, <1>2 DEF WellFormed
<1>4. Holds(s, p.version) /\ Find(s, p.version) = p
  BY <1>2, FindInWellFormed
<1>5. \A q \in KeysOf(s) : q.version = p.version => q = p
  <2> TAKE q \in KeysOf(s)
  <2>1. PICK j \in 1..Len(s.keys) : q = s.keys[j]
    BY <1>1 DEF KeysOf
  <2>2. Find(s, q.version) = q
    BY <2>1, FindInWellFormed
  <2> QED
    BY <1>4, <2>2
<1> QED
  BY <1>1, <1>2, <1>3, <1>4, <1>5

\* A rotation keeps every key but the one that reaches the age of RETENTION,
\* and adds one of the next version.
LEMMA RotateKeepsKeys ==
  ASSUME NEW s \in Store, NEW k \in Nat, Rotatable(s)
  PROVE  /\ \A p \in KeysOf(s) : \/ p \in KeysOf(Rotate(s, k))
                                 \/ p.version + RETENTION <= s.current_version + 1
         /\ \A p \in KeysOf(Rotate(s, k)) :
              \/ p \in KeysOf(s)
              \/ p = [version |-> s.current_version + 1, public_key |-> k]
         /\ [version |-> s.current_version + 1, public_key |-> k]
              = Current(Rotate(s, k))
<1> DEFINE t == Rotate(s, k)
           new == [version |-> s.current_version + 1, public_key |-> k]
           d == Dropped(s)
           n == Len(s.keys)
<1>1. s.current_version \in Nat /\ n \in Nat /\ RETENTION \in Nat /\ RETENTION >= 2
      /\ DOMAIN s.keys = 1..n
  BY RetentionAssumption DEF Store
<1>2. /\ n = IF s.current_version < RETENTION THEN s.current_version ELSE RETENTION
      /\ \A i \in 1..n : s.keys[i].version = (s.current_version - n) + i
  BY <1>1 DEF Rotatable, WellFormed, EmptyStore
<1>3. n <= RETENTION /\ d \in {0, 1} /\ (d = 1 <=> n = RETENTION)
  BY <1>1, <1>2 DEF Dropped
<1>4. /\ Len(t.keys) = n + 1 - d
      /\ \A i \in 1..(n - d) : t.keys[i] = s.keys[i + d]
      /\ t.keys[n + 1 - d] = new
  BY <1>3, RotateKeys
<1>5. t \in Store /\ WellFormed(t)
  BY RotateType, RotateWellFormed
<1>6. DOMAIN t.keys = 1..(n + 1 - d)
  BY <1>4, <1>5 DEF Store
<1>7. Current(t) = new
  BY <1>4, <1>5, CurrentInWellFormed
<1> HIDE DEF t, new, d, n
<1>8. \A p \in KeysOf(s) : p \in KeysOf(t) \/ p.version + RETENTION <= s.current_version + 1
  <2> TAKE p \in KeysOf(s)
  <2>1. PICK i \in 1..n : p = s.keys[i]
    BY <1>1 DEF KeysOf
  <2>2. CASE i > d
    <3>1. i - d \in 1..(n - d) /\ (i - d) + d = i /\ i - d \in 1..(n + 1 - d)
      BY <1>1, <1>3, <2>2
    <3>2. p = t.keys[i - d]
      BY <1>4, <2>1, <3>1
    <3> QED
      BY <1>6, <3>1, <3>2 DEF KeysOf
  <2>3. CASE i <= d
    <3>1. i = 1 /\ n = RETENTION
      BY <1>1, <1>3, <2>3
    <3>2. p.version = (s.current_version - n) + 1
      BY <1>2, <2>1, <3>1
    <3> QED
      BY <1>1, <3>1, <3>2
  <2> QED
    BY <1>1, <1>3, <2>2, <2>3
<1>9. \A p \in KeysOf(t) : p \in KeysOf(s) \/ p = new
  <2> TAKE p \in KeysOf(t)
  <2>1. PICK i \in 1..(n + 1 - d) : p = t.keys[i]
    BY <1>6 DEF KeysOf
  <2>2. CASE i = n + 1 - d
    BY <1>4, <2>1, <2>2
  <2>3. CASE i # n + 1 - d
    <3>1. i \in 1..(n - d) /\ i + d \in 1..n
      BY <1>1, <1>3, <2>1, <2>3
    <3> QED
      BY <1>1, <1>4, <2>1, <3>1 DEF KeysOf
  <2> QED
    BY <2>2, <2>3
<1> QED
  BY <1>7, <1>8, <1>9 DEF t, new

\* What a well-formed store answers to a ciphertext that is intact: while the
\* key is one of the last RETENTION it opens it, later it has expired.
LEMMA DecryptOutcome ==
  ASSUME NEW s \in Store, WellFormed(s), NEW p \in StoredKey,
         p \in KeysOf(s) \/ p.version + RETENTION <= s.current_version
  PROVE  Decrypt(s, p.version, p.public_key, TRUE)
           = IF s.current_version < p.version + RETENTION THEN "ok" ELSE "key_expired"
<1>1. s.current_version \in Nat /\ RETENTION \in Nat /\ RETENTION >= 2 /\ p.version \in Nat
  BY RetentionAssumption DEF Store, StoredKey
<1>2. CASE p \in KeysOf(s)
  <2>1. /\ Holds(s, p.version)
        /\ Find(s, p.version) = p
        /\ s.current_version < p.version + RETENTION
    BY <1>2, KeysOfWellFormed
  <2> QED
    BY <2>1 DEF Decrypt
<1>3. CASE p.version + RETENTION <= s.current_version
  <2>1. ~Holds(s, p.version)
    <3> SUFFICES ASSUME Holds(s, p.version) PROVE FALSE
      OBVIOUS
    <3>1. PICK i \in DOMAIN s.keys : s.keys[i].version = p.version
      BY DEF Holds, Positions
    <3>2. s.keys[i] \in KeysOf(s)
      BY DEF KeysOf
    <3>3. s.current_version < s.keys[i].version + RETENTION
      BY <3>2, KeysOfWellFormed
    <3> QED
      BY <1>1, <1>3, <3>1, <3>3
  <2>2. SaturatingSub(s.current_version, p.version) >= 2
    BY <1>1, <1>3 DEF SaturatingSub
  <2> QED
    BY <1>1, <1>3, <2>1, <2>2 DEF Decrypt, LookupError
<1> QED
  BY <1>2, <1>3
=============================================================================
