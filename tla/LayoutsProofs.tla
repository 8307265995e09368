---------------------------- MODULE LayoutsProofs ----------------------------
(***************************************************************************)
(* The readers of the byte layouts neither index past the end of damaged   *)
(* bytes, nor lose or make up what was written, for every number of byte   *)
(* values, keys of every length and any number of damages.                 *)
(***************************************************************************)
EXTENDS Layouts, NaturalsInduction, WellFoundedInduction, SequenceTheorems, TLAPS

(* Induction over the natural numbers, for a set of them. *)
LEMMA SetInduction ==
  ASSUME NEW S, 0 \in S, \A n \in Nat : n \in S => n + 1 \in S
  PROVE  Nat \subseteq S
<1>1. SUFFICES ASSUME Nat \ S # {}
               PROVE  FALSE
  OBVIOUS
<1>2. PICK m \in Nat \ S : \A n \in Nat \ S : ~ (<<n, m>> \in OpToRel(<, Nat))
  <2>1. IsWellFoundedOn(OpToRel(<, Nat), Nat) /\ Nat \ S \subseteq Nat
    BY NatLessThanWellFounded, Zenon
  <2>2. QED
    BY ONLY <1>1, <2>1, WFMin, Zenon
<1>3. \A n \in Nat \ S : ~(n < m)
  BY <1>2 DEF OpToRel
<1>4. m - 1 \in Nat /\ m - 1 < m /\ (m - 1) + 1 = m
  OBVIOUS
<1>5. QED
  BY <1>3, <1>4

(* FlattenSeq and the loop of decode are recursive functions: each exists. *)
LEMMA FlattenExists ==
  ASSUME NEW s, NEW n \in Nat
  PROVE  \E f : f = [i \in 1..n |-> IF i = 1 THEN s[i] ELSE f[i - 1] \o s[i]]
<1> DEFINE Defined == {m \in Nat : \E f : f = [i \in 1..m |-> IF i = 1 THEN s[i] ELSE f[i - 1] \o s[i]]}
<1>1. 0 \in Defined
  <2>1. \E f : f = [i \in 1..0 |-> IF i = 1 THEN s[i] ELSE f[i - 1] \o s[i]]
    <3> DEFINE g == [i \in 1..0 |-> s[i]]
    <3>1. g = [i \in 1..0 |-> IF i = 1 THEN s[i] ELSE g[i - 1] \o s[i]]
      OBVIOUS
    <3>2. QED
      BY <3>1
  <2>2. QED
    BY <2>1
<1>2. ASSUME NEW m \in Nat, m \in Defined
      PROVE  m + 1 \in Defined
  <2>1. PICK f : f = [i \in 1..m |-> IF i = 1 THEN s[i] ELSE f[i - 1] \o s[i]]
    BY <1>2
  <2> DEFINE g == [i \in 1..m + 1 |-> IF i <= m THEN f[i] ELSE IF i = 1 THEN s[i] ELSE f[m] \o s[i]]
  <2>2. ASSUME NEW i \in 1..m + 1
        PROVE  g[i] = IF i = 1 THEN s[i] ELSE g[i - 1] \o s[i]
    <3>1. CASE i <= m
      <4>1. i \in 1..m /\ (i # 1 => i - 1 \in 1..m)
        BY <3>1
      <4>2. f[i] = IF i = 1 THEN s[i] ELSE f[i - 1] \o s[i]
        BY <2>1, <4>1
      <4>3. g[i] = f[i] /\ (i # 1 => g[i - 1] = f[i - 1])
        BY <4>1
      <4>4. QED
        BY <4>2, <4>3 DEF g
    <3>2. CASE i = m + 1
      BY <3>2
    <3>3. QED
      BY <3>1, <3>2
  <2>3. g = [i \in 1..m + 1 |-> IF i = 1 THEN s[i] ELSE g[i - 1] \o s[i]]
    BY <2>2
  <2>4. m + 1 \in Nat
    OBVIOUS
  <2>5. QED
    <3> HIDE DEF g
    <3>1. QED
      BY <2>3, <2>4
<1>3. Nat \subseteq Defined
  <2> HIDE DEF Defined
  <2>1. QED
    BY <1>1, <1>2, SetInduction
<1>4. QED
  BY <1>3

(* Likewise the turns of decode, as many as the count of keys says. *)
LEMMA TurnsExist ==
  ASSUME NEW b, NEW n \in Nat
  PROVE  \E t : t = [i \in 0..n |-> IF i = 0 THEN NoTurn ELSE Turn(b, t[i - 1])]
<1> DEFINE Defined == {m \in Nat : \E t : t = [i \in 0..m |-> IF i = 0 THEN NoTurn ELSE Turn(b, t[i - 1])]}
<1>1. 0 \in Defined
  <2> DEFINE u == [i \in 0..0 |-> NoTurn]
  <2>1. u = [i \in 0..0 |-> IF i = 0 THEN NoTurn ELSE Turn(b, u[i - 1])]
    OBVIOUS
  <2>2. QED
    BY <2>1
<1>2. ASSUME NEW m \in Nat, m \in Defined
      PROVE  m + 1 \in Defined
  <2>1. PICK t : t = [i \in 0..m |-> IF i = 0 THEN NoTurn ELSE Turn(b, t[i - 1])]
    BY <1>2
  <2> DEFINE u == [i \in 0..m + 1 |-> IF i <= m THEN t[i] ELSE Turn(b, t[m])]
  <2>2. ASSUME NEW i \in 0..m + 1
        PROVE  u[i] = IF i = 0 THEN NoTurn ELSE Turn(b, u[i - 1])
    <3>1. CASE i <= m
      BY <2>1, <3>1
    <3>2. CASE i = m + 1
      BY <3>2
    <3>3. QED
      BY <3>1, <3>2
  <2>3. u = [i \in 0..m + 1 |-> IF i = 0 THEN NoTurn ELSE Turn(b, u[i - 1])]
    BY <2>2
  <2>4. m + 1 \in Nat
    OBVIOUS
  <2>5. QED
    <3> HIDE DEF u
    <3>1. QED
      BY <2>3, <2>4
<1>3. Nat \subseteq Defined
  <2> HIDE DEF Defined
  <2>1. QED
    BY <1>1, <1>2, SetInduction
<1>4. QED
  BY <1>3

(* decode returns what its last turn leaves. *)
LEMMA DecodeByTurns ==
  ASSUME NEW b \in Seq(Bytes), Len(b) >= 2
  PROVE  \E t : /\ t = [i \in 0..b[2] |-> IF i = 0 THEN NoTurn ELSE Turn(b, t[i - 1])]
                /\ Decode(b) = Returned(b, t[b[2]])
<1> DEFINE t == CHOOSE t : t = [i \in 0..b[2] |-> IF i = 0 THEN NoTurn ELSE Turn(b, t[i - 1])]
<1>1. Len(b) \in Nat /\ b[2] \in Nat
  BY BaseAssumption DEF Bytes
<1>2. t = [i \in 0..b[2] |-> IF i = 0 THEN NoTurn ELSE Turn(b, t[i - 1])]
  <2>1. \E u : u = [i \in 0..b[2] |-> IF i = 0 THEN NoTurn ELSE Turn(b, u[i - 1])]
    BY <1>1, TurnsExist
  <2>2. QED
    BY <2>1, Zenon
<1>3. Decode(b) = Returned(b, t[b[2]])
  <2>1. HeaderFits(b) /\ Fits(b, 2)
    BY <1>1 DEF HeaderFits, Fits
  <2>2. QED
    BY <2>1 DEF Decode
<1>4. QED
  <2> HIDE DEF t
  <2>1. QED
    BY <1>2, <1>3

(* FlattenSeq is the last of its steps. *)
LEMMA FlattenBySteps ==
  ASSUME NEW s, Len(s) \in Nat \ {0}
  PROVE  \E f : /\ f = [i \in 1..Len(s) |-> IF i = 1 THEN s[i] ELSE f[i - 1] \o s[i]]
                /\ FlattenSeq(s) = f[Len(s)]
<1> DEFINE f == CHOOSE f : f = [i \in 1..Len(s) |-> IF i = 1 THEN s[i] ELSE f[i - 1] \o s[i]]
<1>1. f = [i \in 1..Len(s) |-> IF i = 1 THEN s[i] ELSE f[i - 1] \o s[i]]
  <2>1. \E g : g = [i \in 1..Len(s) |-> IF i = 1 THEN s[i] ELSE g[i - 1] \o s[i]]
    BY FlattenExists
  <2>2. QED
    BY <2>1, Zenon
<1>2. FlattenSeq(s) = f[Len(s)]
  BY DEF FlattenSeq
<1>3. QED
  <2> HIDE DEF f
  <2>1. QED
    BY <1>1, <1>2

(* What FlattenSeq gives is what its steps give, whatever function takes them. *)
LEMMA FlattenIs ==
  ASSUME NEW s, Len(s) \in Nat \ {0}, NEW f,
         f[1] = s[1], \A i \in 2..Len(s) : f[i] = f[i - 1] \o s[i]
  PROVE  FlattenSeq(s) = f[Len(s)]
<1>1. PICK g : /\ g = [i \in 1..Len(s) |-> IF i = 1 THEN s[i] ELSE g[i - 1] \o s[i]]
               /\ FlattenSeq(s) = g[Len(s)]
  BY FlattenBySteps
<1> DEFINE Same == {m \in Nat : m \in 1..Len(s) => g[m] = f[m]}
<1>2. 0 \in Same
  OBVIOUS
<1>3. ASSUME NEW m \in Nat, m \in Same
      PROVE  m + 1 \in Same
  <2>1. CASE m + 1 \in 2..Len(s)
    <3>1. m + 1 \in 1..Len(s) /\ m + 1 # 1 /\ (m + 1) - 1 = m /\ m \in 1..Len(s)
      BY <2>1
    <3>2. g[m + 1] = g[(m + 1) - 1] \o s[m + 1]
      BY ONLY <1>1, <3>1
    <3>3. f[m + 1] = f[(m + 1) - 1] \o s[m + 1]
      BY <2>1
    <3>4. g[m] = f[m]
      BY <1>3, <3>1
    <3>5. g[m + 1] = f[m + 1]
      BY ONLY <3>1, <3>2, <3>3, <3>4
    <3>6. QED
      BY <3>5
  <2>2. CASE m = 0
    BY <1>1, <2>2
  <2>3. QED
    BY <2>1, <2>2
<1>4. Nat \subseteq Same
  <2> HIDE DEF Same
  <2>1. QED
    BY <1>2, <1>3, SetInduction
<1>5. Len(s) \in Same /\ Len(s) \in 1..Len(s)
  BY <1>4
<1>6. QED
  BY <1>1, <1>5

(* No sequences are joined to none. *)
LEMMA FlattenEmpty == FlattenSeq(<<>>) = <<>>
BY DEF FlattenSeq

(* One more sequence at the end is joined to the rest. *)
LEMMA FlattenMore ==
  ASSUME NEW S, NEW s \in Seq(Seq(S)), NEW n \in Nat, Len(s) = n + 1
  PROVE  FlattenSeq(s) = FlattenSeq([i \in 1..n |-> s[i]]) \o s[n + 1]
<1>1. PICK f : /\ f = [i \in 1..Len(s) |-> IF i = 1 THEN s[i] ELSE f[i - 1] \o s[i]]
               /\ FlattenSeq(s) = f[Len(s)]
  <2>1. Len(s) \in Nat \ {0}
    OBVIOUS
  <2>2. QED
    BY <2>1, FlattenBySteps
<1> DEFINE t == [i \in 1..n |-> s[i]]
<1>2. t \in Seq(Seq(S)) /\ Len(t) = n /\ \A i \in 1..n : t[i] = s[i]
  OBVIOUS
<1>3. CASE n = 0
  <2>1. t = <<>> /\ s[1] \in Seq(S)
    BY <1>3
  <2>2. FlattenSeq(s) = s[1]
    BY <1>1, <1>3
  <2>3. <<>> \o s[1] = s[1]
    BY <2>1, ConcatEmptySeq
  <2>4. QED
    BY <1>3, <2>1, <2>2, <2>3, FlattenEmpty
<1>4. CASE n # 0
  <2>1. f[1] = t[1] /\ \A i \in 2..n : f[i] = f[i - 1] \o t[i]
    <3>1. 1 \in 1..Len(s) /\ 1 \in 1..n
      BY <1>4
    <3>2. f[1] = s[1]
      BY ONLY <1>1, <3>1
    <3>3. ASSUME NEW i \in 2..n
          PROVE  f[i] = f[i - 1] \o t[i]
      <4>1. i \in 1..Len(s) /\ i # 1 /\ i \in 1..n
        OBVIOUS
      <4>2. f[i] = f[i - 1] \o s[i]
        BY ONLY <1>1, <4>1
      <4>3. QED
        BY ONLY <1>2, <4>1, <4>2
    <3>4. QED
      BY <1>2, <3>1, <3>2, <3>3
  <2>2. FlattenSeq(t) = f[n]
    <3> HIDE DEF t
    <3>1. QED
      BY <1>2, <1>4, <2>1, FlattenIs
  <2>3. f[n + 1] = f[n] \o s[n + 1]
    <3>1. n + 1 \in 1..Len(s) /\ n + 1 # 1 /\ (n + 1) - 1 = n
      BY <1>4
    <3>2. f[n + 1] = f[(n + 1) - 1] \o s[n + 1]
      BY ONLY <1>1, <3>1
    <3>3. QED
      BY ONLY <3>1, <3>2
  <2>4. QED
    BY <1>1, <2>2, <2>3
<1>5. QED
  BY <1>3, <1>4

-----------------------------------------------------------------------------
(* Arithmetic of the two bytes of a length. *)

(* Quotient and rest of a division. *)
LEMMA DivisionWithRest ==
  ASSUME NEW n \in Nat, NEW d \in Nat \ {0}
  PROVE  n % d \in 0..d - 1 /\ n \div d \in Nat /\ n = d * (n \div d) + (n % d)
OBVIOUS

(* Multiples of d are at least d apart. *)
LEMMA NextMultiple ==
  ASSUME NEW d \in Nat \ {0}, NEW q \in Int, NEW p \in Int, q < p
  PROVE  d * q + d <= d * p
<1>1. PICK e \in Nat : p = q + 1 + e
  OBVIOUS
<1>2. d * (q + 1 + e) = d * q + d + d * e
  BY Z3
<1>3. d * e \in Nat /\ d * q \in Int
  OBVIOUS
<1>4. QED
  BY <1>1, <1>2, <1>3

(* A number has one quotient and one rest. *)
LEMMA RestIsUnique ==
  ASSUME NEW d \in Nat \ {0}, NEW q \in Int, NEW p \in Int,
         NEW r \in 0..d - 1, NEW u \in 0..d - 1, d * q + r = d * p + u
  PROVE  q = p /\ r = u
<1>1. d * q \in Int /\ d * p \in Int
  OBVIOUS
<1>2. ~(q < p) /\ ~(p < q)
  BY <1>1, NextMultiple
<1>3. QED
  BY <1>1, <1>2

(* The rest of a smaller number is that number. *)
LEMMA SmallRest ==
  ASSUME NEW n \in Nat, NEW d \in Nat \ {0}, n < d
  PROVE  n % d = n
OBVIOUS

(* What the assumption on Base gives. *)
LEMMA BaseIsPositive == Base \in Nat \ {0} /\ Base \in Int /\ Base > 2
BY BaseAssumption

(* A length that fits a u16 is written in two bytes and read as it was. *)
LEMMA LengthOfBytes ==
  ASSUME NEW n \in Nat, n < Base * Base
  PROVE  n % Base \in Bytes /\ n \div Base \in Bytes /\ (n % Base) + Base * (n \div Base) = n
<1>1. n % Base \in 0..Base - 1 /\ n \div Base \in Nat /\ n = Base * (n \div Base) + (n % Base)
  BY BaseIsPositive, DivisionWithRest
<1>2. ~(n \div Base >= Base)
  <2>1. SUFFICES ASSUME Base < (n \div Base) \/ n \div Base = Base
                 PROVE  FALSE
    BY <1>1, BaseIsPositive
  <2>2. Base * Base \in Int /\ Base * (n \div Base) \in Int
    BY <1>1, BaseIsPositive
  <2>3. Base * Base <= Base * (n \div Base)
    BY <1>1, <2>1, <2>2, BaseIsPositive, NextMultiple
  <2>4. QED
    BY <1>1, <2>2, <2>3
<1>3. QED
  BY <1>1, <1>2, BaseIsPositive DEF Bytes

(* Two bytes are the length they are read as. *)
LEMMA BytesOfLength ==
  ASSUME NEW x \in Bytes, NEW y \in Bytes
  PROVE  /\ x + Base * y \in Nat /\ x + Base * y < Base * Base
         /\ (x + Base * y) % Base = x /\ (x + Base * y) \div Base = y
<1>1. x \in 0..Base - 1 /\ y \in 0..Base - 1 /\ x \in Nat /\ y \in Nat
  BY BaseIsPositive DEF Bytes
<1>2. Base * y \in Nat /\ Base * Base \in Int
  BY <1>1, BaseIsPositive
<1>3. Base * y + Base <= Base * Base
  BY <1>1, BaseIsPositive, NextMultiple
<1> DEFINE n == x + Base * y
<1>4. n \in Nat /\ n < Base * Base /\ n = Base * y + x
  BY <1>1, <1>2, <1>3, BaseIsPositive
<1>5. n % Base = x /\ n \div Base = y
  <2> HIDE DEF n
  <2>1. n % Base \in 0..Base - 1 /\ n \div Base \in Nat /\ n = Base * (n \div Base) + (n % Base)
    BY <1>4, BaseIsPositive, DivisionWithRest
  <2>2. QED
    BY <1>1, <1>4, <2>1, BaseIsPositive, RestIsUnique
<1>6. QED
  BY <1>4, <1>5

-----------------------------------------------------------------------------
(* A key's encoding, byte by byte. *)

Field == {s \in Seq(Bytes) : Len(s) < Base * Base}
Keys == [version : Bytes, public_key : Field, private_key : Field]

(* The elements of two sequences joined, by their places. *)
LEMMA Joined ==
  ASSUME NEW S, NEW s \in Seq(S), NEW t \in Seq(S)
  PROVE  /\ s \o t \in Seq(S) /\ Len(s \o t) = Len(s) + Len(t)
         /\ \A i \in 1..Len(s) : (s \o t)[i] = s[i]
         /\ \A i \in 1..Len(t) : (s \o t)[Len(s) + i] = t[i]
<1>1. /\ s \o t \in Seq(S) /\ Len(s \o t) = Len(s) + Len(t)
      /\ \A i \in 1..Len(s) + Len(t) :
           (s \o t)[i] = IF i <= Len(s) THEN s[i] ELSE t[i - Len(s)]
  BY ConcatProperties
<1>2. Len(s) \in Nat /\ Len(t) \in Nat
  OBVIOUS
<1>3. ASSUME NEW i \in 1..Len(t)
      PROVE  (s \o t)[Len(s) + i] = t[i]
  <2>1. Len(s) + i \in 1..Len(s) + Len(t) /\ ~(Len(s) + i <= Len(s)) /\ (Len(s) + i) - Len(s) = i
    BY <1>2
  <2>2. QED
    BY <1>1, <2>1
<1>4. QED
  BY <1>1, <1>2, <1>3

(* The two bytes of the length of a field. *)
LEMMA LengthBytes ==
  ASSUME NEW s \in Field
  PROVE  /\ s \in Seq(Bytes) /\ Len(s) \in Nat
         /\ LittleEndian(Len(s)) \in Seq(Bytes) /\ Len(LittleEndian(Len(s))) = 2
         /\ LittleEndian(Len(s))[1] = Len(s) % Base /\ LittleEndian(Len(s))[2] = Len(s) \div Base
<1>1. s \in Seq(Bytes) /\ Len(s) \in Nat /\ Len(s) < Base * Base
  BY DEF Field
<1>2. Len(s) % Base \in Bytes /\ Len(s) \div Base \in Bytes
  BY <1>1, LengthOfBytes
<1>3. QED
  BY <1>1, <1>2 DEF LittleEndian

\* The bytes e hold what encode writes for the key k.
HoldsKey(e, k) ==
  LET pkLen == Len(k.public_key)
      skLen == Len(k.private_key)
  IN  /\ e[1] = k.version
      /\ e[2] = pkLen % Base /\ e[3] = pkLen \div Base
      /\ \A i \in 1..pkLen : e[3 + i] = k.public_key[i]
      /\ e[4 + pkLen] = skLen % Base /\ e[5 + pkLen] = skLen \div Base
      /\ \A i \in 1..skLen : e[5 + pkLen + i] = k.private_key[i]

KeyLength(k) == 5 + Len(k.public_key) + Len(k.private_key)

(* encode writes a version, the public key and the private key, each after its length. *)
LEMMA EncodedKey ==
  ASSUME NEW k \in Keys
  PROVE  /\ EncodeKey(k) \in Seq(Bytes) /\ Len(EncodeKey(k)) = KeyLength(k)
         /\ HoldsKey(EncodeKey(k), k)
<1>1. PICK pk \in Field, sk \in Field, v \in Bytes :
         k.version = v /\ k.public_key = pk /\ k.private_key = sk
  BY DEF Keys
<1>2. PICK p \in Seq(Bytes) : /\ p = LittleEndian(Len(pk)) /\ Len(p) = 2
                              /\ p[1] = Len(pk) % Base /\ p[2] = Len(pk) \div Base
  BY LengthBytes
<1>3. PICK q \in Seq(Bytes) : /\ q = LittleEndian(Len(sk)) /\ Len(q) = 2
                              /\ q[1] = Len(sk) % Base /\ q[2] = Len(sk) \div Base
  BY LengthBytes
<1>4. pk \in Seq(Bytes) /\ sk \in Seq(Bytes) /\ Len(pk) \in Nat /\ Len(sk) \in Nat
  BY LengthBytes
<1>5. PICK a \in Seq(Bytes) : a = <<v>> /\ Len(a) = 1 /\ a[1] = v
  <2>1. <<v>> \in Seq(Bytes) /\ Len(<<v>>) = 1 /\ <<v>>[1] = v
    OBVIOUS
  <2>2. QED
    BY <2>1, Zenon
<1>6. PICK b \in Seq(Bytes) : /\ b = a \o p /\ Len(b) = 3
                              /\ b[1] = v /\ b[2] = p[1] /\ b[3] = p[2]
  <2>1. /\ a \o p \in Seq(Bytes) /\ Len(a \o p) = Len(a) + Len(p)
        /\ \A i \in 1..Len(a) : (a \o p)[i] = a[i]
        /\ \A i \in 1..Len(p) : (a \o p)[Len(a) + i] = p[i]
    BY Joined
  <2>2. /\ Len(a) = 1 /\ Len(p) = 2 /\ a[1] = v
        /\ 1 \in 1..1 /\ 1 \in 1..2 /\ 2 \in 1..2 /\ 1 + 1 = 2 /\ 1 + 2 = 3
    BY <1>2, <1>5
  <2>3. /\ a \o p \in Seq(Bytes) /\ Len(a \o p) = 3
        /\ (a \o p)[1] = v /\ (a \o p)[2] = p[1] /\ (a \o p)[3] = p[2]
    BY ONLY <2>1, <2>2
  <2>4. QED
    BY <2>3, Zenon
<1>7. PICK c \in Seq(Bytes) : /\ c = b \o pk /\ Len(c) = 3 + Len(pk)
                              /\ \A i \in 1..3 : c[i] = b[i]
                              /\ \A i \in 1..Len(pk) : c[3 + i] = pk[i]
  <2>1. /\ b \o pk \in Seq(Bytes) /\ Len(b \o pk) = Len(b) + Len(pk)
        /\ \A i \in 1..Len(b) : (b \o pk)[i] = b[i]
        /\ \A i \in 1..Len(pk) : (b \o pk)[Len(b) + i] = pk[i]
    BY <1>4, Joined
  <2>2. Len(b) = 3
    BY <1>6
  <2>3. QED
    BY <2>1, <2>2, Zenon
<1>8. PICK d \in Seq(Bytes) : /\ d = c \o q /\ Len(d) = 5 + Len(pk)
                              /\ \A i \in 1..3 + Len(pk) : d[i] = c[i]
                              /\ d[4 + Len(pk)] = q[1] /\ d[5 + Len(pk)] = q[2]
  <2>1. /\ c \o q \in Seq(Bytes) /\ Len(c \o q) = Len(c) + Len(q)
        /\ \A i \in 1..Len(c) : (c \o q)[i] = c[i]
        /\ \A i \in 1..Len(q) : (c \o q)[Len(c) + i] = q[i]
    BY Joined
  <2>2. /\ Len(c) + 1 = 4 + Len(pk) /\ Len(c) + 2 = 5 + Len(pk) /\ Len(c) + Len(q) = 5 + Len(pk)
        /\ 1 \in 1..Len(q) /\ 2 \in 1..Len(q)
    BY <1>3, <1>4, <1>7
  <2>3. (c \o q)[4 + Len(pk)] = q[1] /\ (c \o q)[5 + Len(pk)] = q[2]
    BY ONLY <2>1, <2>2
  <2>4. QED
    BY <1>7, <2>1, <2>2, <2>3
<1>9. PICK e \in Seq(Bytes) : /\ e = d \o sk /\ Len(e) = 5 + Len(pk) + Len(sk)
                              /\ \A i \in 1..5 + Len(pk) : e[i] = d[i]
                              /\ \A i \in 1..Len(sk) : e[5 + Len(pk) + i] = sk[i]
  <2>1. /\ d \o sk \in Seq(Bytes) /\ Len(d \o sk) = Len(d) + Len(sk)
        /\ \A i \in 1..Len(d) : (d \o sk)[i] = d[i]
        /\ \A i \in 1..Len(sk) : (d \o sk)[Len(d) + i] = sk[i]
    BY <1>4, Joined
  <2>2. Len(d) = 5 + Len(pk)
    BY <1>8
  <2>3. QED
    BY <2>1, <2>2, Zenon
<1>10. e = EncodeKey(k)
  BY <1>1, <1>2, <1>3, <1>5, <1>6, <1>7, <1>8, <1>9 DEF EncodeKey
<1>11. /\ e[1] = v /\ e[2] = Len(pk) % Base /\ e[3] = Len(pk) \div Base
       /\ e[4 + Len(pk)] = Len(sk) % Base /\ e[5 + Len(pk)] = Len(sk) \div Base
  <2>1. \A i \in 1..3 : i \in 1..5 + Len(pk) /\ i \in 1..3 + Len(pk)
    BY <1>4
  <2>2. 4 + Len(pk) \in 1..5 + Len(pk) /\ 5 + Len(pk) \in 1..5 + Len(pk)
    BY <1>4
  <2>3. QED
    BY ONLY <1>2, <1>3, <1>6, <1>7, <1>8, <1>9, <2>1, <2>2
<1>12. \A i \in 1..Len(pk) : e[3 + i] = pk[i]
  <2>1. \A i \in 1..Len(pk) : 3 + i \in 1..3 + Len(pk) /\ 3 + i \in 1..5 + Len(pk)
    BY <1>4
  <2>2. QED
    BY <1>7, <1>8, <1>9, <2>1
<1>13. QED
  BY <1>1, <1>9, <1>10, <1>11, <1>12 DEF HoldsKey, KeyLength

(* A slice has the bytes of its place. *)
LEMMA SliceBytes ==
  ASSUME NEW S, NEW b \in Seq(S), NEW from \in Nat, NEW n \in Nat, from + n <= Len(b)
  PROVE  /\ Slice(b, from, n) \in Seq(S) /\ Len(Slice(b, from, n)) = n
         /\ \A i \in 1..n : Slice(b, from, n)[i] = b[from + i]
<1>1. \A i \in from + 1..from + n : b[i] \in S
  OBVIOUS
<1>2. /\ SubSeq(b, from + 1, from + n) \in Seq(S)
      /\ Len(SubSeq(b, from + 1, from + n)) =
           IF from + 1 <= from + n THEN (from + n) - (from + 1) + 1 ELSE 0
      /\ \A i \in 1..(from + n) - (from + 1) + 1 :
           SubSeq(b, from + 1, from + n)[i] = b[(from + 1) + i - 1]
  <2>1. from + 1 \in Int /\ from + n \in Int
    OBVIOUS
  <2>2. QED
    BY ONLY <1>1, <2>1, SubSeqProperties
<1>3. /\ (from + n) - (from + 1) + 1 = n
      /\ (IF from + 1 <= from + n THEN (from + n) - (from + 1) + 1 ELSE 0) = n
      /\ \A i \in 1..n : (from + 1) + i - 1 = from + i
  OBVIOUS
<1>4. QED
  BY <1>2, <1>3 DEF Slice

(* The fields of a key in place determine every byte of it. *)
LEMMA HeldIsEncoded ==
  ASSUME NEW k \in Keys, NEW d, HoldsKey(d, k)
  PROVE  \A i \in 1..KeyLength(k) : d[i] = EncodeKey(k)[i]
<1> DEFINE e == EncodeKey(k)
           p == Len(k.public_key)
           q == Len(k.private_key)
<1>1. HoldsKey(e, k)
  BY EncodedKey
<1>2. p \in Nat /\ q \in Nat
  BY LengthBytes DEF Keys
<1>3. /\ d[1] = e[1] /\ d[2] = e[2] /\ d[3] = e[3]
      /\ d[4 + p] = e[4 + p] /\ d[5 + p] = e[5 + p]
      /\ \A i \in 1..p : d[3 + i] = e[3 + i]
      /\ \A i \in 1..q : d[5 + p + i] = e[5 + p + i]
  BY <1>1 DEF HoldsKey
<1> HIDE DEF e, p, q
<1>4. ASSUME NEW i \in 1..5 + p + q
      PROVE  d[i] = e[i]
  <2>1. CASE i \in 4..3 + p
    <3>1. i - 3 \in 1..p /\ 3 + (i - 3) = i
      BY <1>2, <2>1
    <3>2. QED
      BY <1>3, <3>1
  <2>2. CASE i > 5 + p
    <3>1. i - (5 + p) \in 1..q /\ 5 + p + (i - (5 + p)) = i
      BY <1>2, <2>2
    <3>2. QED
      BY <1>3, <3>1
  <2>3. i \in {1, 2, 3, 4 + p, 5 + p} \/ i \in 4..3 + p \/ i > 5 + p
    BY <1>2
  <2>4. QED
    BY <1>3, <2>1, <2>2, <2>3
<1>5. QED
  BY <1>4 DEF e, p, q, KeyLength

(* No slice of a turn of decode goes past the end of the bytes. *)
LEMMA TurnIndexesInside ==
  ASSUME NEW b, NEW off
  PROVE  DecodeKey(b, off).why \in {"ok", "error"}
BY DEF DecodeKey, PublicKeyFits, PrivateKeyFits

(* A key that stands at off is read, and one whose end is missing is refused. *)
LEMMA KeyIsRead ==
  ASSUME NEW k \in Keys, NEW b \in Seq(Bytes), NEW off \in Nat, off <= Len(b),
         \A i \in 1..KeyLength(k) : off + i <= Len(b) => b[off + i] = EncodeKey(k)[i]
  PROVE  /\ off + KeyLength(k) <= Len(b) =>
              DecodeKey(b, off) = [next |-> off + KeyLength(k), why |-> "ok", key |-> <<k>>]
         /\ off + KeyLength(k) > Len(b) => DecodeKey(b, off).why = "error"
<1> DEFINE e == EncodeKey(k)
           pk == k.public_key
           sk == k.private_key
           p == Len(pk)
           q == Len(sk)
           L == Len(b)
<1>1. /\ p \in Nat /\ q \in Nat /\ L \in Nat /\ p < Base * Base /\ q < Base * Base
      /\ pk \in Seq(Bytes) /\ sk \in Seq(Bytes) /\ k.version \in Bytes
      /\ k = [version |-> k.version, public_key |-> pk, private_key |-> sk]
  BY LengthBytes DEF Keys, Field
<1>2. /\ e[1] = k.version /\ e[2] = p % Base /\ e[3] = p \div Base
      /\ \A i \in 1..p : e[3 + i] = pk[i]
      /\ e[4 + p] = q % Base /\ e[5 + p] = q \div Base
      /\ \A i \in 1..q : e[5 + p + i] = sk[i]
  BY EncodedKey DEF HoldsKey
<1>3. \A i \in 1..5 + p + q : off + i <= L => b[off + i] = e[i]
  BY DEF KeyLength
<1>4. KeyLength(k) = 5 + p + q
  BY DEF KeyLength
<1>5. /\ (p % Base) + Base * (p \div Base) = p
      /\ (q % Base) + Base * (q \div Base) = q
  BY <1>1, LengthOfBytes
<1> HIDE DEF e, pk, sk, p, q, L
<1>6. CASE off + 3 > L
  <2>1. ~Fits(b, off + 3)
    BY <1>1, <1>6 DEF Fits, L
  <2>2. DecodeKey(b, off).why = "error"
    BY <2>1 DEF DecodeKey
  <2>3. ~(off + KeyLength(k) <= L)
    BY <1>1, <1>4, <1>6
  <2>4. QED
    BY <2>2, <2>3 DEF L
<1>7. CASE off + 3 <= L
  <2>1. b[off + 1] = k.version /\ b[off + 2] = p % Base /\ b[off + 3] = p \div Base
    <3>1. \A i \in 1..3 : i \in 1..5 + p + q /\ off + i <= L
      BY <1>1, <1>7
    <3>2. QED
      BY ONLY <1>2, <1>3, <3>1
  <2>2. U16(b, off + 1) = p
    <3>1. (off + 1) + 1 = off + 2 /\ (off + 1) + 2 = off + 3
      OBVIOUS
    <3>2. QED
      BY <1>5, <2>1, <3>1 DEF U16
  <2>3. Fits(b, off + 3)
    BY <1>7 DEF Fits, L
  <2>4. CASE off + 5 + p > L
    <3>1. ~PublicKeyFits(b, off + 3, p)
      BY <1>1, <2>4 DEF PublicKeyFits, Fits, L
    <3>2. DecodeKey(b, off).why = "error"
      BY <2>2, <3>1 DEF DecodeKey
    <3>3. ~(off + KeyLength(k) <= L)
      BY <1>1, <1>4, <2>4
    <3>4. QED
      BY <3>2, <3>3 DEF L
  <2>5. CASE off + 5 + p <= L
    <3>1. /\ off + 3 + p + 2 = off + 5 + p /\ off + 3 + p + 2 \in Nat
          /\ ((off + 3 + p + 2) - 2) + 1 = off + (4 + p) /\ ((off + 3 + p + 2) - 2) + 2 = off + (5 + p)
          /\ 4 + p \in 1..5 + p + q /\ 5 + p \in 1..5 + p + q
          /\ off + (4 + p) <= L /\ off + (5 + p) <= L
      <4>1. off \in Nat /\ p \in Nat /\ q \in Nat /\ L \in Nat /\ off + 5 + p <= L
        BY <1>1, <2>5
      <4>2. QED
        BY ONLY <4>1
    <3>2. b[off + (4 + p)] = q % Base /\ b[off + (5 + p)] = q \div Base
      BY ONLY <1>2, <1>3, <3>1
    <3>3. U16(b, (off + 3 + p + 2) - 2) = q
      BY ONLY <1>5, <3>1, <3>2 DEF U16
    <3>4. PublicKeyFits(b, off + 3, p) /\ Fits(b, off + 3 + p + 2)
      BY <2>5, <3>1 DEF PublicKeyFits, Fits, L
    <3>5. CASE off + 5 + p + q > L
      <4>1. ~PrivateKeyFits(b, off + 3 + p + 2, q)
        BY <1>1, <3>5 DEF PrivateKeyFits, Fits, L
      <4>2. DecodeKey(b, off).why = "error"
        BY <2>2, <2>3, <3>3, <3>4, <4>1 DEF DecodeKey
      <4>3. ~(off + KeyLength(k) <= L)
        BY <1>1, <1>4, <3>5
      <4>4. QED
        BY <4>2, <4>3 DEF L
    <3>6. CASE off + 5 + p + q <= L
      <4>1. PrivateKeyFits(b, off + 3 + p + 2, q) /\ Fits(b, off + 3 + p + 2 + q)
        BY <1>1, <3>6 DEF PrivateKeyFits, Fits, L
      <4>2. Slice(b, off + 3, p) = pk
        <5>1. /\ off + 3 \in Nat /\ (off + 3) + p <= L
              /\ \A i \in 1..p : /\ (off + 3) + i = off + (3 + i) /\ off + (3 + i) <= L
                                 /\ 3 + i \in 1..5 + p + q
          <6>1. off \in Nat /\ p \in Nat /\ q \in Nat /\ L \in Nat /\ off + 5 + p + q <= L
            BY <1>1, <3>6
          <6>2. QED
            BY ONLY <6>1
        <5>2. /\ Slice(b, off + 3, p) \in Seq(Bytes) /\ Len(Slice(b, off + 3, p)) = p
              /\ \A i \in 1..p : Slice(b, off + 3, p)[i] = b[(off + 3) + i]
          <6>1. b \in Seq(Bytes) /\ off + 3 \in Nat /\ p \in Nat /\ (off + 3) + p <= Len(b)
            BY <1>1, <5>1 DEF L
          <6>2. QED
            BY ONLY <6>1, SliceBytes
        <5>3. \A i \in 1..p : Slice(b, off + 3, p)[i] = pk[i]
          BY ONLY <1>2, <1>3, <5>1, <5>2
        <5>4. QED
          BY <1>1, <5>2, <5>3, SeqEqual DEF p
      <4>3. Slice(b, off + 3 + p + 2, q) = sk
        <5>1. /\ off + 3 + p + 2 \in Nat /\ (off + 3 + p + 2) + q <= L
              /\ \A i \in 1..q : /\ (off + 3 + p + 2) + i = off + (5 + p + i) /\ off + (5 + p + i) <= L
                                 /\ 5 + p + i \in 1..5 + p + q
          <6>1. off \in Nat /\ p \in Nat /\ q \in Nat /\ L \in Nat /\ off + 5 + p + q <= L
            BY <1>1, <3>6
          <6>2. QED
            BY ONLY <6>1
        <5>2. /\ Slice(b, off + 3 + p + 2, q) \in Seq(Bytes) /\ Len(Slice(b, off + 3 + p + 2, q)) = q
              /\ \A i \in 1..q : Slice(b, off + 3 + p + 2, q)[i] = b[(off + 3 + p + 2) + i]
          <6>1. b \in Seq(Bytes) /\ off + 3 + p + 2 \in Nat /\ q \in Nat /\ (off + 3 + p + 2) + q <= Len(b)
            BY <1>1, <5>1 DEF L
          <6>2. QED
            BY ONLY <6>1, SliceBytes
        <5>3. \A i \in 1..q : Slice(b, off + 3 + p + 2, q)[i] = sk[i]
          BY ONLY <1>2, <1>3, <5>1, <5>2
        <5>4. QED
          BY <1>1, <5>2, <5>3, SeqEqual DEF q
      <4>4. DecodeKey(b, off) =
              [next |-> off + 3 + p + 2 + q, why |-> "ok",
               key |-> <<[version |-> b[off + 1], public_key |-> pk, private_key |-> sk]>>]
        BY ONLY <2>2, <2>3, <3>3, <3>4, <4>1, <4>2, <4>3 DEF DecodeKey
      <4>5. off + 3 + p + 2 + q = off + KeyLength(k) /\ ~(off + KeyLength(k) > L)
        BY <1>1, <1>4, <3>6
      <4>6. QED
        BY <1>1, <2>1, <4>4, <4>5 DEF L
    <3>7. QED
      BY <1>1, <3>5, <3>6
  <2>6. QED
    BY <1>1, <2>4, <2>5
<1>8. QED
  BY <1>1, <1>6, <1>7

(* A length that is read is the one its two bytes encode. *)
LEMMA LengthRead ==
  ASSUME NEW b \in Seq(Bytes), NEW off \in Nat, off + 2 <= Len(b)
  PROVE  /\ U16(b, off) \in Nat /\ U16(b, off) < Base * Base
         /\ U16(b, off) % Base = b[off + 1] /\ U16(b, off) \div Base = b[off + 2]
<1>1. b[off + 1] \in Bytes /\ b[off + 2] \in Bytes
  OBVIOUS
<1>2. QED
  BY <1>1, BytesOfLength DEF U16

(* A key that is read stands where it was read, as encode writes it. *)
LEMMA KeyIsThere ==
  ASSUME NEW b \in Seq(Bytes), NEW off \in Nat, DecodeKey(b, off).why = "ok"
  PROVE  \E k \in Keys :
           /\ DecodeKey(b, off) = [next |-> off + KeyLength(k), why |-> "ok", key |-> <<k>>]
           /\ off + KeyLength(k) <= Len(b)
           /\ \A i \in 1..KeyLength(k) : b[off + i] = EncodeKey(k)[i]
<1> DEFINE p == U16(b, off + 1)
           q == U16(b, (off + 3 + p + 2) - 2)
           L == Len(b)
           pk == Slice(b, off + 3, p)
           sk == Slice(b, off + 3 + p + 2, q)
           k == [version |-> b[off + 1], public_key |-> pk, private_key |-> sk]
<1>1. /\ Fits(b, off + 3) /\ Fits(b, off + 3 + p + 2 + q) /\ Fits(b, off + 3 + p + 2)
      /\ DecodeKey(b, off) = [next |-> off + 3 + p + 2 + q, why |-> "ok", key |-> <<k>>]
  BY DEF DecodeKey
<1>2. L \in Nat /\ off + 3 <= L /\ off + 3 + p + 2 <= L /\ off + 3 + p + 2 + q <= L
  BY <1>1 DEF Fits
<1>3. p \in Nat /\ p < Base * Base /\ p % Base = b[off + 2] /\ p \div Base = b[off + 3]
  <2>1. off + 1 \in Nat /\ (off + 1) + 2 <= Len(b) /\ (off + 1) + 1 = off + 2 /\ (off + 1) + 2 = off + 3
    BY <1>2
  <2>2. /\ p \in Nat /\ p < Base * Base
        /\ p % Base = b[(off + 1) + 1] /\ p \div Base = b[(off + 1) + 2]
    BY <2>1, LengthRead
  <2>3. QED
    BY ONLY <2>1, <2>2
<1> HIDE DEF p
<1>4. q \in Nat /\ q < Base * Base /\ q % Base = b[off + (4 + p)] /\ q \div Base = b[off + (5 + p)]
  <2>1. /\ (off + 3 + p + 2) - 2 \in Nat /\ ((off + 3 + p + 2) - 2) + 2 <= Len(b)
        /\ ((off + 3 + p + 2) - 2) + 1 = off + (4 + p)
        /\ ((off + 3 + p + 2) - 2) + 2 = off + (5 + p)
    BY <1>2, <1>3
  <2>2. /\ q \in Nat /\ q < Base * Base
        /\ q % Base = b[((off + 3 + p + 2) - 2) + 1] /\ q \div Base = b[((off + 3 + p + 2) - 2) + 2]
    BY <2>1, LengthRead
  <2>3. QED
    BY ONLY <2>1, <2>2
<1> HIDE DEF q
<1>5. off + 3 \in Nat /\ off + 3 + p + 2 \in Nat /\ (off + 3) + p <= L
  BY ONLY <1>2, <1>3, <1>4, off \in Nat
<1>6. pk \in Seq(Bytes) /\ Len(pk) = p /\ \A i \in 1..p : pk[i] = b[(off + 3) + i]
  <2>1. b \in Seq(Bytes) /\ off + 3 \in Nat /\ p \in Nat /\ (off + 3) + p <= Len(b)
    BY <1>3, <1>5
  <2>2. QED
    BY ONLY <2>1, SliceBytes
<1>7. sk \in Seq(Bytes) /\ Len(sk) = q /\ \A i \in 1..q : sk[i] = b[(off + 3 + p + 2) + i]
  <2>1. b \in Seq(Bytes) /\ off + 3 + p + 2 \in Nat /\ q \in Nat /\ (off + 3 + p + 2) + q <= Len(b)
    BY <1>2, <1>4, <1>5
  <2>2. QED
    BY ONLY <2>1, SliceBytes
<1>8. b[off + 1] \in Bytes
  BY <1>2
<1> HIDE DEF pk, sk, L
<1>9. /\ k \in Keys /\ KeyLength(k) = 5 + p + q
      /\ k.public_key = pk /\ k.private_key = sk /\ k.version = b[off + 1]
  BY <1>3, <1>4, <1>6, <1>7, <1>8 DEF Keys, Field, KeyLength
<1> HIDE DEF k
<1> DEFINE d == [i \in 1..5 + p + q |-> b[off + i]]
<1>10. HoldsKey(d, k)
  <2>1. /\ 1 \in 1..5 + p + q /\ 2 \in 1..5 + p + q /\ 3 \in 1..5 + p + q
        /\ 4 + p \in 1..5 + p + q /\ 5 + p \in 1..5 + p + q
        /\ \A i \in 1..p : 3 + i \in 1..5 + p + q /\ off + (3 + i) = (off + 3) + i
        /\ \A i \in 1..q : 5 + p + i \in 1..5 + p + q /\ off + (5 + p + i) = (off + 3 + p + 2) + i
    BY ONLY <1>3, <1>4, off \in Nat
  <2>2. \A i \in 1..p : d[3 + i] = pk[i]
    BY ONLY <2>1, <1>6
  <2>3. \A i \in 1..q : d[5 + p + i] = sk[i]
    BY ONLY <2>1, <1>7
  <2>4. /\ d[1] = b[off + 1] /\ d[2] = b[off + 2] /\ d[3] = b[off + 3]
        /\ d[4 + p] = b[off + (4 + p)] /\ d[5 + p] = b[off + (5 + p)]
    BY ONLY <2>1
  <2>5. Len(k.public_key) = p /\ Len(k.private_key) = q
    BY ONLY <1>6, <1>7, <1>9
  <2>6. /\ d[1] = k.version
        /\ d[2] = p % Base /\ d[3] = p \div Base
        /\ d[4 + p] = q % Base /\ d[5 + p] = q \div Base
    BY ONLY <1>3, <1>4, <1>9, <2>4
  <2>7. /\ \A i \in 1..p : d[3 + i] = k.public_key[i]
        /\ \A i \in 1..q : d[5 + p + i] = k.private_key[i]
    BY ONLY <1>9, <2>2, <2>3
  <2> HIDE DEF d
  <2>8. QED
    BY ONLY <2>5, <2>6, <2>7 DEF HoldsKey
<1>11. \A i \in 1..5 + p + q : d[i] = b[off + i]
  OBVIOUS
<1> HIDE DEF d
<1>12. \A i \in 1..KeyLength(k) : b[off + i] = EncodeKey(k)[i]
  <2>1. \A i \in 1..KeyLength(k) : d[i] = EncodeKey(k)[i]
    BY <1>9, <1>10, HeldIsEncoded
  <2>2. QED
    BY <1>9, <1>11, <2>1
<1>13. off + 3 + p + 2 + q = off + KeyLength(k)
  BY <1>3, <1>4, <1>9
<1>14. DecodeKey(b, off) = [next |-> off + KeyLength(k), why |-> "ok", key |-> <<k>>]
  BY ONLY <1>1, <1>13 DEF k, pk, sk
<1>15. off + KeyLength(k) <= Len(b)
  BY <1>2, <1>13 DEF L
<1>16. QED
  BY <1>9, <1>12, <1>14, <1>15

-----------------------------------------------------------------------------
(* The keys of a store, one after another. *)

First(keys, n) == [i \in 1..n |-> keys[i]]
Body(keys, n) == FlattenSeq([i \in 1..n |-> EncodeKey(keys[i])])

(* No keys are written as no bytes. *)
LEMMA BodyEmpty ==
  ASSUME NEW keys
  PROVE  Body(keys, 0) = <<>> /\ First(keys, 0) = <<>>
<1>1. [i \in 1..0 |-> EncodeKey(keys[i])] = <<>> /\ [i \in 1..0 |-> keys[i]] = <<>>
  OBVIOUS
<1>2. QED
  BY <1>1, FlattenEmpty DEF Body, First

(* The next key is written after those before it. *)
LEMMA BodyMore ==
  ASSUME NEW keys \in Seq(Keys), NEW n \in Nat, n < Len(keys)
  PROVE  Body(keys, n + 1) = Body(keys, n) \o EncodeKey(keys[n + 1])
<1> DEFINE s == [i \in 1..n + 1 |-> EncodeKey(keys[i])]
<1>1. \A i \in 1..n + 1 : keys[i] \in Keys
  OBVIOUS
<1>2. \A i \in 1..n + 1 : EncodeKey(keys[i]) \in Seq(Bytes)
  BY <1>1, EncodedKey
<1>3. s \in Seq(Seq(Bytes)) /\ Len(s) = n + 1 /\ s[n + 1] = EncodeKey(keys[n + 1])
  BY <1>2
<1>4. [i \in 1..n |-> s[i]] = [i \in 1..n |-> EncodeKey(keys[i])]
  OBVIOUS
<1> HIDE DEF s
<1>5. FlattenSeq(s) = FlattenSeq([i \in 1..n |-> s[i]]) \o s[n + 1]
  BY <1>3, FlattenMore
<1>6. QED
  BY <1>3, <1>4, <1>5 DEF s, Body

(* The keys before the n-th are written before it, whatever follows. *)
LEMMA BodyGrows ==
  ASSUME NEW keys \in Seq(Keys), NEW m \in 0..Len(keys)
  PROVE  /\ Body(keys, m) \in Seq(Bytes)
         /\ \A n \in 0..m : /\ Body(keys, n) \in Seq(Bytes)
                            /\ Len(Body(keys, n)) <= Len(Body(keys, m))
                            /\ \A i \in 1..Len(Body(keys, n)) : Body(keys, n)[i] = Body(keys, m)[i]
<1> DEFINE Grows(j) ==
             /\ Body(keys, j) \in Seq(Bytes)
             /\ \A n \in 0..j : /\ Body(keys, n) \in Seq(Bytes)
                                /\ Len(Body(keys, n)) <= Len(Body(keys, j))
                                /\ \A i \in 1..Len(Body(keys, n)) : Body(keys, n)[i] = Body(keys, j)[i]
           Growing == {j \in Nat : j <= Len(keys) => Grows(j)}
<1>1. 0 \in Growing
  <2>1. Body(keys, 0) \in Seq(Bytes) /\ Len(Body(keys, 0)) = 0
    <3>1. <<>> \in Seq(Bytes) /\ Len(<<>>) = 0
      OBVIOUS
    <3>2. QED
      BY ONLY <3>1, BodyEmpty
  <2>2. \A n \in 0..0 : n = 0
    OBVIOUS
  <2>3. QED
    BY <2>1, <2>2
<1>2. ASSUME NEW j \in Nat, j \in Growing
      PROVE  j + 1 \in Growing
  <2>1. SUFFICES ASSUME j + 1 <= Len(keys)
                 PROVE  Grows(j + 1)
    OBVIOUS
  <2>2. Grows(j) /\ j < Len(keys)
    BY <1>2, <2>1
  <2>3. Body(keys, j + 1) = Body(keys, j) \o EncodeKey(keys[j + 1])
    BY <2>2, BodyMore
  <2>4. Body(keys, j) \in Seq(Bytes) /\ EncodeKey(keys[j + 1]) \in Seq(Bytes)
    <3>1. keys[j + 1] \in Keys
      BY <2>1
    <3>2. QED
      BY <2>2, <3>1, EncodedKey
  <2>5. /\ Body(keys, j + 1) \in Seq(Bytes) /\ Len(Body(keys, j)) <= Len(Body(keys, j + 1))
        /\ \A i \in 1..Len(Body(keys, j)) : Body(keys, j + 1)[i] = Body(keys, j)[i]
    <3> DEFINE x == Body(keys, j)
               y == EncodeKey(keys[j + 1])
    <3>1. /\ x \o y \in Seq(Bytes) /\ Len(x \o y) = Len(x) + Len(y)
          /\ \A i \in 1..Len(x) : (x \o y)[i] = x[i]
      <4> HIDE DEF x, y
      <4>1. x \in Seq(Bytes) /\ y \in Seq(Bytes)
        BY <2>4 DEF x, y
      <4>2. QED
        BY <4>1, Joined
    <3>2. Len(x) \in Nat /\ Len(y) \in Nat
      BY <2>4
    <3>3. Len(x) <= Len(x) + Len(y)
      BY <3>2
    <3>4. QED
      BY ONLY <2>3, <3>1, <3>3
  <2>6. ASSUME NEW n \in 0..j + 1
        PROVE  /\ Body(keys, n) \in Seq(Bytes)
               /\ Len(Body(keys, n)) <= Len(Body(keys, j + 1))
               /\ \A i \in 1..Len(Body(keys, n)) : Body(keys, n)[i] = Body(keys, j + 1)[i]
    <3>1. CASE n = j + 1
      BY <2>5, <3>1
    <3>2. CASE n \in 0..j
      <4>1. /\ Body(keys, n) \in Seq(Bytes)
            /\ Len(Body(keys, n)) <= Len(Body(keys, j))
            /\ \A i \in 1..Len(Body(keys, n)) : Body(keys, n)[i] = Body(keys, j)[i]
        BY <2>2, <3>2
      <4>2. Len(Body(keys, n)) \in Nat /\ Len(Body(keys, j)) \in Nat /\ Len(Body(keys, j + 1)) \in Nat
        BY <2>4, <2>5, <4>1
      <4>3. \A i \in 1..Len(Body(keys, n)) : i \in 1..Len(Body(keys, j))
        BY <4>1, <4>2
      <4>4. QED
        BY <2>5, <4>1, <4>2, <4>3
    <3>3. QED
      BY <3>1, <3>2
  <2>7. QED
    BY ONLY <2>5, <2>6
<1>3. Nat \subseteq Growing
  <2> HIDE DEF Growing
  <2>1. QED
    BY <1>1, <1>2, SetInduction
<1>4. QED
  <2>1. m \in Growing /\ m <= Len(keys)
    BY <1>3
  <2>2. QED
    BY <2>1

-----------------------------------------------------------------------------
(* decode, turn by turn. *)

IsLoop(b, t) == t = [i \in 0..b[2] |-> IF i = 0 THEN NoTurn ELSE Turn(b, t[i - 1])]

(* The turns of decode, one from the other. *)
LEMMA LoopSteps ==
  ASSUME NEW b \in Seq(Bytes), Len(b) >= 2, NEW t, IsLoop(b, t)
  PROVE  /\ b[2] \in Nat /\ b[2] < Base /\ t[0] = NoTurn
         /\ \A n \in Nat : n < b[2] => t[n + 1] = Turn(b, t[n])
<1>1. b[2] \in Nat /\ b[2] < Base
  BY BaseIsPositive DEF Bytes
<1>2. t[0] = NoTurn
  BY <1>1 DEF IsLoop
<1>3. ASSUME NEW n \in Nat, n < b[2]
      PROVE  t[n + 1] = Turn(b, t[n])
  <2>1. n + 1 \in 0..b[2] /\ n + 1 # 0 /\ (n + 1) - 1 = n
    BY <1>1, <1>3
  <2>2. t[n + 1] = Turn(b, t[(n + 1) - 1])
    BY ONLY <2>1, IsLoop(b, t) DEF IsLoop
  <2>3. QED
    BY ONLY <2>1, <2>2
<1>4. QED
  BY <1>1, <1>2, <1>3

(* Every turn of decode reads a key or ends in an error. *)
LEMMA LoopIndexesInside ==
  ASSUME NEW b \in Seq(Bytes), Len(b) >= 2, NEW t, IsLoop(b, t)
  PROVE  t[b[2]].why \in {"ok", "error"}
<1> DEFINE Good == {n \in Nat : n <= b[2] => t[n].why \in {"ok", "error"}}
<1>1. /\ b[2] \in Nat /\ t[0] = NoTurn
      /\ \A n \in Nat : n < b[2] => t[n + 1] = Turn(b, t[n])
  BY LoopSteps
<1>2. 0 \in Good
  BY <1>1 DEF NoTurn
<1>3. ASSUME NEW n \in Nat, n \in Good
      PROVE  n + 1 \in Good
  <2>1. SUFFICES ASSUME n + 1 <= b[2]
                 PROVE  t[n + 1].why \in {"ok", "error"}
    OBVIOUS
  <2>2. n < b[2] /\ t[n].why \in {"ok", "error"}
    BY <1>1, <1>3, <2>1
  <2>3. t[n + 1] = Turn(b, t[n])
    BY <1>1, <2>2
  <2>4. DecodeKey(b, t[n].next).why \in {"ok", "error"}
    BY TurnIndexesInside
  <2>5. QED
    BY ONLY <2>2, <2>3, <2>4 DEF Turn
<1>4. Nat \subseteq Good
  <2> HIDE DEF Good
  <2>1. QED
    BY <1>2, <1>3, SetInduction
<1>5. QED
  BY <1>1, <1>4

(* decode reads what it is given or refuses it: no slice of it panics. *)
LEMMA DecodeNeverPanics ==
  ASSUME NEW b \in Seq(Bytes)
  PROVE  Decode(b).outcome \in {"ok", "error"}
<1>1. CASE Len(b) < 2
  BY <1>1 DEF Decode, HeaderFits, Fits, Error
<1>2. CASE Len(b) >= 2
  <2>1. PICK t : IsLoop(b, t) /\ Decode(b) = Returned(b, t[b[2]])
    BY <1>2, DecodeByTurns DEF IsLoop
  <2>2. t[b[2]].why \in {"ok", "error"}
    BY <1>2, <2>1, LoopIndexesInside
  <2>3. QED
    BY ONLY <2>1, <2>2 DEF Returned, Read, Error
<1>3. QED
  <2>1. Len(b) \in Nat
    OBVIOUS
  <2>2. QED
    BY <1>1, <1>2, <2>1

\* The stores decode can be given to write: a version and fewer keys than a byte
\* counts.
AnyStore == [current_version : Bytes, keys : {keys \in Seq(Keys) : Len(keys) < Base}]

(* The bytes of a store: version, number of keys, keys. *)
LEMMA EncodedStore ==
  ASSUME NEW store \in AnyStore
  PROVE  LET n == Len(store.keys)
             body == Body(store.keys, n)
         IN  /\ n \in Nat /\ body \in Seq(Bytes)
             /\ Encode(store) \in Seq(Bytes) /\ Len(Encode(store)) = 2 + Len(body)
             /\ Encode(store)[1] = store.current_version /\ Encode(store)[2] = n
             /\ \A i \in 1..Len(body) : Encode(store)[2 + i] = body[i]
<1> DEFINE n == Len(store.keys)
           body == Body(store.keys, n)
           head == <<store.current_version, n % Base>>
<1>1. store.keys \in Seq(Keys) /\ n \in Nat /\ n < Base /\ store.current_version \in Bytes
  BY DEF AnyStore
<1>2. n % Base = n /\ n \in Bytes
  <2> HIDE DEF n
  <2>1. n % Base = n
    BY <1>1, BaseIsPositive, SmallRest
  <2>2. QED
    BY <1>1, <2>1, BaseIsPositive DEF Bytes
<1>3. body \in Seq(Bytes)
  BY <1>1, BodyGrows
<1>4. /\ head \in Seq(Bytes) /\ Len(head) = 2
      /\ head[1] = store.current_version /\ head[2] = n
  <2> HIDE DEF n
  <2>1. QED
    BY <1>1, <1>2
<1>5. Encode(store) = head \o body
  BY DEF Encode, Body
<1> HIDE DEF n, body, head
<1>6. /\ head \o body \in Seq(Bytes) /\ Len(head \o body) = Len(head) + Len(body)
      /\ \A i \in 1..Len(head) : (head \o body)[i] = head[i]
      /\ \A i \in 1..Len(body) : (head \o body)[Len(head) + i] = body[i]
  BY <1>3, <1>4, Joined
<1>7. 1 \in 1..2 /\ 2 \in 1..2
  OBVIOUS
<1>8. /\ n \in Nat /\ body \in Seq(Bytes)
      /\ Encode(store) \in Seq(Bytes) /\ Len(Encode(store)) = 2 + Len(body)
      /\ Encode(store)[1] = store.current_version /\ Encode(store)[2] = n
      /\ \A i \in 1..Len(body) : Encode(store)[2 + i] = body[i]
  BY ONLY <1>1, <1>3, <1>4, <1>5, <1>6, <1>7
<1>9. QED
  BY <1>8 DEF n, body

(* Where the next key stands in the bytes of a store. *)
LEMMA KeyInBody ==
  ASSUME NEW keys \in Seq(Keys), NEW n \in Nat, n < Len(keys)
  PROVE  LET k == keys[n + 1]
             before == Body(keys, n)
         IN  /\ k \in Keys /\ KeyLength(k) \in Nat /\ Len(before) \in Nat
             /\ Len(Body(keys, n + 1)) = Len(before) + KeyLength(k)
             /\ \A i \in 1..KeyLength(k) : Body(keys, n + 1)[Len(before) + i] = EncodeKey(k)[i]
             /\ First(keys, n) \o <<k>> = First(keys, n + 1)
<1> DEFINE k == keys[n + 1]
           before == Body(keys, n)
<1>1. k \in Keys
  OBVIOUS
<1>2. EncodeKey(k) \in Seq(Bytes) /\ Len(EncodeKey(k)) = KeyLength(k)
  BY <1>1, EncodedKey
<1>3. before \in Seq(Bytes)
  <2>1. n \in 0..Len(keys)
    OBVIOUS
  <2>2. QED
    BY <2>1, BodyGrows
<1>4. Body(keys, n + 1) = before \o EncodeKey(k)
  BY BodyMore
<1>5. First(keys, n) \o <<k>> = First(keys, n + 1)
  <2>1. \A i \in 1..n : keys[i] \in Keys
    OBVIOUS
  <2>2. First(keys, n) \in Seq(Keys) /\ Len(First(keys, n)) = n /\ \A i \in 1..n : First(keys, n)[i] = keys[i]
    BY <2>1 DEF First
  <2>3. <<k>> \in Seq(Keys) /\ Len(<<k>>) = 1 /\ <<k>>[1] = k
    BY <1>1
  <2> DEFINE f == First(keys, n)
             g == <<k>>
  <2>4. /\ f \o g \in Seq(Keys) /\ Len(f \o g) = Len(f) + Len(g)
        /\ \A i \in 1..Len(f) : (f \o g)[i] = f[i]
        /\ \A i \in 1..Len(g) : (f \o g)[Len(f) + i] = g[i]
    <3> HIDE DEF f, g
    <3>1. f \in Seq(Keys) /\ g \in Seq(Keys)
      BY <2>2, <2>3 DEF f, g
    <3>2. QED
      BY <3>1, Joined
  <2>5. First(keys, n + 1) \in Seq(Keys) /\ Len(First(keys, n + 1)) = n + 1
    <3>1. \A i \in 1..n + 1 : keys[i] \in Keys
      OBVIOUS
    <3>2. QED
      BY <3>1 DEF First
  <2>6. \A i \in 1..n + 1 : First(keys, n + 1)[i] = keys[i]
    BY DEF First
  <2>7. \A i \in 1..n : (f \o g)[i] = keys[i]
    BY <2>2, <2>4
  <2>8. (f \o g)[n + 1] = keys[n + 1]
    <3>1. 1 \in 1..Len(g)
      BY <2>3
    <3>2. QED
      BY <2>2, <2>3, <2>4, <3>1
  <2>9. \A i \in 1..n + 1 : i \in 1..n \/ i = n + 1
    OBVIOUS
  <2>10. Len(f \o g) = n + 1
    BY <2>2, <2>3, <2>4
  <2> HIDE DEF f, g
  <2>11. \A i \in 1..n + 1 : (f \o g)[i] = First(keys, n + 1)[i]
    BY <2>6, <2>7, <2>8, <2>9
  <2>12. f \o g = First(keys, n + 1)
    BY <2>4, <2>5, <2>10, <2>11, SeqEqual
  <2>13. QED
    BY <2>12 DEF f, g, k
<1>6. /\ before \o EncodeKey(k) \in Seq(Bytes)
      /\ Len(before \o EncodeKey(k)) = Len(before) + KeyLength(k)
      /\ \A i \in 1..KeyLength(k) : (before \o EncodeKey(k))[Len(before) + i] = EncodeKey(k)[i]
  <2> DEFINE e == EncodeKey(k)
  <2>1. e \in Seq(Bytes) /\ Len(e) = KeyLength(k)
    BY <1>2
  <2> HIDE DEF before, k, e
  <2>2. /\ before \o e \in Seq(Bytes) /\ Len(before \o e) = Len(before) + Len(e)
        /\ \A i \in 1..Len(e) : (before \o e)[Len(before) + i] = e[i]
    BY ONLY <1>3, <2>1, Joined
  <2>3. QED
    BY ONLY <2>1, <2>2 DEF e
<1>7. Len(before) \in Nat /\ KeyLength(k) \in Nat
  BY <1>2, <1>3
<1>8. QED
  BY <1>1, <1>4, <1>5, <1>6, <1>7

(* What is written is read back as it was, and a store that lost its end, at
   whatever byte, is refused. *)
LEMMA WholeOrCut ==
  ASSUME NEW store \in AnyStore, NEW m \in 0..Len(Encode(store)), NEW b \in Seq(Bytes),
         Len(b) = m, \A i \in 1..m : b[i] = Encode(store)[i]
  PROVE  /\ m = Len(Encode(store)) => Decode(b) = Read(store)
         /\ m < Len(Encode(store)) => Decode(b) = Error
<1> DEFINE keys == store.keys
           N == Len(keys)
           full == Encode(store)
           body == Body(keys, N)
           Size(n) == 2 + Len(Body(keys, n))
<1>1. /\ keys \in Seq(Keys) /\ N \in Nat /\ N < Base
      /\ store = [current_version |-> store.current_version, keys |-> keys]
  BY DEF AnyStore
<1>2. /\ full \in Seq(Bytes) /\ Len(full) = Size(N) /\ full[1] = store.current_version /\ full[2] = N
      /\ Len(body) \in Nat /\ \A i \in 1..Len(body) : full[2 + i] = body[i]
  BY EncodedStore
<1>3. m \in Nat /\ m <= Len(full) /\ Len(full) \in Nat
  BY <1>2
<1> HIDE DEF full
<1>4. CASE m < 2
  <2>1. Decode(b) = Error
    BY <1>4 DEF Decode, HeaderFits, Fits
  <2>2. m < Len(full)
    BY <1>2, <1>4
  <2>3. QED
    BY <2>1, <2>2 DEF full
<1>5. CASE m >= 2
  <2>1. b[1] = store.current_version /\ b[2] = N
    <3>1. 1 \in 1..m /\ 2 \in 1..m
      BY <1>3, <1>5
    <3>2. QED
      BY <1>2, <3>1 DEF full
  <2>2. PICK t : IsLoop(b, t) /\ Decode(b) = Returned(b, t[b[2]])
    BY <1>5, DecodeByTurns DEF IsLoop
  <2>3. t[0] = NoTurn /\ \A n \in Nat : n < N => t[n + 1] = Turn(b, t[n])
    <3>1. Len(b) >= 2 /\ IsLoop(b, t)
      BY <1>5, <2>2
    <3>2. t[0] = NoTurn /\ \A n \in Nat : n < b[2] => t[n + 1] = Turn(b, t[n])
      BY <3>1, LoopSteps
    <3>3. QED
      BY ONLY <2>1, <3>2
  <2> DEFINE Loop(n) ==
               /\ Size(n) <= m => t[n] = [next |-> Size(n), why |-> "ok", keys |-> First(keys, n)]
               /\ Size(n) > m => t[n].why = "error"
             Looping == {n \in Nat : n <= N => Loop(n)}
  <2>4. 0 \in Looping
    <3>1. Body(keys, 0) = <<>> /\ First(keys, 0) = <<>> /\ Len(<<>>) = 0
      BY BodyEmpty
    <3>2. Size(0) = 2 /\ ~(2 > m) /\ t[0] = [next |-> 2, why |-> "ok", keys |-> <<>>]
      BY <1>3, <1>5, <2>3, <3>1 DEF NoTurn
    <3>3. QED
      BY <3>1, <3>2
  <2>5. ASSUME NEW n \in Nat, n \in Looping
        PROVE  n + 1 \in Looping
    <3>1. SUFFICES ASSUME n + 1 <= N
                   PROVE  Loop(n + 1)
      OBVIOUS
    <3>2. Loop(n) /\ n < N /\ t[n + 1] = Turn(b, t[n])
      <4>1. n <= N /\ n < N
        BY <1>1, <3>1
      <4>2. QED
        BY <2>3, <2>5, <4>1
    <3> DEFINE k == keys[n + 1]
               before == Body(keys, n)
    <3>3. /\ k \in Keys /\ KeyLength(k) \in Nat /\ Len(before) \in Nat
          /\ Len(Body(keys, n + 1)) = Len(before) + KeyLength(k)
          /\ \A i \in 1..KeyLength(k) : Body(keys, n + 1)[Len(before) + i] = EncodeKey(k)[i]
          /\ First(keys, n) \o <<k>> = First(keys, n + 1)
      BY <1>1, <3>2, KeyInBody
    <3> HIDE DEF k
    <3>4. Size(n + 1) = Size(n) + KeyLength(k) /\ Size(n) \in Nat
      BY ONLY <3>3
    <3>5. CASE Size(n) > m
      <4>1. t[n].why = "error"
        BY <3>2, <3>5
      <4>2. t[n + 1] = t[n]
        BY ONLY <3>2, <4>1 DEF Turn
      <4>3. Size(n + 1) > m /\ ~(Size(n + 1) <= m)
        BY ONLY <1>3, <3>3, <3>4, <3>5
      <4>4. QED
        BY ONLY <4>1, <4>2, <4>3
    <3>6. CASE Size(n) <= m
      <4> DEFINE off == Size(n)
      <4>1. t[n] = [next |-> off, why |-> "ok", keys |-> First(keys, n)]
        BY <3>2, <3>6
      <4>2. \A i \in 1..KeyLength(k) : off + i <= Len(b) => b[off + i] = EncodeKey(k)[i]
        <5>1. SUFFICES ASSUME NEW i \in 1..KeyLength(k), off + i <= m
                       PROVE  b[off + i] = EncodeKey(k)[i]
          OBVIOUS
        <5>2. off + i \in 1..m /\ off + i = 2 + (Len(before) + i)
          BY ONLY <1>3, <3>3, <3>4, <5>1
        <5>3. b[off + i] = full[2 + (Len(before) + i)]
          BY <5>2 DEF full
        <5>4. /\ Len(before) + i \in 1..Len(Body(keys, n + 1))
              /\ Body(keys, n + 1)[Len(before) + i] = EncodeKey(k)[i]
          <6>1. Len(before) + i \in 1..Len(before) + KeyLength(k)
            BY <3>3, <5>1
          <6>2. QED
            BY ONLY <3>3, <5>1, <6>1
        <5>5. /\ Len(Body(keys, n + 1)) <= Len(body)
              /\ \A j \in 1..Len(Body(keys, n + 1)) : Body(keys, n + 1)[j] = body[j]
          <6>1. n + 1 \in 0..N /\ N \in 0..Len(keys)
            BY <1>1, <3>1
          <6>2. QED
            BY <1>1, <6>1, BodyGrows
        <5>6. Len(before) + i \in 1..Len(body)
          BY ONLY <1>2, <3>3, <5>1, <5>4, <5>5
        <5>7. QED
          BY ONLY <1>2, <5>3, <5>4, <5>5, <5>6
      <4>3. off \in Nat /\ off <= Len(b)
        BY <3>4, <3>6
      <4>4. /\ off + KeyLength(k) <= Len(b) =>
                 DecodeKey(b, off) = [next |-> off + KeyLength(k), why |-> "ok", key |-> <<k>>]
            /\ off + KeyLength(k) > Len(b) => DecodeKey(b, off).why = "error"
        <5> HIDE DEF off
        <5>1. QED
          BY <3>3, <4>2, <4>3, KeyIsRead
      <4> HIDE DEF Size
      <4>5. CASE Size(n + 1) <= m
        <5>1. DecodeKey(b, off) = [next |-> Size(n + 1), why |-> "ok", key |-> <<k>>]
          BY <3>4, <4>4, <4>5
        <5>2. t[n + 1] = [next |-> Size(n + 1), why |-> "ok", keys |-> First(keys, n + 1)]
          <6>1. Turn(b, t[n]) = [next |-> Size(n + 1), why |-> "ok", keys |-> First(keys, n) \o <<k>>]
            <7>1. t[n].next = off /\ t[n].why = "ok" /\ t[n].keys = First(keys, n)
              BY ONLY <4>1
            <7>2. DecodeKey(b, t[n].next) = [next |-> Size(n + 1), why |-> "ok", key |-> <<k>>]
              BY ONLY <5>1, <7>1
            <7>3. QED
              BY ONLY <7>1, <7>2 DEF Turn
          <6>2. QED
            BY ONLY <3>2, <3>3, <6>1
        <5>3. ~(Size(n + 1) > m)
          BY ONLY <1>3, <3>3, <3>4, <4>5
        <5>4. QED
          BY <5>2, <5>3
      <4>6. CASE Size(n + 1) > m
        <5>1. DecodeKey(b, off).why = "error"
          BY <3>4, <4>4, <4>6
        <5>2. t[n + 1].why = "error"
          BY ONLY <3>2, <4>1, <5>1 DEF Turn
        <5>3. ~(Size(n + 1) <= m)
          BY ONLY <1>3, <3>3, <3>4, <4>6
        <5>4. QED
          BY <5>2, <5>3
      <4>7. QED
        BY <1>3, <3>3, <3>4, <4>5, <4>6
    <3>7. QED
      BY <1>3, <3>4, <3>5, <3>6
  <2>6. Nat \subseteq Looping
    <3> HIDE DEF Looping
    <3>1. QED
      BY <2>4, <2>5, SetInduction
  <2>7. Loop(N)
    BY <1>1, <2>6
  <2>8. First(keys, N) = keys
    BY <1>1 DEF First
  <2>9. ASSUME m = Len(full)
        PROVE  Decode(b) = Read(store)
    <3>1. Size(N) <= m
      BY <1>2, <1>3, <2>9
    <3>2. t[N] = [next |-> Size(N), why |-> "ok", keys |-> keys]
      BY ONLY <2>7, <2>8, <3>1
    <3>3. Decode(b) = Read([current_version |-> store.current_version, keys |-> keys])
      BY ONLY <2>1, <2>2, <3>2 DEF Returned
    <3>4. QED
      BY ONLY <1>1, <3>3
  <2>10. ASSUME m < Len(full)
         PROVE  Decode(b) = Error
    <3>1. Size(N) > m
      BY <1>2, <1>3, <2>10
    <3>2. t[N].why = "error"
      BY ONLY <2>7, <3>1
    <3>3. QED
      BY ONLY <2>1, <2>2, <3>2 DEF Returned
  <2>11. QED
    BY <2>9, <2>10 DEF full
<1>6. QED
  BY <1>3, <1>4, <1>5

(* Bytes that agree place by place are a prefix. *)
LEMMA BytesArePrefix ==
  ASSUME NEW s \in Seq(Bytes), NEW b \in Seq(Bytes), Len(s) <= Len(b),
         \A i \in 1..Len(s) : b[i] = s[i]
  PROVE  IsPrefix(s, b)
<1> DEFINE c == SubSeq(b, 1, Len(s))
<1>1. Len(s) \in Nat /\ Len(b) \in Nat
  OBVIOUS
<1>2. /\ Slice(b, 0, Len(s)) \in Seq(Bytes) /\ Len(Slice(b, 0, Len(s))) = Len(s)
      /\ \A i \in 1..Len(s) : Slice(b, 0, Len(s))[i] = b[0 + i]
  <2>1. b \in Seq(Bytes) /\ 0 \in Nat /\ Len(s) \in Nat /\ 0 + Len(s) <= Len(b)
    BY <1>1
  <2>2. QED
    BY ONLY <2>1, SliceBytes
<1>3. c \in Seq(Bytes) /\ Len(c) = Len(s) /\ \A i \in 1..Len(s) : c[i] = b[i]
  <2>1. 0 + 1 = 1 /\ 0 + Len(s) = Len(s) /\ \A i \in 1..Len(s) : 0 + i = i
    BY <1>1
  <2>2. QED
    BY ONLY <1>2, <2>1 DEF Slice
<1> HIDE DEF c
<1>4. c = s
  BY <1>3, SeqEqual
<1>5. SubSeq(s, 1, Len(s)) = s
  BY SubSeqFull
<1>6. QED
  BY <1>4, <1>5 DEF c, IsPrefix

(* What decode returns stands at the beginning of the bytes as encode writes it. *)
LEMMA DecodedStands ==
  ASSUME NEW b \in Seq(Bytes), Decode(b).outcome = "ok"
  PROVE  Decode(b).store \in AnyStore /\ IsPrefix(Encode(Decode(b).store), b)
<1>1. Len(b) \in Nat /\ Len(b) >= 2
  <2>1. SUFFICES ASSUME Len(b) < 2
                 PROVE  FALSE
    OBVIOUS
  <2>2. Decode(b) = Error
    BY <2>1 DEF Decode, HeaderFits, Fits
  <2>3. QED
    BY <2>2 DEF Error
<1>2. PICK t : IsLoop(b, t) /\ Decode(b) = Returned(b, t[b[2]])
  BY <1>1, DecodeByTurns DEF IsLoop
<1>3. /\ b[2] \in Nat /\ b[2] < Base /\ t[0] = NoTurn
      /\ \A n \in Nat : n < b[2] => t[n + 1] = Turn(b, t[n])
  BY <1>1, <1>2, LoopSteps
<1> DEFINE Stands(n, keys) ==
             /\ Len(keys) = n /\ t[n].keys = keys
             /\ t[n].next = 2 + Len(Body(keys, n)) /\ t[n].next <= Len(b)
             /\ \A i \in 1..Len(Body(keys, n)) : b[2 + i] = Body(keys, n)[i]
           Read_(n) == n <= b[2] /\ t[n].why = "ok" => \E keys \in Seq(Keys) : Stands(n, keys)
           Standing == {n \in Nat : Read_(n)}
<1>4. 0 \in Standing
  <2>1. <<>> \in Seq(Keys) /\ Len(<<>>) = 0
    OBVIOUS
  <2>2. Body(<<>>, 0) = <<>>
    BY BodyEmpty
  <2>3. t[0].keys = <<>> /\ t[0].next = 2
    BY <1>3 DEF NoTurn
  <2>4. Stands(0, <<>>)
    BY <1>1, <2>1, <2>2, <2>3
  <2>5. QED
    BY <2>1, <2>4
<1>5. ASSUME NEW n \in Nat, n \in Standing
      PROVE  n + 1 \in Standing
  <2>1. SUFFICES ASSUME n + 1 <= b[2], t[n + 1].why = "ok"
                 PROVE  \E keys \in Seq(Keys) : Stands(n + 1, keys)
    OBVIOUS
  <2>2. n < b[2] /\ n <= b[2]
    BY <1>3, <2>1
  <2>3. t[n + 1] = Turn(b, t[n])
    BY <1>3, <2>2
  <2>4. t[n].why = "ok"
    BY ONLY <2>1, <2>3 DEF Turn
  <2>5. PICK keys \in Seq(Keys) : Stands(n, keys)
    BY <1>5, <2>2, <2>4
  <2> DEFINE off == t[n].next
  <2>6. DecodeKey(b, off).why = "ok"
    BY ONLY <2>1, <2>3, <2>4 DEF Turn
  <2>7. Body(keys, n) \in Seq(Bytes) /\ off \in Nat
    <3>1. n \in 0..Len(keys)
      BY <2>5
    <3>2. Body(keys, n) \in Seq(Bytes)
      BY <3>1, BodyGrows
    <3>3. QED
      BY <2>5, <3>2
  <2> HIDE DEF off
  <2>8. PICK k \in Keys :
          /\ DecodeKey(b, off) = [next |-> off + KeyLength(k), why |-> "ok", key |-> <<k>>]
          /\ off + KeyLength(k) <= Len(b)
          /\ \A i \in 1..KeyLength(k) : b[off + i] = EncodeKey(k)[i]
    BY <2>6, <2>7, KeyIsThere
  <2>9. /\ t[n + 1].next = off + KeyLength(k) /\ t[n + 1].keys = keys \o <<k>>
    <3>1. t[n].keys = keys
      BY <2>5
    <3>2. DecodeKey(b, t[n].next) = [next |-> off + KeyLength(k), why |-> "ok", key |-> <<k>>]
      BY <2>8 DEF off
    <3>3. QED
      BY ONLY <2>3, <2>4, <3>1, <3>2 DEF Turn
  <2>10. PICK more \in Seq(Keys) : /\ more = keys \o <<k>> /\ Len(more) = n + 1 /\ more[n + 1] = k
                                   /\ \A i \in 1..n : more[i] = keys[i]
    <3>1. Len(keys) = n
      BY <2>5
    <3>2. Append(keys, k) = keys \o <<k>>
      BY ONLY keys \in Seq(Keys), k \in Keys, AppendIsConcat
    <3>3. /\ Append(keys, k) \in Seq(Keys) /\ Len(Append(keys, k)) = Len(keys) + 1
          /\ \A i \in 1..Len(keys) : Append(keys, k)[i] = keys[i]
          /\ Append(keys, k)[Len(keys) + 1] = k
      BY ONLY keys \in Seq(Keys), k \in Keys, AppendProperties
    <3>4. QED
      BY ONLY <3>1, <3>2, <3>3
  <2>11. Body(more, n) = Body(keys, n)
    <3>1. [i \in 1..n |-> EncodeKey(more[i])] = [i \in 1..n |-> EncodeKey(keys[i])]
      BY <2>10
    <3>2. QED
      BY ONLY <3>1 DEF Body
  <2>12. /\ KeyLength(k) \in Nat /\ Len(Body(keys, n)) \in Nat
         /\ Len(Body(more, n + 1)) = Len(Body(keys, n)) + KeyLength(k)
         /\ \A i \in 1..KeyLength(k) : Body(more, n + 1)[Len(Body(keys, n)) + i] = EncodeKey(k)[i]
    <3>1. n < Len(more)
      BY <2>10
    <3>2. /\ KeyLength(more[n + 1]) \in Nat /\ Len(Body(more, n)) \in Nat
          /\ Len(Body(more, n + 1)) = Len(Body(more, n)) + KeyLength(more[n + 1])
          /\ \A i \in 1..KeyLength(more[n + 1]) :
               Body(more, n + 1)[Len(Body(more, n)) + i] = EncodeKey(more[n + 1])[i]
      BY <3>1, KeyInBody
    <3>3. QED
      BY ONLY <2>10, <2>11, <3>2
  <2>13. \A i \in 1..Len(Body(keys, n)) : Body(more, n + 1)[i] = Body(keys, n)[i]
    <3>1. n + 1 \in 0..Len(more) /\ n \in 0..n + 1
      BY <2>10
    <3>2. \A i \in 1..Len(Body(more, n)) : Body(more, n)[i] = Body(more, n + 1)[i]
      BY <3>1, BodyGrows
    <3>3. QED
      BY ONLY <2>11, <3>2
  <2>14. off = 2 + Len(Body(keys, n)) /\ \A i \in 1..Len(Body(keys, n)) : b[2 + i] = Body(keys, n)[i]
    BY <2>5 DEF off
  <2>15. ASSUME NEW i \in 1..Len(Body(more, n + 1))
         PROVE  b[2 + i] = Body(more, n + 1)[i]
    <3>1. CASE i \in 1..Len(Body(keys, n))
      BY ONLY <2>13, <2>14, <3>1
    <3>2. CASE i > Len(Body(keys, n))
      <4> DEFINE j == i - Len(Body(keys, n))
      <4>1. j \in 1..KeyLength(k) /\ Len(Body(keys, n)) + j = i /\ off + j = 2 + i
        BY ONLY <2>12, <2>14, <2>15, <3>2
      <4> HIDE DEF j
      <4>2. b[off + j] = EncodeKey(k)[j]
        BY ONLY <2>8, <4>1
      <4>3. Body(more, n + 1)[Len(Body(keys, n)) + j] = EncodeKey(k)[j]
        BY ONLY <2>12, <4>1
      <4>4. QED
        BY ONLY <4>1, <4>2, <4>3
    <3>3. QED
      BY <2>12, <3>1, <3>2
  <2>16. t[n + 1].next = 2 + Len(Body(more, n + 1)) /\ t[n + 1].next <= Len(b)
    BY ONLY <2>7, <2>8, <2>9, <2>12, <2>14
  <2>17. Stands(n + 1, more)
    BY ONLY <2>9, <2>10, <2>15, <2>16
  <2>18. QED
    BY <2>17
<1>6. Nat \subseteq Standing
  <2> HIDE DEF Standing
  <2>1. QED
    BY <1>4, <1>5, SetInduction
<1>7. t[b[2]].why = "ok"
  <2>1. t[b[2]].why \in {"ok", "error"}
    BY <1>1, <1>2, LoopIndexesInside
  <2>2. QED
    BY ONLY <1>2, <2>1, Decode(b).outcome = "ok" DEF Returned, Error
<1>8. PICK keys \in Seq(Keys) : Stands(b[2], keys)
  BY <1>3, <1>6, <1>7
<1> DEFINE store == [current_version |-> b[1], keys |-> keys]
<1>9. Decode(b) = Read(store)
  BY ONLY <1>2, <1>7, <1>8 DEF Returned
<1>10. store \in AnyStore
  <2>1. b[1] \in Bytes
    BY <1>1
  <2>2. QED
    BY <1>3, <1>8, <2>1 DEF AnyStore
<1>11. IsPrefix(Encode(store), b)
  <2> DEFINE body == Body(keys, b[2])
             e == Encode(store)
  <2>1. /\ body \in Seq(Bytes) /\ e \in Seq(Bytes) /\ Len(e) = 2 + Len(body)
        /\ e[1] = b[1] /\ e[2] = b[2] /\ \A i \in 1..Len(body) : e[2 + i] = body[i]
    <3>1. store.keys = keys /\ Len(keys) = b[2] /\ store.current_version = b[1]
      BY <1>8
    <3>2. LET n == Len(store.keys)
              bd == Body(store.keys, n)
          IN  /\ n \in Nat /\ bd \in Seq(Bytes)
              /\ Encode(store) \in Seq(Bytes) /\ Len(Encode(store)) = 2 + Len(bd)
              /\ Encode(store)[1] = store.current_version /\ Encode(store)[2] = n
              /\ \A i \in 1..Len(bd) : Encode(store)[2 + i] = bd[i]
      <4> HIDE DEF store
      <4>1. QED
        BY <1>10, EncodedStore
    <3> HIDE DEF store
    <3>3. QED
      BY ONLY <3>1, <3>2
  <2>2. Len(e) <= Len(b) /\ \A i \in 1..Len(body) : b[2 + i] = body[i]
    BY <1>8, <2>1
  <2>3. ASSUME NEW i \in 1..Len(e)
        PROVE  b[i] = e[i]
    <3>1. CASE i \in {1, 2}
      BY ONLY <2>1, <3>1
    <3>2. CASE i > 2
      <4>1. i - 2 \in 1..Len(body) /\ 2 + (i - 2) = i
        BY <2>1, <3>2
      <4>2. QED
        BY ONLY <2>1, <2>2, <4>1
    <3>3. QED
      BY <2>1, <3>1, <3>2
  <2> HIDE DEF e, body, store
  <2>4. IsPrefix(e, b)
    BY ONLY <2>1, <2>2, <2>3, BytesArePrefix, b \in Seq(Bytes)
  <2>5. QED
    BY <2>4 DEF e
<1>12. Decode(b).store = store
  BY ONLY <1>9 DEF Read
<1>13. QED
  BY ONLY <1>10, <1>11, <1>12

-----------------------------------------------------------------------------
(* The sealed blob and the ciphertext around their contents. *)

(* Where the key store stands in the sealed blob. *)
LEMMA SealedStore ==
  ASSUME NEW store \in AnyStore
  PROVE  /\ Encode(store) \in Seq(Bytes) /\ Len(Encode(store)) \in Nat /\ Len(Encode(store)) >= 2
         /\ Seal(store) \in Seq(Bytes) /\ Len(Seal(store)) = 6 + Len(Encode(store))
         /\ Seal(store)[1] = MAGIC
         /\ \A i \in 1..Len(Encode(store)) : Seal(store)[5 + i] = Encode(store)[i]
<1> DEFINE e == Encode(store)
           head == <<MAGIC, 2, 0, 1, 2>>
           tag == <<0>>
<1>1. e \in Seq(Bytes) /\ Len(e) \in Nat /\ Len(e) >= 2
  <2>1. e \in Seq(Bytes) /\ Len(e) = 2 + Len(Body(store.keys, Len(store.keys)))
        /\ Body(store.keys, Len(store.keys)) \in Seq(Bytes)
    BY EncodedStore
  <2> HIDE DEF e
  <2>2. QED
    BY <2>1
<1>2. head \in Seq(Bytes) /\ Len(head) = 5 /\ head[1] = MAGIC
  BY BaseIsPositive DEF MAGIC, Bytes
<1>3. tag \in Seq(Bytes) /\ Len(tag) = 1
  BY BaseIsPositive DEF Bytes
<1>4. Seal(store) = (head \o e) \o tag
  BY DEF Seal
<1> HIDE DEF e, head, tag
<1>5. /\ head \o e \in Seq(Bytes) /\ Len(head \o e) = 5 + Len(e)
      /\ (head \o e)[1] = MAGIC
      /\ \A i \in 1..Len(e) : (head \o e)[5 + i] = e[i]
  <2>1. /\ head \o e \in Seq(Bytes) /\ Len(head \o e) = Len(head) + Len(e)
        /\ \A i \in 1..Len(head) : (head \o e)[i] = head[i]
        /\ \A i \in 1..Len(e) : (head \o e)[Len(head) + i] = e[i]
    <3>1. head \in Seq(Bytes) /\ e \in Seq(Bytes)
      BY <1>1, <1>2
    <3>2. QED
      BY ONLY <3>1, Joined
  <2>2. 1 \in 1..5
    OBVIOUS
  <2>3. QED
    BY ONLY <1>2, <2>1, <2>2
<1> DEFINE c == head \o e
<1> HIDE DEF c
<1>6. /\ c \o tag \in Seq(Bytes) /\ Len(c \o tag) = Len(c) + Len(tag)
      /\ \A i \in 1..Len(c) : (c \o tag)[i] = c[i]
  <2>1. c \in Seq(Bytes)
    BY <1>5 DEF c
  <2>2. QED
    BY ONLY <1>3, <2>1, Joined
<1>7. Len(c) = 5 + Len(e) /\ 1 \in 1..Len(c) /\ \A i \in 1..Len(e) : 5 + i \in 1..Len(c)
  BY <1>1, <1>5 DEF c
<1>8. /\ c \o tag \in Seq(Bytes) /\ Len(c \o tag) = 6 + Len(e)
      /\ (c \o tag)[1] = MAGIC
      /\ \A i \in 1..Len(e) : (c \o tag)[5 + i] = e[i]
  <2>1. c[1] = MAGIC /\ \A i \in 1..Len(e) : c[5 + i] = e[i]
    BY <1>5 DEF c
  <2>2. Len(c) + Len(tag) = 6 + Len(e)
    BY <1>1, <1>3, <1>7
  <2>3. QED
    BY ONLY <1>6, <1>7, <2>1, <2>2
<1>9. QED
  BY <1>1, <1>4, <1>8 DEF c, e

(* The bytes of a ciphertext: length of enc, enc, the rest. *)
LEMMA EncryptedBytes ==
  /\ Encrypted \in Seq(Bytes) /\ Len(Encrypted) = 8 /\ U16(Encrypted, 0) = 4
  /\ Enc \in Seq(Bytes) /\ Len(Enc) = 4
  /\ \A i \in 1..4 : Encrypted[2 + i] = Enc[i]
  /\ Encrypted[7] = 2 /\ Encrypted[8] = 1
<1> DEFINE len == LittleEndian(4)
           ct == <<2, 1>>
<1>1. Enc \in Seq(Bytes) /\ Len(Enc) = 4
  BY BaseIsPositive DEF Enc, Bytes
<1>2. /\ len \in Seq(Bytes) /\ Len(len) = 2 /\ len[1] + Base * len[2] = 4
  <2>1. 4 < Base * Base
    <3>1. Base * 2 + Base <= Base * Base
      BY BaseIsPositive, NextMultiple
    <3>2. Base * Base \in Int
      BY BaseIsPositive
    <3>3. QED
      BY <3>1, <3>2, BaseIsPositive
  <2>2. 4 % Base \in Bytes /\ 4 \div Base \in Bytes /\ (4 % Base) + Base * (4 \div Base) = 4
    BY <2>1, LengthOfBytes
  <2>3. QED
    BY <2>2 DEF LittleEndian
<1>3. ct \in Seq(Bytes) /\ Len(ct) = 2 /\ ct[1] = 2 /\ ct[2] = 1
  BY BaseIsPositive DEF Bytes
<1>4. Encrypted = (len \o Enc) \o ct
  BY <1>1 DEF Encrypted
<1> HIDE DEF len, ct
<1> DEFINE c == len \o Enc
<1>5. /\ c \in Seq(Bytes) /\ Len(c) = 6
      /\ c[1] = len[1] /\ c[2] = len[2] /\ \A i \in 1..4 : c[2 + i] = Enc[i]
  <2>1. /\ len \o Enc \in Seq(Bytes) /\ Len(len \o Enc) = Len(len) + Len(Enc)
        /\ \A i \in 1..Len(len) : (len \o Enc)[i] = len[i]
        /\ \A i \in 1..Len(Enc) : (len \o Enc)[Len(len) + i] = Enc[i]
    <3>1. len \in Seq(Bytes) /\ Enc \in Seq(Bytes)
      BY <1>1, <1>2
    <3>2. QED
      BY ONLY <3>1, Joined
  <2>2. 1 \in 1..2 /\ 2 \in 1..2 /\ 2 + 4 = 6
    OBVIOUS
  <2>3. QED
    BY ONLY <1>1, <1>2, <2>1, <2>2
<1> HIDE DEF c
<1>6. /\ c \o ct \in Seq(Bytes) /\ Len(c \o ct) = 8
      /\ \A i \in 1..6 : (c \o ct)[i] = c[i]
      /\ (c \o ct)[7] = 2 /\ (c \o ct)[8] = 1
  <2>1. /\ c \o ct \in Seq(Bytes) /\ Len(c \o ct) = Len(c) + Len(ct)
        /\ \A i \in 1..Len(c) : (c \o ct)[i] = c[i]
        /\ \A i \in 1..Len(ct) : (c \o ct)[Len(c) + i] = ct[i]
    <3>1. c \in Seq(Bytes) /\ ct \in Seq(Bytes)
      BY <1>3, <1>5
    <3>2. QED
      BY ONLY <3>1, Joined
  <2>2. 1 \in 1..2 /\ 2 \in 1..2 /\ 6 + 1 = 7 /\ 6 + 2 = 8
    OBVIOUS
  <2>3. QED
    BY ONLY <1>3, <1>5, <2>1, <2>2
<1>7. (c \o ct)[1] = len[1] /\ (c \o ct)[2] = len[2] /\ \A i \in 1..4 : (c \o ct)[2 + i] = Enc[i]
  <2>1. 1 \in 1..6 /\ 2 \in 1..6 /\ \A i \in 1..4 : 2 + i \in 1..6
    OBVIOUS
  <2>2. QED
    BY ONLY <1>5, <1>6, <2>1
<1>8. U16(c \o ct, 0) = 4
  <2>1. 0 + 1 = 1 /\ 0 + 2 = 2
    OBVIOUS
  <2>2. QED
    BY ONLY <1>2, <1>7, <2>1 DEF U16
<1>9. QED
  BY ONLY <1>1, <1>4, <1>6, <1>7, <1>8 DEF c

IsCut(b, full) == Len(b) < Len(full) /\ \A i \in 1..Len(b) : b[i] = full[i]

(* decode gives back every store of fewer keys than a byte counts as encode
   wrote it, refuses every proper beginning of it, and never panics. *)
THEOREM DecodeReads ==
  ASSUME NEW store \in AnyStore, NEW b \in Seq(Bytes)
  PROVE  /\ Decode(b).outcome \in {"ok", "error"}
         /\ b = Encode(store) => Decode(b) = Read(store)
         /\ IsCut(b, Encode(store)) => Decode(b) = Error
<1>1. Encode(store) \in Seq(Bytes)
  BY EncodedStore
<1>2. Decode(b).outcome \in {"ok", "error"}
  BY DecodeNeverPanics
<1>3. ASSUME b = Encode(store)
      PROVE  Decode(b) = Read(store)
  <2>1. Len(b) \in 0..Len(Encode(store)) /\ \A i \in 1..Len(b) : b[i] = Encode(store)[i]
    BY <1>1, <1>3
  <2>2. QED
    BY <1>3, <2>1, WholeOrCut
<1>4. ASSUME IsCut(b, Encode(store))
      PROVE  Decode(b) = Error
  <2>1. /\ Len(b) \in 0..Len(Encode(store)) /\ Len(b) < Len(Encode(store))
        /\ \A i \in 1..Len(b) : b[i] = Encode(store)[i]
    BY <1>1, <1>4 DEF IsCut
  <2>2. QED
    BY <2>1, WholeOrCut
<1>5. QED
  BY <1>2, <1>3, <1>4

(* unseal reads what was sealed, refuses what lost its end, and never panics. *)
LEMMA UnsealReads ==
  ASSUME original.store \in AnyStore, NEW b \in Seq(Bytes)
  PROVE  /\ Unseal(b).outcome \in {"ok", "error"}
         /\ b = Seal(original.store) => Unseal(b) = Read(original.store)
         /\ IsCut(b, Seal(original.store)) => Unseal(b) = Error
<1> DEFINE e == Encode(original.store)
           full == Seal(original.store)
           inner == SubSeq(b, HDR + 1, Len(b) - TAG)
<1>1. /\ e \in Seq(Bytes) /\ Len(e) \in Nat /\ Len(e) >= 2
      /\ full \in Seq(Bytes) /\ Len(full) = 6 + Len(e) /\ full[1] = MAGIC
      /\ \A i \in 1..Len(e) : full[5 + i] = e[i]
  BY SealedStore
<1>2. Len(b) \in Nat /\ b \in Seq(Bytes)
  OBVIOUS
<1>3. LooksSealed(b) => Len(b) >= 6 /\ Fits(b, HDR)
  BY <1>2 DEF LooksSealed, Fits, HDR, TAG
<1>4. ASSUME Len(b) >= 6
      PROVE  /\ inner \in Seq(Bytes) /\ Len(inner) = Len(b) - 6
             /\ \A i \in 1..Len(b) - 6 : inner[i] = b[5 + i]
  <2>1. inner = Slice(b, 5, Len(b) - 6)
    <3>1. 5 + (Len(b) - 6) = Len(b) - 1
      BY <1>2
    <3>2. QED
      BY <3>1 DEF Slice, HDR, TAG
  <2>2. 5 \in Nat /\ Len(b) - 6 \in Nat /\ 5 + (Len(b) - 6) <= Len(b)
    BY <1>2, <1>4
  <2> HIDE DEF inner
  <2>3. QED
    BY ONLY <1>2, <2>1, <2>2, SliceBytes
<1> HIDE DEF inner
<1>5. \/ Unseal(b) = Error
      \/ LooksSealed(b) /\ Tail(b) = Tail(full) /\ Unseal(b) = Decode(inner)
  BY ONLY <1>3 DEF Unseal, inner, full
<1>6. Unseal(b).outcome \in {"ok", "error"}
  <2>1. LooksSealed(b) => Decode(inner).outcome \in {"ok", "error"}
    BY <1>3, <1>4, DecodeNeverPanics
  <2>2. QED
    BY <1>5, <2>1 DEF Error
<1>7. ASSUME b = full
      PROVE  Unseal(b) = Read(original.store)
  <2>1. LooksSealed(b)
    BY <1>1, <1>7 DEF LooksSealed, Fits, HDR, TAG
  <2>2. Unseal(b) = Decode(inner)
    BY <1>3, <1>7, <2>1 DEF Unseal, inner, full
  <2>3. inner \in Seq(Bytes) /\ Len(inner) = Len(e) /\ \A i \in 1..Len(e) : inner[i] = e[i]
    <3>1. Len(b) - 6 = Len(e) /\ Len(b) >= 6
      BY <1>1, <1>7
    <3>2. QED
      BY <1>1, <1>4, <1>7, <3>1
  <2>4. inner = e
    BY <1>1, <2>3, SeqEqual
  <2>5. QED
    BY <2>2, <2>3, <2>4, DecodeReads DEF e
<1>8. ASSUME IsCut(b, full)
      PROVE  Unseal(b) = Error
  <2>1. SUFFICES ASSUME LooksSealed(b), Tail(b) = Tail(full)
                 PROVE  FALSE
    BY <1>5
  <2>2. b # <<>> /\ full # <<>>
    <3>1. Len(b) >= 6 /\ Len(full) >= 6
      BY <1>1, <1>3, <2>1
    <3>2. QED
      BY <3>1
  <2>3. Len(Tail(b)) = Len(b) - 1 /\ Len(Tail(full)) = Len(full) - 1
    <3> HIDE DEF full
    <3>1. QED
      BY <1>1, <1>2, <2>2, HeadTailProperties
  <2>4. Len(b) < Len(full)
    BY <1>8 DEF IsCut
  <2>5. QED
    BY <1>1, <1>2, <2>1, <2>3, <2>4
<1>9. QED
  BY <1>6, <1>7, <1>8 DEF full

(* decrypt reads what was encrypted, refuses what lost its end, and never panics. *)
LEMMA DecryptReads ==
  ASSUME NEW b \in Seq(Bytes)
  PROVE  /\ Decrypt(b).outcome \in {"ok", "error"}
         /\ b = Encrypted => Decrypt(b) = Read(original.store)
         /\ IsCut(b, Encrypted) => Decrypt(b) = Error
<1>1. Decrypt(b).outcome \in {"ok", "error"}
  <2>1. /\ HeaderFits(b) => Fits(b, 2)
        /\ EncFits(b, U16(b, 0)) => Fits(b, 2 + U16(b, 0))
    BY DEF HeaderFits, EncFits
  <2>2. Error.outcome = "error" /\ Read(original.store).outcome = "ok"
    BY DEF Error, Read
  <2> QED
    BY <2>1, <2>2, Zenon DEF Decrypt
<1>2. /\ Encrypted \in Seq(Bytes) /\ Len(Encrypted) = 8 /\ U16(Encrypted, 0) = 4
      /\ Enc \in Seq(Bytes) /\ Len(Enc) = 4
      /\ \A i \in 1..4 : Encrypted[2 + i] = Enc[i]
      /\ Encrypted[7] = 2 /\ Encrypted[8] = 1
  BY EncryptedBytes
<1>3. ASSUME b = Encrypted
      PROVE  Decrypt(b) = Read(original.store)
  <2> Len(b) = 8
    BY ONLY <1>2, <1>3
  <2>1. Fits(b, 2) /\ Fits(b, 2 + 4)
    BY ONLY Len(b) = 8 DEF Fits
  <2>2. Slice(b, 2, 4) = Enc
    <3>1. 2 \in Nat /\ 4 \in Nat /\ 2 + 4 <= Len(b)
      BY ONLY Len(b) = 8
    <3>2. /\ Slice(b, 2, 4) \in Seq(Bytes) /\ Len(Slice(b, 2, 4)) = 4
          /\ \A i \in 1..4 : Slice(b, 2, 4)[i] = b[2 + i]
      BY <3>1, SliceBytes
    <3>3. \A i \in 1..4 : Slice(b, 2, 4)[i] = Enc[i]
      BY ONLY <1>2, <1>3, <3>2
    <3>4. QED
      BY ONLY <1>2, <3>2, <3>3, SeqEqual
  <2>3. SubSeq(b, 3 + 4, Len(b)) = <<2, 1>>
    <3>1. SubSeq(b, 3 + 4, Len(b)) = Slice(b, 6, 2)
      BY ONLY Len(b) = 8 DEF Slice
    <3>2. 6 \in Nat /\ 2 \in Nat /\ 6 + 2 <= Len(b)
      BY ONLY Len(b) = 8
    <3>3. /\ Slice(b, 6, 2) \in Seq(Bytes) /\ Len(Slice(b, 6, 2)) = 2
          /\ \A i \in 1..2 : Slice(b, 6, 2)[i] = b[6 + i]
      BY <3>2, SliceBytes
    <3>4. Slice(b, 6, 2)[1] = 2 /\ Slice(b, 6, 2)[2] = 1
      <4>1. 1 \in 1..2 /\ 2 \in 1..2 /\ 6 + 1 = 7 /\ 6 + 2 = 8
        OBVIOUS
      <4>2. QED
        BY ONLY <1>2, <1>3, <3>3, <4>1
    <3>5. <<2, 1>> \in Seq(Bytes) /\ Len(<<2, 1>>) = 2 /\ <<2, 1>>[1] = 2 /\ <<2, 1>>[2] = 1
      BY BaseIsPositive DEF Bytes
    <3>6. \A i \in 1..2 : Slice(b, 6, 2)[i] = <<2, 1>>[i]
      BY ONLY <3>4, <3>5
    <3>7. QED
      BY ONLY <3>1, <3>3, <3>5, <3>6, SeqEqual
  <2>4. QED
    BY <1>2, <1>3, <2>1, <2>2, <2>3 DEF Decrypt, HeaderFits, EncFits
<1>4. ASSUME IsCut(b, Encrypted)
      PROVE  Decrypt(b) = Error
  <2>1. Len(b) \in Nat /\ Len(b) < 8 /\ \A i \in 1..Len(b) : b[i] = Encrypted[i]
    BY <1>2, <1>4 DEF IsCut
  <2>2. CASE Len(b) < 2
    BY <2>1, <2>2 DEF Decrypt, HeaderFits, Fits
  <2>3. CASE Len(b) >= 2
    <3>1. U16(b, 0) = 4
      <4>1. 0 + 1 \in 1..Len(b) /\ 0 + 2 \in 1..Len(b)
        BY <2>1, <2>3
      <4>2. QED
        BY ONLY <1>2, <2>1, <4>1 DEF U16
    <3>2. CASE Len(b) < 6
      <4>1. ~Fits(b, 2 + 4)
        BY <2>1, <3>2 DEF Fits
      <4>2. QED
        BY <3>1, <4>1 DEF Decrypt, HeaderFits, EncFits, Fits
    <3>3. CASE Len(b) >= 6
      <4>1. PICK n \in {0, 1} : Len(b) = 6 + n
        <5>1. PICK l \in Nat : l = Len(b)
          BY <2>1, Zenon
        <5>2. l - 6 \in {0, 1} /\ l = 6 + (l - 6)
          BY ONLY <2>1, <3>3, <5>1
        <5>3. QED
          BY ONLY <5>1, <5>2
      <4>2. SubSeq(b, 3 + 4, Len(b)) # <<2, 1>>
        <5>1. SubSeq(b, 3 + 4, Len(b)) = Slice(b, 6, n)
          BY <4>1 DEF Slice
        <5>2. 6 \in Nat /\ n \in Nat /\ 6 + n <= Len(b)
          BY <4>1
        <5>3. Len(Slice(b, 6, n)) = n
          BY <5>2, SliceBytes
        <5>4. Len(<<2, 1>>) = 2 /\ n # 2
          OBVIOUS
        <5>5. QED
          BY ONLY <5>1, <5>3, <5>4, Zenon
      <4>3. QED
        BY <3>1, <4>2 DEF Decrypt, HeaderFits, EncFits, Fits
    <3>4. QED
      BY <2>1, <3>2, <3>3
  <2>4. QED
    BY <2>1, <2>2, <2>3
<1>5. QED
  BY <1>1, <1>3, <1>4

-----------------------------------------------------------------------------
(* The states of the module. *)

Originals ==
  [kind : {"store", "blob"}, store : Stores] \cup {[kind |-> "ct", store |-> NoStore]}

\* What is read is what was written, what is left of it, or bytes at least; and
\* the verdict is the reader's.
LayoutsInv ==
  /\ original \in Originals
  /\ bytes \in Seq(Bytes)
  /\ damage \in Seq({"cut", "extend", "alter"})
  /\ damage = <<>> => bytes = Written[original.kind]
  /\ damage # <<>> /\ damage \in Seq({"cut"}) => IsCut(bytes, Written[original.kind])
  /\ \/ verdict = [outcome |-> "none", store |-> NoStore]
     \/ verdict = Readers[original.kind]

(* The stores of the module are stores decode can be given. *)
LEMMA StoresAreAny == Stores \subseteq AnyStore
<1>1. PublicKeys \subseteq Field /\ PrivateKeys \subseteq Field
  BY LengthAssumption DEF Field, Bytes
<1>2. 1 \in Bytes /\ 2 \in Bytes
  BY BaseIsPositive DEF Bytes
<1>3. StoredKeys(1) \subseteq Keys /\ StoredKeys(2) \subseteq Keys
  BY <1>1, <1>2 DEF StoredKeys, Keys
<1>4. ASSUME NEW k \in StoredKeys(1)
      PROVE  [current_version |-> 1, keys |-> <<k>>] \in AnyStore
  <2>1. <<k>> \in Seq(Keys) /\ Len(<<k>>) = 1
    BY <1>3
  <2>2. QED
    BY <1>2, <2>1, BaseIsPositive DEF AnyStore
<1>5. ASSUME NEW j \in StoredKeys(1), NEW k \in StoredKeys(2)
      PROVE  [current_version |-> 2, keys |-> <<j, k>>] \in AnyStore
  <2>1. <<j, k>> \in Seq(Keys) /\ Len(<<j, k>>) = 2
    BY <1>3
  <2>2. QED
    BY <1>2, <2>1, BaseIsPositive DEF AnyStore
<1>6. QED
  BY <1>4, <1>5 DEF Stores

(* A store was encoded or sealed, or there is a ciphertext. *)
LEMMA OriginalKinds ==
  ASSUME original \in Originals
  PROVE  \/ original.kind \in {"store", "blob"} /\ original.store \in AnyStore
         \/ original.kind = "ct"
BY StoresAreAny DEF Originals

(* Each reader reads what was written, refuses what lost its end, and ends. *)
LEMMA ReadersRead ==
  ASSUME original \in Originals, bytes \in Seq(Bytes)
  PROVE  LET w == Written[original.kind]
             r == Readers[original.kind]
         IN  /\ w \in Seq(Bytes)
             /\ r.outcome \in {"ok", "error"}
             /\ bytes = w => r = Read(original.store)
             /\ IsCut(bytes, w) => r = Error
<1>1. CASE original.kind = "store" /\ original.store \in AnyStore
  <2>1. Written["store"] = Encode(original.store) /\ Readers["store"] = Decode(bytes)
    BY DEF Written, Readers
  <2>2. Encode(original.store) \in Seq(Bytes)
    BY <1>1, EncodedStore
  <2>3. QED
    BY <1>1, <2>1, <2>2, DecodeReads
<1>2. CASE original.kind = "blob" /\ original.store \in AnyStore
  <2>1. Written["blob"] = Seal(original.store) /\ Readers["blob"] = Unseal(bytes)
    BY DEF Written, Readers
  <2>2. Seal(original.store) \in Seq(Bytes)
    BY <1>2, SealedStore
  <2>3. QED
    BY <1>2, <2>1, <2>2, UnsealReads
<1>3. CASE original.kind = "ct"
  <2>1. Written["ct"] = Encrypted /\ Readers["ct"] = Decrypt(bytes)
    BY DEF Written, Readers
  <2>2. QED
    BY <1>3, <2>1, EncryptedBytes, DecryptReads
<1>4. QED
  BY <1>1, <1>2, <1>3, OriginalKinds

(* The invariant holds before any damage. *)
LEMMA InitLayoutsInv ==
  ASSUME Init
  PROVE  LayoutsInv
<1>1. original \in Originals /\ damage = <<>> /\ damage \in Seq({"cut", "extend", "alter"})
      /\ verdict = [outcome |-> "none", store |-> NoStore]
  BY DEF Init, Originals
<1>2. Written[original.kind] \in Seq(Bytes)
  <2>1. CASE original.kind = "store" /\ original.store \in AnyStore
    BY <2>1, EncodedStore DEF Written
  <2>2. CASE original.kind = "blob" /\ original.store \in AnyStore
    BY <2>2, SealedStore DEF Written
  <2>3. CASE original.kind = "ct"
    BY <2>3, EncryptedBytes DEF Written
  <2>4. QED
    BY <1>1, <2>1, <2>2, <2>3, OriginalKinds
<1>3. bytes = Written[original.kind]
  BY DEF Init
<1>4. QED
  BY ONLY <1>1, <1>2, <1>3 DEF LayoutsInv

(* Damage is remembered: only what was cut and nothing else has cuts alone. *)
LEMMA DamageGrows ==
  ASSUME NEW d \in Seq({"cut", "extend", "alter"}), NEW how \in {"cut", "extend", "alter"}
  PROVE  /\ Append(d, how) \in Seq({"cut", "extend", "alter"}) /\ Append(d, how) # <<>>
         /\ Append(d, how) \in Seq({"cut"}) => how = "cut" /\ d \in Seq({"cut"})
<1>1. /\ Append(d, how) \in Seq({"cut", "extend", "alter"}) /\ Append(d, how) # <<>>
      /\ Len(Append(d, how)) = Len(d) + 1
      /\ \A i \in 1..Len(d) : Append(d, how)[i] = d[i]
      /\ Append(d, how)[Len(d) + 1] = how
  BY AppendProperties
<1>2. ASSUME Append(d, how) \in Seq({"cut"})
      PROVE  how = "cut" /\ d \in Seq({"cut"})
  <2>1. Len(d) \in Nat
    OBVIOUS
  <2>2. \A i \in 1..Len(d) + 1 : Append(d, how)[i] \in {"cut"}
    BY <1>1, <1>2, ElementOfSeq
  <2>3. Len(d) + 1 \in 1..Len(d) + 1 /\ \A i \in 1..Len(d) : i \in 1..Len(d) + 1
    BY <2>1
  <2>4. how = "cut" /\ \A i \in 1..Len(d) : d[i] \in {"cut"}
    BY ONLY <1>1, <2>2, <2>3
  <2>5. d = [i \in 1..Len(d) |-> d[i]]
    OBVIOUS
  <2>6. [i \in 1..Len(d) |-> d[i]] \in Seq({"cut"})
    BY <2>1, <2>4, IsASeq
  <2>7. QED
    BY <2>4, <2>5, <2>6
<1>3. QED
  BY <1>1, <1>2

(* A cut leaves a proper beginning of what was there. *)
LEMMA CutKeepsInv ==
  ASSUME LayoutsInv, Cut
  PROVE  LayoutsInv'
<1>1. /\ original' = original /\ verdict' = verdict /\ verdict.outcome = "none"
      /\ damage' = Append(damage, "cut")
  BY DEF Cut, MayDamage
<1>2. PICK n \in 0..Len(bytes) - 1 : bytes' = SubSeq(bytes, 1, n)
  BY DEF Cut
<1>3. original \in Originals /\ bytes \in Seq(Bytes) /\ Len(bytes) \in Nat
  BY DEF LayoutsInv
<1>4. bytes' \in Seq(Bytes) /\ Len(bytes') = n /\ \A i \in 1..n : bytes'[i] = bytes[i]
  <2>1. 0 \in Nat /\ n \in Nat /\ 0 + n <= Len(bytes) /\ 0 + 1 = 1 /\ 0 + n = n
        /\ \A i \in 1..n : 0 + i = i
    BY <1>3
  <2>2. /\ Slice(bytes, 0, n) \in Seq(Bytes) /\ Len(Slice(bytes, 0, n)) = n
        /\ \A i \in 1..n : Slice(bytes, 0, n)[i] = bytes[0 + i]
    BY <1>3, <2>1, SliceBytes
  <2>3. bytes' = Slice(bytes, 0, n)
    BY <1>2, <2>1 DEF Slice
  <2>4. QED
    BY ONLY <2>1, <2>2, <2>3
<1> DEFINE w == Written[original.kind]
<1>5. w' = w
  BY <1>1 DEF Written, Encrypted
<1>6. w \in Seq(Bytes)
  BY <1>3, ReadersRead
<1>7. /\ damage' \in Seq({"cut", "extend", "alter"}) /\ damage' # <<>>
      /\ damage' \in Seq({"cut"}) => damage \in Seq({"cut"})
  BY <1>1, DamageGrows DEF LayoutsInv
<1>8. ASSUME damage \in Seq({"cut"})
      PROVE  IsCut(bytes', w)
  <2>1. bytes = w \/ IsCut(bytes, w)
    BY <1>8 DEF LayoutsInv
  <2> HIDE DEF w
  <2>2. Len(w) \in Nat /\ n < Len(bytes) /\ \A i \in 1..n : i \in 1..Len(bytes)
    BY <1>3, <1>6
  <2>3. Len(bytes) <= Len(w) /\ \A i \in 1..Len(bytes) : bytes[i] = w[i]
    BY <1>3, <2>1, <2>2 DEF IsCut
  <2>4. n < Len(w)
    BY <1>3, <2>2, <2>3
  <2>5. QED
    BY ONLY <1>4, <2>2, <2>3, <2>4 DEF IsCut
<1>9. verdict' = [outcome |-> "none", store |-> NoStore]
  <2>1. Readers[original.kind].outcome # "none"
    BY <1>3, ReadersRead
  <2>2. QED
    BY <1>1, <2>1 DEF LayoutsInv
<1>10. /\ damage' = <<>> => bytes' = w'
       /\ damage' # <<>> /\ damage' \in Seq({"cut"}) => IsCut(bytes', w')
  BY <1>5, <1>7, <1>8
<1>11. original' \in Originals'
  BY <1>1, <1>3 DEF Originals
<1>12. QED
  BY ONLY <1>4, <1>7, <1>9, <1>10, <1>11 DEF LayoutsInv, NoStore, Bytes

(* Any other damage leaves bytes. *)
LEMMA DamageKeepsInv ==
  ASSUME LayoutsInv, NEW how \in {"extend", "alter"}, MayDamage(how), bytes' \in Seq(Bytes)
  PROVE  LayoutsInv'
<1>1. /\ original' = original /\ verdict' = verdict /\ verdict.outcome = "none"
      /\ damage' = Append(damage, how)
  BY DEF MayDamage
<1>2. original \in Originals /\ bytes \in Seq(Bytes)
  BY DEF LayoutsInv
<1>3. /\ damage' \in Seq({"cut", "extend", "alter"}) /\ damage' # <<>>
      /\ damage' \notin Seq({"cut"})
  BY <1>1, DamageGrows DEF LayoutsInv
<1>4. verdict' = [outcome |-> "none", store |-> NoStore]
  <2>1. Readers[original.kind].outcome # "none"
    BY <1>2, ReadersRead
  <2>2. QED
    BY <1>1, <2>1 DEF LayoutsInv
<1>5. original' \in Originals'
  BY <1>1, <1>2 DEF Originals
<1>6. bytes' \in Seq(Bytes)
  OBVIOUS
<1>7. QED
  BY ONLY <1>3, <1>4, <1>5, <1>6 DEF LayoutsInv, NoStore, Bytes

(* A reader changes nothing but the verdict. *)
LEMMA ReadBackKeepsInv ==
  ASSUME LayoutsInv, ReadBack
  PROVE  LayoutsInv'
<1>1. /\ original' = original /\ bytes' = bytes /\ damage' = damage
      /\ verdict' = Readers[original.kind]
  BY DEF ReadBack
<1>2. Written' = Written /\ Readers' = Readers
  BY <1>1 DEF Written, Readers, Encrypted, Decode, Unseal, Decrypt
<1>3. verdict' = Readers'[original'.kind]
  BY <1>1, <1>2
<1>4. /\ bytes' \in Seq(Bytes) /\ original' \in Originals'
      /\ damage' \in Seq({"cut", "extend", "alter"})
      /\ damage' = <<>> => bytes' = Written'[original'.kind]
      /\ damage' # <<>> /\ damage' \in Seq({"cut"}) => IsCut(bytes', Written'[original'.kind])
  BY <1>1, <1>2 DEF LayoutsInv, Originals
<1>5. QED
  BY ONLY <1>3, <1>4 DEF LayoutsInv, Bytes

(* Every step keeps the invariant. *)
LEMMA NextLayoutsInv ==
  ASSUME LayoutsInv, [Next]_vars
  PROVE  LayoutsInv'
<1>1. CASE Cut
  BY <1>1, CutKeepsInv
<1>2. CASE Extend
  <2>1. bytes \in Seq(Bytes)
    BY DEF LayoutsInv
  <2>2. bytes' \in Seq(Bytes) /\ MayDamage("extend")
    BY <1>2, <2>1, AppendProperties DEF Extend
  <2>3. QED
    BY <2>2, DamageKeepsInv
<1>3. CASE Alter
  <2>1. bytes \in Seq(Bytes) /\ DOMAIN bytes = 1..Len(bytes)
    BY DEF LayoutsInv
  <2>2. PICK i \in 1..Len(bytes), b \in Bytes : bytes' = [bytes EXCEPT ![i] = b]
    BY <1>3, <2>1 DEF Alter
  <2>3. bytes' \in Seq(Bytes) /\ MayDamage("alter")
    BY <1>3, <2>1, <2>2, ExceptSeq DEF Alter
  <2>4. QED
    BY <2>3, DamageKeepsInv
<1>4. CASE ReadBack
  BY <1>4, ReadBackKeepsInv
<1>5. CASE UNCHANGED vars
  <2>1. original' = original /\ bytes' = bytes /\ damage' = damage /\ verdict' = verdict
    BY <1>5 DEF vars
  <2>2. Written' = Written /\ Readers' = Readers
    BY <2>1 DEF Written, Readers, Encrypted, Decode, Unseal, Decrypt
  <2>3. /\ bytes' \in Seq(Bytes) /\ original' \in Originals'
        /\ damage' \in Seq({"cut", "extend", "alter"})
        /\ damage' = <<>> => bytes' = Written'[original'.kind]
        /\ damage' # <<>> /\ damage' \in Seq({"cut"}) => IsCut(bytes', Written'[original'.kind])
        /\ \/ verdict' = [outcome |-> "none", store |-> NoStore]
           \/ verdict' = Readers'[original'.kind]
    BY <2>1, <2>2 DEF LayoutsInv, Originals
  <2>4. QED
    BY ONLY <2>3 DEF LayoutsInv, Bytes, NoStore
<1>6. QED
  BY <1>1, <1>2, <1>3, <1>4, <1>5 DEF Next

(* The bytes read are what was written, what is left of it, or damaged bytes,
   and the verdict is what the reader makes of them, in every state. *)
THEOREM LayoutsInvariant == Spec => []LayoutsInv
<1>1. Init => LayoutsInv
  BY InitLayoutsInv
<1>2. LayoutsInv /\ [Next]_vars => LayoutsInv'
  BY NextLayoutsInv
<1>3. QED
  BY <1>1, <1>2, PTL DEF Spec

-----------------------------------------------------------------------------
(* What the readers promise. *)

(* A verdict is what the reader makes of the bytes. *)
LEMMA VerdictOfReader ==
  ASSUME LayoutsInv, verdict.outcome # "none"
  PROVE  /\ verdict = Readers[original.kind]
         /\ verdict.outcome \in {"ok", "error"}
         /\ damage = <<>> => verdict = Read(original.store)
         /\ damage # <<>> /\ damage \in Seq({"cut"}) => verdict = Error
<1>1. verdict = Readers[original.kind] /\ original \in Originals /\ bytes \in Seq(Bytes)
  BY DEF LayoutsInv
<1>2. QED
  BY <1>1, ReadersRead DEF LayoutsInv

(* decode, unseal and decrypt never index past the end of what they are given,
   for any keys, any bytes and any number of damages. *)
THEOREM ReadersNeverPanic == Spec => []NeverPanics
<1>1. LayoutsInv => NeverPanics
  <2>1. ASSUME LayoutsInv
        PROVE  verdict.outcome # "panic"
    <3>1. CASE verdict.outcome = "none"
      BY <3>1
    <3>2. CASE verdict.outcome # "none"
      BY <2>1, <3>2, VerdictOfReader
    <3>3. QED
      BY <3>1, <3>2
  <2>2. QED
    BY <2>1 DEF NeverPanics
<1>2. QED
  BY <1>1, LayoutsInvariant, PTL

(* What was not damaged is read as it was written, and what lost its end, at
   whatever byte and however often, is refused. *)
THEOREM ReadersReadWholeOrNothing == Spec => []WholeOrNothing
<1>1. LayoutsInv => WholeOrNothing
  <2>1. SUFFICES ASSUME LayoutsInv, verdict.outcome # "none"
                 PROVE  /\ damage = <<>> => verdict = Read(original.store)
                        /\ damage # <<>> /\ Range(damage) = {"cut"} => verdict = Error
    BY DEF WholeOrNothing
  <2>2. ASSUME Range(damage) = {"cut"}
        PROVE  damage \in Seq({"cut"})
    <3>1. damage \in Seq({"cut", "extend", "alter"})
      BY <2>1 DEF LayoutsInv
    <3>2. damage \in Seq(Range(damage))
      BY <3>1, SeqOfRange
    <3>3. QED
      BY <2>2, <3>2
  <2>3. QED
    BY <2>1, <2>2, VerdictOfReader
<1>2. QED
  BY <1>1, LayoutsInvariant, PTL

(* The store decode returns stands, as encode writes it, at the beginning of the
   bytes it read, whatever those bytes are. *)
THEOREM DecodeMakesNothingUp == Spec => []DecodedIsWritten
<1>1. LayoutsInv => DecodedIsWritten
  <2>1. SUFFICES ASSUME LayoutsInv, original.kind = "store", verdict.outcome = "ok"
                 PROVE  IsPrefix(Encode(verdict.store), bytes)
    BY DEF DecodedIsWritten
  <2>2. verdict = Decode(bytes) /\ bytes \in Seq(Bytes)
    BY <2>1, VerdictOfReader DEF LayoutsInv, Readers
  <2>3. QED
    BY <2>1, <2>2, DecodedStands
<1>2. QED
  BY <1>1, LayoutsInvariant, PTL
=============================================================================
