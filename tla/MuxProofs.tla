------------------------------ MODULE MuxProofs ------------------------------
(***************************************************************************)
(* Proofs about Mux: at any time the connection is in one phase of one     *)
(* conversation, and therefore pieces of a frame are under way on one leg  *)
(* only, and the two legs relay what was sent in order (Relay).            *)
(***************************************************************************)
EXTENDS Mux, SequenceTheorems, TLAPS

Ids == 0..MaxRequests

Requests      == [kind : {"request"}, id : 1..MaxRequests]
Calling       == [kind : {"call"}, id : Ids]
Announcements == [kind : {"announce"}, id : Ids]
Replies       == [kind : {"reply"}, id : Ids]

AnyFrame == Requests \cup Calling \cup Announcements \cup Replies
Piece    == [part : {"prefix", "body"}, of : AnyFrame]

Prefix(frame) == [part |-> "prefix", of |-> frame]
Body(frame)   == [part |-> "body", of |-> frame]

LegType ==
  /\ unsent \in [Legs -> Seq(Piece)]
  /\ stream \in [Legs -> Seq(Piece)]
  /\ partial \in [Legs -> AnyFrame \cup {NoFrame}]

\* The pieces on a leg that the loop has not taken.
Way(leg) == stream[leg] \o unsent[leg]

\* No frame, one frame, or one frame followed by another is under way on a leg.
Clear(leg) == partial[leg] = NoFrame /\ Way(leg) = <<>>

One(leg, f) ==
  \/ partial[leg] = NoFrame /\ Way(leg) = <<Prefix(f), Body(f)>>
  \/ partial[leg] = f /\ Way(leg) = <<Body(f)>>

Two(leg, f, g) ==
  \/ partial[leg] = NoFrame /\ Way(leg) = <<Prefix(f), Body(f), Prefix(g), Body(g)>>
  \/ partial[leg] = f /\ Way(leg) = <<Body(f), Prefix(g), Body(g)>>

\* What the enclave has yet to write: calls, perhaps an announcement, a reply.
Scripted(s) ==
  /\ s \in Seq(AnyFrame) /\ s # <<>>
  /\ s[Len(s)] \in Replies
  /\ \A i \in 1..(Len(s) - 1) :
       s[i] \in Calling \/ (i = Len(s) - 1 /\ s[i] \in Announcements)

-----------------------------------------------------------------------------
(* The phases of a conversation.                                           *)

\* One end has read a frame.
HeardRequest(f) == gotRequests' = Append(gotRequests, f) /\ UNCHANGED gotAnswers
HeardAnswer(f)  == gotAnswers' = Append(gotAnswers, f) /\ UNCHANGED gotRequests

\* The enclave waits for a request and there is none.
Quiet ==
  /\ open /\ exchange = "idle" /\ enclave = "reading" /\ script = <<>>
  /\ Clear("host") /\ Clear("enclave")
  /\ taken = NoFrame /\ toHost = <<>> /\ toEnclave = <<>>

\* Request r is on the host's leg, in the loop, or written to the enclave.
Requested(r) ==
  /\ open /\ exchange = "awaiting" /\ enclave = "reading" /\ script = <<>>
  /\ r \in Requests
  /\ Clear("enclave") /\ toHost = <<>>
  /\ \/ One("host", r) /\ taken = NoFrame /\ toEnclave = <<>>
     \/ Clear("host") /\ taken = r /\ toEnclave = <<>>
     \/ Clear("host") /\ taken = NoFrame /\ toEnclave = <<r>>

\* The enclave works on a request or boots.
Working ==
  /\ open /\ exchange = "awaiting" /\ enclave = "busy" /\ Scripted(script)
  /\ Clear("host") /\ Clear("enclave")
  /\ taken = NoFrame /\ toHost = <<>> /\ toEnclave = <<>>

\* Call c is on the enclave's leg, in the loop, or its result is written.
Called(c) ==
  /\ open /\ exchange = "awaiting" /\ enclave = "calling" /\ Scripted(script)
  /\ c \in Calling
  /\ Clear("host") /\ toHost = <<>>
  /\ \/ One("enclave", c) /\ taken = NoFrame /\ toEnclave = <<>>
     \/ Clear("enclave") /\ taken = c /\ toEnclave = <<>>
     \/ Clear("enclave") /\ taken = NoFrame /\ toEnclave = <<Frame("result", c.id)>>

\* Announcement a is on its way to the host, the reply is yet to be written.
Announced(a) ==
  /\ open /\ exchange = "awaiting" /\ enclave = "busy" /\ Scripted(script) /\ Len(script) = 1
  /\ a \in Announcements
  /\ Clear("host") /\ toEnclave = <<>>
  /\ \/ One("enclave", a) /\ taken = NoFrame /\ toHost = <<>>
     \/ Clear("enclave") /\ taken = a /\ toHost = <<>>
     \/ Clear("enclave") /\ taken = NoFrame /\ toHost = <<a>>

\* The host has yet to read announcement a and reply g.
Announcing(a, g) ==
  /\ open /\ exchange = "awaiting" /\ enclave = "reading" /\ script = <<>>
  /\ a \in Announcements /\ g \in Replies
  /\ Clear("host") /\ toEnclave = <<>>
  /\ \/ Two("enclave", a, g) /\ taken = NoFrame /\ toHost = <<>>
     \/ One("enclave", g) /\ taken = a /\ toHost = <<>>
     \/ One("enclave", g) /\ taken = NoFrame /\ toHost = <<a>>
     \/ Clear("enclave") /\ taken = g /\ toHost = <<a>>
     \/ Clear("enclave") /\ taken = NoFrame /\ toHost = <<a, g>>

\* Reply g is on its way to the host.
Replied(g) ==
  /\ open /\ exchange = "awaiting" /\ enclave = "reading" /\ script = <<>>
  /\ g \in Replies
  /\ Clear("host") /\ toEnclave = <<>>
  /\ \/ One("enclave", g) /\ taken = NoFrame /\ toHost = <<>>
     \/ Clear("enclave") /\ taken = g /\ toHost = <<>>
     \/ Clear("enclave") /\ taken = NoFrame /\ toHost = <<g>>

\* The loop has ended; the host may still read what was written to it.
Closed ==
  /\ ~open /\ exchange \in {"idle", "awaiting", "closed"} /\ enclave = "ended" /\ script = <<>>
  /\ Clear("host") /\ Clear("enclave")
  /\ taken = NoFrame /\ toHost \in Seq(Announcements \cup Replies) /\ toEnclave = <<>>

Phase ==
  \/ Quiet
  \/ \E r \in Requests : Requested(r)
  \/ Working
  \/ \E c \in Calling : Called(c)
  \/ \E a \in Announcements : Announced(a)
  \/ \E a \in Announcements, g \in Replies : Announcing(a, g)
  \/ \E g \in Replies : Replied(g)
  \/ Closed

MuxInv == LegType /\ open \in BOOLEAN /\ next_id \in Ids /\ Phase

-----------------------------------------------------------------------------
(* Sequences of pieces.                                                    *)

\* Announcement and reply, in the order in which they are written.
LEMMA AnswerTuples ==
  ASSUME NEW a \in Announcements \cup Replies, NEW g \in Announcements \cup Replies
  PROVE  {<<>>, <<a>>, <<a, g>>} \subseteq Seq(Announcements \cup Replies)
<1> DEFINE S == Announcements \cup Replies
<1>1. a \in S /\ g \in S
  OBVIOUS
<1> HIDE DEF S
<1>2. <<>> \in Seq(S) /\ <<a>> \in Seq(S) /\ <<a, g>> \in Seq(S)
  BY <1>1
<1> QED
  BY <1>2 DEF S

\* A pair is a sequence of one appended to.
LEMMA AppendToTuple ==
  ASSUME NEW a, NEW b
  PROVE  Append(<<a>>, b) = <<a, b>>
<1> DEFINE s == Append(<<a>>, b)
           t == <<a, b>>
<1>1. s \in Seq({a, b}) /\ Len(s) = 2 /\ s[1] = a /\ s[2] = b
  OBVIOUS
<1>2. t \in Seq({a, b}) /\ Len(t) = 2 /\ t[1] = a /\ t[2] = b
  OBVIOUS
<1> HIDE DEF s, t
<1>3. \A i \in 1..Len(s) : s[i] = t[i]
  BY <1>1, <1>2
<1> QED
  BY <1>1, <1>2, <1>3, SeqEqual DEF s, t

\* A write that reaches the socket moves a piece and keeps the order.
LEMMA ConcatFlush ==
  ASSUME NEW s \in Seq(Piece), NEW u \in Seq(Piece), u # <<>>
  PROVE  /\ Append(s, Head(u)) \in Seq(Piece) /\ Tail(u) \in Seq(Piece)
         /\ Append(s, Head(u)) \o Tail(u) = s \o u
<1> DEFINE x == Append(s, Head(u))
           y == Tail(u)
<1>1. /\ x \in Seq(Piece) /\ Len(x) = Len(s) + 1
      /\ \A i \in 1..Len(s) : x[i] = s[i]
      /\ x[Len(s) + 1] = u[1]
  BY AppendProperties, HeadTailProperties
<1>2. /\ y \in Seq(Piece) /\ Len(y) = Len(u) - 1
      /\ \A i \in 1..Len(y) : y[i] = u[i + 1]
  BY HeadTailProperties
<1>3. Len(s) \in Nat /\ Len(u) \in Nat /\ Len(u) >= 1
  OBVIOUS
<1> HIDE DEF x, y
<1>4. /\ x \o y \in Seq(Piece) /\ Len(x \o y) = Len(s) + Len(u)
      /\ \A i \in 1..(Len(s) + Len(u)) :
           (x \o y)[i] = IF i <= Len(s) + 1 THEN x[i] ELSE y[i - (Len(s) + 1)]
  <2>1. Len(x) + Len(y) = Len(s) + Len(u)
    BY <1>1, <1>2, <1>3
  <2>2. /\ x \o y \in Seq(Piece) /\ Len(x \o y) = Len(x) + Len(y)
        /\ \A i \in 1..(Len(x) + Len(y)) :
             (x \o y)[i] = IF i <= Len(x) THEN x[i] ELSE y[i - Len(x)]
    BY <1>1, <1>2, ConcatProperties
  <2> QED
    BY <1>1, <2>1, <2>2
<1>5. /\ s \o u \in Seq(Piece) /\ Len(s \o u) = Len(s) + Len(u)
      /\ \A i \in 1..(Len(s) + Len(u)) :
           (s \o u)[i] = IF i <= Len(s) THEN s[i] ELSE u[i - Len(s)]
  BY ConcatProperties
<1>6. ASSUME NEW i \in 1..(Len(s) + Len(u)) PROVE (x \o y)[i] = (s \o u)[i]
  <2>1. CASE i <= Len(s)
    BY <1>1, <1>3, <1>4, <1>5, <2>1
  <2>2. CASE i = Len(s) + 1
    BY <1>1, <1>3, <1>4, <1>5, <2>2
  <2>3. CASE i > Len(s) + 1
    <3>1. i - (Len(s) + 1) \in 1..Len(y)
      BY <1>2, <1>3, <2>3
    <3>2. (x \o y)[i] = y[i - (Len(s) + 1)]
      BY <1>3, <1>4, <2>3
    <3>3. (s \o u)[i] = u[i - Len(s)]
      BY <1>3, <1>5, <2>3
    <3>4. i - (Len(s) + 1) + 1 = i - Len(s)
      BY <1>3
    <3> QED
      BY <1>2, <3>1, <3>2, <3>3, <3>4
  <2>4. i <= Len(s) \/ i = Len(s) + 1 \/ i > Len(s) + 1
    BY <1>3
  <2> QED
    BY <2>1, <2>2, <2>3, <2>4
<1>7. x \o y = s \o u
  BY <1>4, <1>5, <1>6, SeqEqual
<1> QED
  BY <1>1, <1>2, <1>7 DEF x, y

\* A read takes the first of the pieces on the way.
LEMMA ConcatRead ==
  ASSUME NEW s \in Seq(Piece), NEW u \in Seq(Piece)
  PROVE  /\ s \o u \in Seq(Piece)
         /\ s \o u = <<>> <=> s = <<>> /\ u = <<>>
         /\ s # <<>> => /\ Tail(s) \in Seq(Piece)
                        /\ Head(s \o u) = Head(s)
                        /\ Tail(s \o u) = Tail(s) \o u
<1>1. /\ s \o u \in Seq(Piece) /\ Len(s \o u) = Len(s) + Len(u)
      /\ \A i \in 1..(Len(s) + Len(u)) :
           (s \o u)[i] = IF i <= Len(s) THEN s[i] ELSE u[i - Len(s)]
  BY ConcatProperties
<1>2. s \o u = <<>> <=> s = <<>> /\ u = <<>>
  BY <1>1
<1>3. ASSUME s # <<>>
      PROVE  /\ Tail(s) \in Seq(Piece)
             /\ Head(s \o u) = Head(s)
             /\ Tail(s \o u) = Tail(s) \o u
  <2> DEFINE w == s \o u
             x == Tail(w)
             y == Tail(s)
  <2>1. Len(s) \in Nat /\ Len(u) \in Nat /\ Len(s) >= 1
    BY <1>3
  <2>2. w # <<>>
    BY <1>2, <1>3
  <2>3. /\ x \in Seq(Piece) /\ Len(x) = Len(s) + Len(u) - 1
        /\ \A i \in 1..Len(x) : x[i] = w[i + 1]
    BY <1>1, <2>2, HeadTailProperties
  <2>4. /\ y \in Seq(Piece) /\ Len(y) = Len(s) - 1
        /\ \A i \in 1..Len(y) : y[i] = s[i + 1]
    BY <1>3, HeadTailProperties
  <2>5. Head(w) = Head(s)
    BY <1>1, <1>3, <2>1, <2>2
  <2> HIDE DEF x, y, w
  <2>6. /\ y \o u \in Seq(Piece) /\ Len(y \o u) = Len(s) - 1 + Len(u)
        /\ \A i \in 1..(Len(s) - 1 + Len(u)) :
             (y \o u)[i] = IF i <= Len(s) - 1 THEN y[i] ELSE u[i - (Len(s) - 1)]
    <3>1. /\ y \o u \in Seq(Piece) /\ Len(y \o u) = Len(y) + Len(u)
          /\ \A i \in 1..(Len(y) + Len(u)) :
               (y \o u)[i] = IF i <= Len(y) THEN y[i] ELSE u[i - Len(y)]
      BY <2>4, ConcatProperties
    <3> QED
      BY <2>4, <3>1
  <2>7. ASSUME NEW i \in 1..Len(x) PROVE x[i] = (y \o u)[i]
    <3>1. x[i] = IF i + 1 <= Len(s) THEN s[i + 1] ELSE u[i + 1 - Len(s)]
      BY <1>1, <2>1, <2>3 DEF w
    <3>2. i + 1 - Len(s) = i - (Len(s) - 1)
      BY <2>1
    <3> QED
      BY <2>1, <2>3, <2>4, <2>6, <3>1, <3>2
  <2>8. x = y \o u
    <3>1. Len(x) = Len(y \o u)
      BY <2>1, <2>3, <2>6
    <3> QED
      BY <2>3, <2>6, <2>7, <3>1, SeqEqual
  <2> QED
    BY <2>4, <2>5, <2>8 DEF x, y, w
<1> QED
  BY <1>1, <1>2, <1>3

-----------------------------------------------------------------------------
(* Steps on a leg.                                                         *)

\* Kinds tell frames apart.
LEMMA FrameKinds ==
  /\ NoFrame \notin AnyFrame
  /\ \A r \in Requests : r.kind = "request" /\ r \in AnyFrame
  /\ \A c \in Calling : c.kind = "call" /\ c \in AnyFrame
  /\ \A a \in Announcements : a.kind = "announce" /\ a \in AnyFrame
  /\ \A g \in Replies : g.kind = "reply" /\ g \in AnyFrame
BY BoundAssumption DEF NoFrame, Frame, AnyFrame, Requests, Calling, Announcements, Replies, Ids

\* A frame is cut into pieces.
LEMMA PiecesOf ==
  ASSUME NEW f \in AnyFrame
  PROVE  /\ Prefix(f) \in Piece /\ Body(f) \in Piece
         /\ Pieces(f) = <<Prefix(f), Body(f)>> /\ Pieces(f) \in Seq(Piece)
         /\ Prefix(f).part = "prefix" /\ Prefix(f).of = f
         /\ Body(f).part = "body" /\ Body(f).of = f
<1>1. Prefix(f) \in Piece /\ Body(f) \in Piece
  BY DEF Prefix, Body, Piece
<1>2. Pieces(f) = <<Prefix(f), Body(f)>>
  BY DEF Pieces, Prefix, Body
<1> QED
  BY <1>1, <1>2 DEF Prefix, Body

\* A frame is written after what is left of another one.
LEMMA ConcatPieces ==
  ASSUME NEW s \in Seq(Piece), NEW f \in AnyFrame, NEW g \in AnyFrame
  PROVE  /\ s = <<Prefix(f), Body(f)>> =>
              s \o Pieces(g) = <<Prefix(f), Body(f), Prefix(g), Body(g)>>
         /\ s = <<Body(f)>> => s \o Pieces(g) = <<Body(f), Prefix(g), Body(g)>>
<1> DEFINE t == Pieces(g)
           u == s \o t
           a == Prefix(f)
           b == Body(f)
           c == Prefix(g)
           d == Body(g)
           three == <<b, c, d>>
           four == <<a, b, c, d>>
<1>1. /\ a \in Piece /\ b \in Piece /\ c \in Piece /\ d \in Piece
      /\ t \in Seq(Piece) /\ t = <<c, d>>
  BY PiecesOf
<1> HIDE DEF a, b, c, d, t
<1>2. /\ u \in Seq(Piece)
      /\ Len(u) = Len(s) + 2
      /\ \A i \in 1..(Len(s) + 2) : u[i] = IF i <= Len(s) THEN s[i] ELSE t[i - Len(s)]
  <2>1. /\ u \in Seq(Piece)
        /\ Len(u) = Len(s) + Len(t)
        /\ \A i \in 1..(Len(s) + Len(t)) :
             u[i] = IF i <= Len(s) THEN s[i] ELSE t[i - Len(s)]
    BY <1>1, ConcatProperties
  <2> QED
    BY <1>1, <2>1
<1>3. t[1] = c /\ t[2] = d
  BY <1>1
<1> HIDE DEF u
<1>4. ASSUME s = <<b>> PROVE u = three
  <2>1. /\ three \in Seq(Piece) /\ Len(three) = 3
        /\ three[1] = b /\ three[2] = c /\ three[3] = d
    BY <1>1
  <2>2. Len(s) = 1 /\ s[1] = b
    BY <1>4
  <2>3. Len(u) = 3 /\ u[1] = b /\ u[2] = c /\ u[3] = d
    BY <1>2, <1>3, <2>2
  <2> HIDE DEF three
  <2>4. \A i \in 1..Len(u) : u[i] = three[i]
    BY <2>1, <2>3
  <2> QED
    BY <1>2, <2>1, <2>3, <2>4, SeqEqual
<1>5. ASSUME s = <<a, b>> PROVE u = four
  <2>1. /\ four \in Seq(Piece) /\ Len(four) = 4
        /\ four[1] = a /\ four[2] = b /\ four[3] = c /\ four[4] = d
    BY <1>1
  <2>2. Len(s) = 2 /\ s[1] = a /\ s[2] = b
    BY <1>5
  <2>3. Len(u) = 4 /\ u[1] = a /\ u[2] = b /\ u[3] = c /\ u[4] = d
    BY <1>2, <1>3, <2>2
  <2> HIDE DEF four
  <2>4. \A i \in 1..Len(u) : u[i] = four[i]
    BY <2>1, <2>3
  <2> QED
    BY <1>2, <2>1, <2>3, <2>4, SeqEqual
<1> QED
  BY <1>4, <1>5 DEF u, t, a, b, c, d

\* On a clear leg nothing waits to be written or read.
LEMMA ClearLeg ==
  ASSUME LegType, NEW leg \in Legs, Clear(leg)
  PROVE  partial[leg] = NoFrame /\ stream[leg] = <<>> /\ unsent[leg] = <<>>
<1>1. stream[leg] \in Seq(Piece) /\ unsent[leg] \in Seq(Piece)
  BY DEF LegType
<1> QED
  BY <1>1, ConcatRead DEF Clear, Way

\* A write to a socket changes nothing that a phase speaks of.
LEMMA FlushKeeps ==
  ASSUME LegType, NEW leg \in Legs, Flush(leg)
  PROVE  /\ LegType'
         /\ \A l \in Legs : Way(l)' = Way(l)
         /\ UNCHANGED <<ends, partial, taken, outputs>>
<1>1. unsent[leg] \in Seq(Piece) /\ stream[leg] \in Seq(Piece) /\ unsent[leg] # <<>>
  BY DEF LegType, Flush
<1>2. /\ Append(stream[leg], Head(unsent[leg])) \in Seq(Piece) /\ Tail(unsent[leg]) \in Seq(Piece)
      /\ Append(stream[leg], Head(unsent[leg])) \o Tail(unsent[leg]) = stream[leg] \o unsent[leg]
  BY <1>1, ConcatFlush
<1>3. /\ stream' = [stream EXCEPT ![leg] = Append(stream[leg], Head(unsent[leg]))]
      /\ unsent' = [unsent EXCEPT ![leg] = Tail(unsent[leg])]
      /\ UNCHANGED <<ends, partial, taken, outputs>>
  BY DEF Flush
<1>4. LegType'
  BY <1>2, <1>3 DEF LegType
<1>5. ASSUME NEW l \in Legs PROVE Way(l)' = Way(l)
  <2>1. CASE l = leg
    <3>1. stream'[leg] = Append(stream[leg], Head(unsent[leg])) /\ unsent'[leg] = Tail(unsent[leg])
      BY <1>3 DEF LegType
    <3> QED
      BY <1>2, <2>1, <3>1 DEF Way
  <2>2. CASE l # leg
    <3>1. stream'[l] = stream[l] /\ unsent'[l] = unsent[l]
      BY <1>3, <2>2 DEF LegType
    <3> QED
      BY <3>1 DEF Way
  <2> QED
    BY <2>1, <2>2
<1> QED
  BY <1>3, <1>4, <1>5

\* ... nor what is under way on a leg.
LEMMA FlushShapes ==
  ASSUME LegType, NEW leg \in Legs, Flush(leg)
  PROVE  /\ LegType'
         /\ \A l \in Legs : Clear(l) => Clear(l)'
         /\ \A l \in Legs, f \in AnyFrame : One(l, f) => One(l, f)'
         /\ \A l \in Legs, f \in AnyFrame, g \in AnyFrame : Two(l, f, g) => Two(l, f, g)'
         /\ UNCHANGED <<open, exchange, enclave, script, got, taken, toHost, toEnclave>>
<1>1. /\ LegType'
      /\ \A l \in Legs : Way(l)' = Way(l)
      /\ UNCHANGED <<ends, partial, taken, outputs>>
  BY FlushKeeps
<1> QED
  BY <1>1 DEF Clear, One, Two, ends, outputs

\* A read that takes a piece takes the first one on the way; a body is only
\* taken after its prefix.
LEMMA ReadPiece ==
  ASSUME LegType, NEW leg \in Legs, NEW other \in Legs, leg # other, Clear(other),
         ReadOn(leg), NEW piece \in Piece, Way(leg) # <<>> => piece = Head(Way(leg)),
         piece.part = "body" => partial[leg] # NoFrame
  PROVE  /\ Way(leg) # <<>>
         /\ LegType'
         /\ Clear(other)'
         /\ Way(leg)' = Tail(Way(leg))
         /\ UNCHANGED <<ends, outputs>>
         /\ IF piece.part = "prefix"
              THEN partial'[leg] = piece.of /\ taken' = NoFrame
              ELSE partial'[leg] = NoFrame /\ taken' = piece.of
<1>1. stream[leg] \in Seq(Piece) /\ unsent[leg] \in Seq(Piece) /\ stream[leg] # <<>>
  BY DEF LegType, ReadOn
<1>2. /\ Way(leg) # <<>>
      /\ Tail(stream[leg]) \in Seq(Piece)
      /\ Head(Way(leg)) = Head(stream[leg])
      /\ Tail(Way(leg)) = Tail(stream[leg]) \o unsent[leg]
  BY <1>1, ConcatRead DEF Way
<1>3. piece = Head(stream[leg]) /\ ~(piece.part = "body" /\ partial[leg] = NoFrame)
  BY <1>2
<1>4. /\ taken = NoFrame
      /\ stream' = [stream EXCEPT ![leg] = Tail(stream[leg])]
      /\ IF piece.part = "prefix"
           THEN partial' = [partial EXCEPT ![leg] = piece.of] /\ taken' = taken
           ELSE partial' = [l \in Legs |-> NoFrame] /\ taken' = piece.of
      /\ UNCHANGED <<ends, unsent, outputs>>
  BY <1>3 DEF ReadOn
<1>5. piece.of \in AnyFrame
  BY DEF Piece
<1>6. LegType'
  BY <1>2, <1>4, <1>5 DEF LegType
<1>7. /\ stream'[leg] = Tail(stream[leg]) /\ stream'[other] = stream[other]
      /\ unsent' = unsent
      /\ piece.part = "prefix" => partial'[leg] = piece.of /\ partial'[other] = partial[other]
      /\ piece.part # "prefix" => partial'[leg] = NoFrame /\ partial'[other] = NoFrame
  BY <1>4 DEF LegType
<1>8. Clear(other)'
  BY <1>7 DEF Clear, Way
<1>9. Way(leg)' = Tail(Way(leg))
  BY <1>2, <1>7 DEF Way
<1> QED
  BY <1>2, <1>4, <1>6, <1>7, <1>8, <1>9

\* The read on the leg of the one frame that is under way goes on or is done.
LEMMA ReadOne ==
  ASSUME LegType, NEW leg \in Legs, NEW other \in Legs, leg # other, Clear(other),
         ReadOn(leg), NEW f \in AnyFrame, One(leg, f)
  PROVE  /\ LegType' /\ Clear(other)' /\ UNCHANGED <<ends, outputs>>
         /\ \/ One(leg, f)' /\ taken' = NoFrame
            \/ Clear(leg)' /\ taken' = f
<1> USE PiecesOf
<1>1. CASE partial[leg] = NoFrame /\ Way(leg) = <<Prefix(f), Body(f)>>
  <2>1. Head(Way(leg)) = Prefix(f) /\ Tail(Way(leg)) = <<Body(f)>>
    BY <1>1
  <2>2. /\ LegType' /\ Clear(other)' /\ UNCHANGED <<ends, outputs>>
        /\ Way(leg)' = Tail(Way(leg))
        /\ partial'[leg] = f /\ taken' = NoFrame
    BY <2>1, ReadPiece
  <2> QED
    BY <2>1, <2>2 DEF One
<1>2. CASE partial[leg] = f /\ Way(leg) = <<Body(f)>>
  <2>1. Head(Way(leg)) = Body(f) /\ Tail(Way(leg)) = <<>>
    BY <1>2
  <2>2. partial[leg] # NoFrame
    BY <1>2, FrameKinds
  <2>3. /\ LegType' /\ Clear(other)' /\ UNCHANGED <<ends, outputs>>
        /\ Way(leg)' = Tail(Way(leg))
        /\ partial'[leg] = NoFrame /\ taken' = f
    BY <2>1, <2>2, ReadPiece
  <2> QED
    BY <2>1, <2>3 DEF Clear
<1> QED
  BY <1>1, <1>2 DEF One

\* When two frames are under way the first one is read first.
LEMMA ReadTwo ==
  ASSUME LegType, NEW leg \in Legs, NEW other \in Legs, leg # other, Clear(other),
         ReadOn(leg), NEW f \in AnyFrame, NEW g \in AnyFrame, Two(leg, f, g)
  PROVE  /\ LegType' /\ Clear(other)' /\ UNCHANGED <<ends, outputs>>
         /\ \/ Two(leg, f, g)' /\ taken' = NoFrame
            \/ One(leg, g)' /\ taken' = f
<1> USE PiecesOf
<1>1. CASE partial[leg] = NoFrame /\ Way(leg) = <<Prefix(f), Body(f), Prefix(g), Body(g)>>
  <2>1. Head(Way(leg)) = Prefix(f) /\ Tail(Way(leg)) = <<Body(f), Prefix(g), Body(g)>>
    BY <1>1
  <2>2. /\ LegType' /\ Clear(other)' /\ UNCHANGED <<ends, outputs>>
        /\ Way(leg)' = Tail(Way(leg))
        /\ partial'[leg] = f /\ taken' = NoFrame
    BY <2>1, ReadPiece
  <2> QED
    BY <2>1, <2>2 DEF Two
<1>2. CASE partial[leg] = f /\ Way(leg) = <<Body(f), Prefix(g), Body(g)>>
  <2>1. Head(Way(leg)) = Body(f) /\ Tail(Way(leg)) = <<Prefix(g), Body(g)>>
    BY <1>2
  <2>2. partial[leg] # NoFrame
    BY <1>2, FrameKinds
  <2>3. /\ LegType' /\ Clear(other)' /\ UNCHANGED <<ends, outputs>>
        /\ Way(leg)' = Tail(Way(leg))
        /\ partial'[leg] = NoFrame /\ taken' = f
    BY <2>1, <2>2, ReadPiece
  <2> QED
    BY <2>1, <2>3 DEF One
<1> QED
  BY <1>1, <1>2 DEF Two

\* A frame is written to a clear leg.
LEMMA WriteOne ==
  ASSUME LegType, NEW leg \in Legs, NEW f \in AnyFrame, Clear(leg),
         unsent' = [unsent EXCEPT ![leg] = Pieces(f)], UNCHANGED <<stream, partial>>
  PROVE  /\ LegType' /\ One(leg, f)'
         /\ \A l \in Legs \ {leg} : Way(l)' = Way(l)
<1> USE PiecesOf
<1>1. stream[leg] = <<>> /\ partial[leg] = NoFrame
  BY ClearLeg
<1>2. unsent'[leg] = Pieces(f) /\ \A l \in Legs \ {leg} : unsent'[l] = unsent[l]
  BY DEF LegType
<1>3. LegType'
  BY DEF LegType
<1>4. Way(leg)' = Pieces(f)
  <2>1. Way(leg)' = <<>> \o Pieces(f)
    BY <1>1, <1>2 DEF Way
  <2> QED
    BY <2>1, ConcatEmptySeq
<1> QED
  BY <1>1, <1>2, <1>3, <1>4 DEF One, Way

\* A second frame is written when the first one has been flushed.
LEMMA WriteSecond ==
  ASSUME LegType, NEW leg \in Legs, NEW f \in AnyFrame, NEW g \in AnyFrame, One(leg, f),
         unsent[leg] = <<>>,
         unsent' = [unsent EXCEPT ![leg] = Pieces(g)], UNCHANGED <<stream, partial>>
  PROVE  /\ LegType' /\ Two(leg, f, g)'
         /\ \A l \in Legs \ {leg} : Way(l)' = Way(l)
<1> USE PiecesOf
<1>1. stream[leg] \in Seq(Piece) /\ Way(leg) = stream[leg]
  BY ConcatEmptySeq DEF LegType, Way
<1>2. unsent'[leg] = Pieces(g) /\ \A l \in Legs \ {leg} : unsent'[l] = unsent[l]
  BY DEF LegType
<1>3. LegType'
  BY DEF LegType
<1>4. Way(leg)' = stream[leg] \o Pieces(g)
  BY <1>2 DEF Way
<1>5. /\ stream[leg] = <<Prefix(f), Body(f)>> =>
           Way(leg)' = <<Prefix(f), Body(f), Prefix(g), Body(g)>>
      /\ stream[leg] = <<Body(f)>> => Way(leg)' = <<Body(f), Prefix(g), Body(g)>>
  BY <1>1, <1>4, ConcatPieces
<1> QED
  BY <1>1, <1>2, <1>3, <1>5 DEF One, Two, Way

\* When the loop ends it takes with it what is under way.
LEMMA EndsClear ==
  ASSUME Ends
  PROVE  /\ LegType' /\ Clear("host")' /\ Clear("enclave")'
         /\ open' = FALSE /\ enclave' = "ended" /\ script' = <<>>
         /\ taken' = NoFrame /\ toEnclave' = <<>> /\ UNCHANGED got
<1>1. /\ unsent' = [l \in Legs |-> <<>>] /\ stream' = [l \in Legs |-> <<>>]
      /\ partial' = [l \in Legs |-> NoFrame]
  BY DEF Ends
<1>2. LegType'
  BY <1>1 DEF LegType
<1>3. ASSUME NEW l \in Legs PROVE Clear(l)'
  <2>1. stream'[l] = <<>> /\ unsent'[l] = <<>> /\ partial'[l] = NoFrame
    BY <1>1
  <2>2. <<>> \in Seq(Piece) /\ <<>> \o <<>> = <<>>
    BY ConcatEmptySeq
  <2> QED
    BY <2>1, <2>2 DEF Clear, Way
<1> QED
  BY <1>2, <1>3 DEF Ends, Legs

-----------------------------------------------------------------------------
(* Scripts.                                                                *)

\* What the enclave writes for a request is well formed.
LEMMA ScriptsScripted ==
  ASSUME NEW id \in Ids, NEW s \in Scripts(id)
  PROVE  Scripted(s)
<1>1. PICK n \in 0..MaxCalls, a \in {<<>>, <<Frame("announce", id)>>} :
        s = Calls(n, id) \o a \o <<Frame("reply", id)>>
  BY DEF Scripts
<1> DEFINE c == Calls(n, id)
           m == c \o a
           g == Frame("reply", id)
<1>2. n \in Nat /\ Frame("call", id) \in Calling /\ Frame("announce", id) \in Announcements
      /\ g \in Replies
  BY BoundAssumption DEF Frame, Calling, Announcements, Replies, Ids
<1>3. c \in Seq(AnyFrame) /\ Len(c) = n /\ \A i \in 1..n : c[i] \in Calling
  BY <1>2, FrameKinds DEF Calls
<1> HIDE DEF c
<1>4. a \in Seq(AnyFrame) /\ Len(a) \in {0, 1} /\ (Len(a) = 1 => a[1] \in Announcements)
  <2>1. Frame("announce", id) \in AnyFrame
    BY <1>2, FrameKinds
  <2>2. <<Frame("announce", id)>> \in Seq(AnyFrame) /\ Len(<<Frame("announce", id)>>) = 1
        /\ <<Frame("announce", id)>>[1] = Frame("announce", id)
    BY <2>1
  <2>3. CASE a = <<>>
    BY <2>3
  <2>4. CASE a = <<Frame("announce", id)>>
    BY <1>2, <2>2, <2>4
  <2> QED
    BY <2>3, <2>4
<1>5. /\ m \in Seq(AnyFrame) /\ Len(m) = Len(c) + Len(a)
      /\ \A i \in 1..(Len(c) + Len(a)) : m[i] = IF i <= Len(c) THEN c[i] ELSE a[i - Len(c)]
  BY <1>3, <1>4, ConcatProperties
<1> HIDE DEF m
<1>6. /\ s \in Seq(AnyFrame) /\ Len(s) = Len(m) + 1
      /\ \A i \in 1..(Len(m) + 1) : s[i] = IF i <= Len(m) THEN m[i] ELSE g
  <2>1. <<g>> \in Seq(AnyFrame) /\ Len(<<g>>) = 1 /\ <<g>>[1] = g
    BY <1>2, FrameKinds
  <2>2. /\ m \o <<g>> \in Seq(AnyFrame) /\ Len(m \o <<g>>) = Len(m) + Len(<<g>>)
        /\ \A i \in 1..(Len(m) + Len(<<g>>)) :
             (m \o <<g>>)[i] = IF i <= Len(m) THEN m[i] ELSE <<g>>[i - Len(m)]
    BY <1>5, <2>1, ConcatProperties
  <2>3. s = m \o <<g>>
    BY <1>1 DEF m, c
  <2>4. Len(m) \in Nat /\ \A i \in 1..(Len(m) + 1) : i <= Len(m) \/ i - Len(m) = 1
    BY <1>5
  <2> HIDE DEF g
  <2> QED
    BY <2>1, <2>2, <2>3, <2>4
<1> HIDE DEF g
<1>7. Len(m) \in Nat /\ Len(s) = Len(m) + 1 /\ s # <<>> /\ s[Len(s)] = g
  BY <1>5, <1>6
<1>8. ASSUME NEW i \in 1..(Len(s) - 1)
      PROVE  s[i] \in Calling \/ (i = Len(s) - 1 /\ s[i] \in Announcements)
  <2>1. i \in 1..Len(m) /\ s[i] = m[i]
    BY <1>6, <1>7
  <2>2. CASE i <= Len(c)
    BY <1>2, <1>3, <1>5, <2>1, <2>2
  <2>3. CASE i > Len(c)
    <3>1. Len(a) = 1 /\ i = Len(m) /\ i - Len(c) = 1
      BY <1>2, <1>3, <1>4, <1>5, <2>1, <2>3
    <3> QED
      BY <1>2, <1>3, <1>4, <1>5, <1>7, <2>1, <2>3, <3>1
  <2> QED
    BY <1>2, <1>3, <2>1, <2>2, <2>3
<1> QED
  BY <1>2, <1>6, <1>7, <1>8 DEF Scripted

\* What is left of a script when its first frame is written.
LEMMA ScriptHead ==
  ASSUME Scripted(script)
  PROVE  \/ /\ Head(script) \in Calling /\ Scripted(Tail(script))
         \/ /\ Head(script) \in Announcements
            /\ Scripted(Tail(script)) /\ Len(Tail(script)) = 1
         \/ /\ Head(script) \in Replies /\ Tail(script) = <<>>
<1> DEFINE t == Tail(script)
<1>1. /\ script \in Seq(AnyFrame) /\ script # <<>> /\ Len(script) \in Nat /\ Len(script) >= 1
      /\ Head(script) = script[1]
  BY DEF Scripted
<1>2. t \in Seq(AnyFrame) /\ Len(t) = Len(script) - 1 /\ \A i \in 1..Len(t) : t[i] = script[i + 1]
  BY <1>1, HeadTailProperties
<1> HIDE DEF t
<1>3. CASE Len(script) = 1
  <2>1. Head(script) \in Replies
    BY <1>1, <1>3 DEF Scripted
  <2>2. t = <<>>
    BY <1>2, <1>3
  <2> QED
    BY <2>1, <2>2 DEF t
<1>4. CASE Len(script) # 1
  <2>1. t # <<>> /\ t[Len(t)] \in Replies
    BY <1>1, <1>2, <1>4 DEF Scripted
  <2>2. ASSUME NEW i \in 1..(Len(t) - 1)
        PROVE  t[i] \in Calling \/ (i = Len(t) - 1 /\ t[i] \in Announcements)
    <3>1. t[i] = script[i + 1] /\ i + 1 \in 1..(Len(script) - 1)
      BY <1>1, <1>2
    <3>2. i + 1 = Len(script) - 1 => i = Len(t) - 1
      BY <1>1, <1>2
    <3> QED
      BY <3>1, <3>2 DEF Scripted
  <2>3. Scripted(t)
    BY <1>2, <2>1, <2>2 DEF Scripted
  <2>4. 1 \in 1..(Len(script) - 1)
    BY <1>1, <1>4
  <2>5. script[1] \in Calling \/ (1 = Len(script) - 1 /\ script[1] \in Announcements)
    BY <2>4 DEF Scripted
  <2>6. 1 = Len(script) - 1 => Len(t) = 1
    BY <1>2
  <2> QED
    BY <1>1, <2>3, <2>5, <2>6 DEF t
<1> QED
  BY <1>3, <1>4, Zenon

-----------------------------------------------------------------------------
(* From phase to phase.                                                    *)

\* There are two legs.
LEMMA BothLegs == "host" \in Legs /\ "enclave" \in Legs /\ \A l \in Legs : l = "host" \/ l = "enclave"
BY DEF Legs

\* When a leg closes, what was written to the host is lost or can be read.
LEMMA FromOpen ==
  ASSUME LegCloses, exchange \in {"idle", "awaiting"},
         toHost \in Seq(Announcements \cup Replies)
  PROVE  LegType' /\ Closed' /\ toHost' \in {<<>>, toHost} /\ UNCHANGED got
<1>1. /\ LegType' /\ Clear("host")' /\ Clear("enclave")'
      /\ open' = FALSE /\ enclave' = "ended" /\ script' = <<>>
      /\ taken' = NoFrame /\ toEnclave' = <<>> /\ UNCHANGED got
  BY EndsClear DEF LegCloses
<1>2. CASE exchange' = "closed" /\ toHost' = <<>>
  BY <1>1, <1>2 DEF Closed
<1>3. CASE UNCHANGED <<exchange, toHost>>
  BY <1>1, <1>3 DEF Closed
<1> QED
  BY <1>2, <1>3 DEF LegCloses

\* Nothing but a request ends the quiet.
LEMMA FromQuiet ==
  ASSUME LegType, next_id \in Ids, Quiet, Next
  PROVE  /\ LegType'
         /\ \/ \E r \in Requests : Requested(r)' /\ UNCHANGED got
            \/ Closed' /\ LegCloses /\ toHost' = <<>>
<1>1. /\ open /\ exchange = "idle" /\ enclave = "reading" /\ script = <<>>
      /\ Clear("host") /\ Clear("enclave")
      /\ taken = NoFrame /\ toHost = <<>> /\ toEnclave = <<>>
  BY DEF Quiet
<1>2. \A leg \in Legs : unsent[leg] = <<>> /\ stream[leg] = <<>>
  BY <1>1, ClearLeg, BothLegs
<1>3. CASE HostRequests
  <2>1. PICK r \in Requests : r = Frame("request", next_id + 1)
    <3>1. next_id + 1 \in 1..MaxRequests
      BY <1>3, BoundAssumption DEF HostRequests, Ids
    <3> QED
      BY <3>1 DEF Frame, Requests
  <2>2. /\ unsent' = [unsent EXCEPT !["host"] = Pieces(r)]
        /\ UNCHANGED <<stream, partial>> /\ exchange' = "awaiting"
        /\ UNCHANGED <<open, enclave, script, got, taken, toHost, toEnclave>>
    BY <1>3, <2>1 DEF HostRequests, outputs
  <2>3. /\ LegType' /\ One("host", r)'
        /\ \A l \in Legs \ {"host"} : Way(l)' = Way(l)
    BY <1>1, <2>2, BothLegs, FrameKinds, WriteOne
  <2>4. Clear("enclave")'
    BY <1>1, <2>2, <2>3, BothLegs DEF Clear
  <2>5. Requested(r)'
    BY <1>1, <2>1, <2>2, <2>3, <2>4 DEF Requested
  <2> QED
    BY <2>1, <2>2, <2>3, <2>5
<1>4. CASE LegCloses
  BY <1>1, <1>4, FromOpen
<1>5. CASE Next /\ ~HostRequests /\ ~LegCloses
  BY <1>1, <1>2, <1>5, BothLegs
    DEF Next, HostStep, EnclaveStep, MuxStep, HostReads, HostSeesEnd, Flush,
        EnclaveReads, EnclaveWrites, EnclaveAwaits, ReadOn, Handle
<1> QED
  BY <1>3, <1>4, <1>5

\* A request goes on until the enclave has read it.
LEMMA FromRequested ==
  ASSUME LegType, NEW r \in Requests, Requested(r), Next
  PROVE  /\ LegType'
         /\ \/ Requested(r)' /\ UNCHANGED got
            \/ Working' /\ HeardRequest(r)
            \/ Closed' /\ LegCloses /\ toHost' = <<>>
<1>1. /\ open /\ exchange = "awaiting" /\ enclave = "reading" /\ script = <<>>
      /\ Clear("enclave") /\ toHost = <<>>
      /\ unsent["enclave"] = <<>> /\ stream["enclave"] = <<>>
  BY ClearLeg, BothLegs DEF Requested
<1>2. r \in AnyFrame /\ r # NoFrame /\ r.kind = "request" /\ r.id \in Ids
  BY FrameKinds DEF Requests, Ids
<1>3. CASE LegCloses
  BY <1>1, <1>3, FromOpen
<1>4. CASE Flush("host")
  BY <1>2, <1>4, FlushShapes, BothLegs DEF Requested
<1>5. CASE ReadOn("host")
  <2>1. One("host", r) /\ taken = NoFrame /\ toEnclave = <<>>
    BY <1>2, <1>5, ClearLeg, BothLegs DEF Requested, ReadOn
  <2>2. /\ LegType' /\ Clear("enclave")' /\ UNCHANGED <<ends, outputs>>
        /\ \/ One("host", r)' /\ taken' = NoFrame
           \/ Clear("host")' /\ taken' = r
    BY <1>1, <1>2, <1>5, <2>1, ReadOne, BothLegs
  <2> QED
    BY <1>1, <2>1, <2>2 DEF Requested, ends, outputs
<1>6. CASE Handle
  <2>1. Clear("host") /\ taken = r /\ toEnclave = <<>>
    BY <1>6 DEF Requested, Handle
  <2>2. toEnclave' = <<r>> /\ taken' = NoFrame /\ UNCHANGED <<ends, legs, partial, toHost>>
    BY <1>2, <1>6, <2>1 DEF Handle, IsLoaderCall
  <2> QED
    BY <1>1, <2>1, <2>2 DEF Requested, Clear, Way, LegType, ends, legs
<1>7. CASE EnclaveReads
  <2>1. Clear("host") /\ taken = NoFrame /\ toEnclave = <<r>>
    BY <1>7 DEF Requested, EnclaveReads
  <2>2. /\ toEnclave' = <<>> /\ script' \in Scripts(r.id) /\ enclave' = "busy"
        /\ HeardRequest(r)
        /\ UNCHANGED <<open, exchange, legs, partial, taken, toHost>>
    BY <1>7, <2>1 DEF EnclaveReads, HeardRequest
  <2>3. Scripted(script')
    BY <1>2, <2>2, ScriptsScripted
  <2> QED
    BY <1>1, <2>1, <2>2, <2>3 DEF Working, Scripted, Clear, Way, LegType, legs
<1>8. CASE ~LegCloses /\ ~Flush("host") /\ ~ReadOn("host") /\ ~Handle /\ ~EnclaveReads
  BY <1>1, <1>8, BothLegs
    DEF Next, HostStep, EnclaveStep, MuxStep, HostRequests, MayRequest, HostReads, HostSeesEnd,
        Flush, EnclaveWrites, EnclaveAwaits, ReadOn
<1> QED
  BY <1>3, <1>4, <1>5, <1>6, <1>7, <1>8

\* The enclave calls the loader, announces something, or replies.
LEMMA FromWorking ==
  ASSUME LegType, Working, Next
  PROVE  /\ LegType'
         /\ \/ (\E c \in Calling : Called(c)') /\ UNCHANGED got
            \/ (\E a \in Announcements : Announced(a)') /\ UNCHANGED got
            \/ (\E g \in Replies : Replied(g)') /\ UNCHANGED got
            \/ Closed' /\ LegCloses /\ toHost' = <<>>
<1>1. /\ open /\ exchange = "awaiting" /\ enclave = "busy" /\ Scripted(script)
      /\ Clear("host") /\ Clear("enclave")
      /\ taken = NoFrame /\ toHost = <<>> /\ toEnclave = <<>>
  BY DEF Working
<1>2. \A leg \in Legs : unsent[leg] = <<>> /\ stream[leg] = <<>>
  BY <1>1, ClearLeg, BothLegs
<1>3. CASE LegCloses
  BY <1>1, <1>3, FromOpen
<1>4. CASE EnclaveWrites
  <2>1. PICK f : f = Head(script)
    OBVIOUS
  <2>2. \/ f \in Calling /\ Scripted(Tail(script))
        \/ f \in Announcements /\ Scripted(Tail(script)) /\ Len(Tail(script)) = 1
        \/ f \in Replies /\ Tail(script) = <<>>
    BY <1>1, <2>1, ScriptHead
  <2>3. f \in AnyFrame
    BY <2>2, FrameKinds
  <2>4. /\ unsent' = [unsent EXCEPT !["enclave"] = Pieces(f)] /\ UNCHANGED <<stream, partial>>
        /\ script' = Tail(script)
        /\ enclave' = CASE f.kind = "call"  -> "calling"
                        [] f.kind = "reply" -> "reading"
                        [] OTHER            -> "busy"
        /\ UNCHANGED <<open, exchange, got, taken, toHost, toEnclave>>
    BY <1>4, <2>1 DEF EnclaveWrites, outputs
  <2>5. /\ LegType' /\ One("enclave", f)'
        /\ \A l \in Legs \ {"enclave"} : Way(l)' = Way(l)
    BY <1>1, <2>3, <2>4, WriteOne, BothLegs
  <2>6. Clear("host")'
    BY <1>1, <2>4, <2>5, BothLegs DEF Clear
  <2>7. CASE f \in Calling /\ Scripted(Tail(script))
    <3>1. enclave' = "calling"
      BY <2>4, <2>7, FrameKinds
    <3>2. Called(f)'
      BY <1>1, <2>4, <2>5, <2>6, <2>7, <3>1 DEF Called, Scripted
    <3> QED
      BY <2>4, <2>5, <2>7, <3>2
  <2>8. CASE f \in Announcements /\ Scripted(Tail(script)) /\ Len(Tail(script)) = 1
    <3>1. enclave' = "busy"
      BY <2>4, <2>8, FrameKinds
    <3>2. Announced(f)'
      BY <1>1, <2>4, <2>5, <2>6, <2>8, <3>1 DEF Announced, Scripted
    <3> QED
      BY <2>4, <2>5, <2>8, <3>2
  <2>9. CASE f \in Replies /\ Tail(script) = <<>>
    <3>1. enclave' = "reading"
      BY <2>4, <2>9, FrameKinds
    <3>2. Replied(f)'
      BY <1>1, <2>4, <2>5, <2>6, <2>9, <3>1 DEF Replied
    <3> QED
      BY <2>4, <2>5, <2>9, <3>2
  <2> QED
    BY <2>2, <2>7, <2>8, <2>9
<1>5. CASE ~LegCloses /\ ~EnclaveWrites
  BY <1>1, <1>2, <1>5, BothLegs
    DEF Next, HostStep, EnclaveStep, MuxStep, HostRequests, MayRequest, HostReads, HostSeesEnd,
        Flush, EnclaveReads, EnclaveAwaits, ReadOn, Handle
<1> QED
  BY <1>3, <1>4, <1>5

\* A call goes on until the enclave has read its result.
LEMMA FromCalled ==
  ASSUME LegType, NEW c \in Calling, Called(c), Next
  PROVE  /\ LegType'
         /\ \/ Called(c)' /\ UNCHANGED got
            \/ Working' /\ UNCHANGED got
            \/ Closed' /\ LegCloses /\ toHost' = <<>>
<1>1. /\ open /\ exchange = "awaiting" /\ enclave = "calling" /\ Scripted(script)
      /\ Clear("host") /\ toHost = <<>>
      /\ unsent["host"] = <<>> /\ stream["host"] = <<>>
  BY ClearLeg, BothLegs DEF Called
<1>2. c \in AnyFrame /\ c # NoFrame /\ c.kind = "call"
  BY FrameKinds
<1>3. CASE LegCloses
  BY <1>1, <1>3, FromOpen
<1>4. CASE Flush("enclave")
  BY <1>2, <1>4, FlushShapes, BothLegs DEF Called, Scripted
<1>5. CASE ReadOn("enclave")
  <2>1. One("enclave", c) /\ taken = NoFrame /\ toEnclave = <<>>
    BY <1>2, <1>5, ClearLeg, BothLegs DEF Called, ReadOn
  <2>2. /\ LegType' /\ Clear("host")' /\ UNCHANGED <<ends, outputs>>
        /\ \/ One("enclave", c)' /\ taken' = NoFrame
           \/ Clear("enclave")' /\ taken' = c
    BY <1>1, <1>2, <1>5, <2>1, ReadOne, BothLegs
  <2> QED
    BY <1>1, <2>1, <2>2 DEF Called, Scripted, ends, outputs
<1>6. CASE Handle
  <2>1. Clear("enclave") /\ taken = c /\ toEnclave = <<>>
    BY <1>6 DEF Called, Handle
  <2>2. /\ toEnclave' = <<Frame("result", c.id)>> /\ taken' = NoFrame
        /\ UNCHANGED <<ends, legs, partial, toHost>>
    BY <1>2, <1>6, <2>1 DEF Handle, IsLoaderCall
  <2> QED
    BY <1>1, <2>1, <2>2 DEF Called, Scripted, Clear, Way, LegType, ends, legs
<1>7. CASE EnclaveAwaits
  <2>1. Clear("enclave") /\ taken = NoFrame /\ toEnclave = <<Frame("result", c.id)>>
    BY <1>7 DEF Called, EnclaveAwaits
  <2>2. /\ toEnclave' = <<>> /\ enclave' = "busy"
        /\ UNCHANGED <<open, exchange, script, got, legs, partial, taken, toHost>>
    BY <1>7, <2>1 DEF EnclaveAwaits, Frame
  <2> QED
    BY <1>1, <2>1, <2>2 DEF Working, Scripted, Clear, Way, LegType, legs
<1>8. CASE ~LegCloses /\ ~Flush("enclave") /\ ~ReadOn("enclave") /\ ~Handle /\ ~EnclaveAwaits
  BY <1>1, <1>8, BothLegs
    DEF Next, HostStep, EnclaveStep, MuxStep, HostRequests, MayRequest, HostReads, HostSeesEnd,
        Flush, EnclaveReads, EnclaveWrites, ReadOn
<1> QED
  BY <1>3, <1>4, <1>5, <1>6, <1>7, <1>8

\* After an announcement the enclave replies, before or after the host reads it.
LEMMA FromAnnounced ==
  ASSUME LegType, NEW a \in Announcements, Announced(a), Next
  PROVE  /\ LegType'
         /\ \/ Announced(a)' /\ UNCHANGED got
            \/ Working' /\ HeardAnswer(a)
            \/ (\E g \in Replies : Announcing(a, g)') /\ UNCHANGED got
            \/ Closed' /\ LegCloses /\ toHost' \in {<<>>, toHost}
<1>1. /\ open /\ exchange = "awaiting" /\ enclave = "busy" /\ Scripted(script)
      /\ Len(script) = 1 /\ Clear("host") /\ toEnclave = <<>>
      /\ unsent["host"] = <<>> /\ stream["host"] = <<>>
  BY ClearLeg, BothLegs DEF Announced
<1>2. a \in AnyFrame /\ a # NoFrame /\ a.kind = "announce"
  BY FrameKinds
<1>3. CASE LegCloses
  <2>1. toHost \in {<<>>, <<a>>}
    BY DEF Announced
  <2>2. toHost \in Seq(Announcements \cup Replies)
    BY <2>1, AnswerTuples
  <2> QED
    BY <1>1, <1>3, <2>2, FromOpen
<1>4. CASE Flush("enclave")
  BY <1>2, <1>4, FlushShapes, BothLegs DEF Announced, Scripted
<1>5. CASE ReadOn("enclave")
  <2>1. One("enclave", a) /\ taken = NoFrame /\ toHost = <<>>
    BY <1>2, <1>5, ClearLeg, BothLegs DEF Announced, ReadOn
  <2>2. /\ LegType' /\ Clear("host")' /\ UNCHANGED <<ends, outputs>>
        /\ \/ One("enclave", a)' /\ taken' = NoFrame
           \/ Clear("enclave")' /\ taken' = a
    BY <1>1, <1>2, <1>5, <2>1, ReadOne, BothLegs
  <2> QED
    BY <1>1, <2>1, <2>2 DEF Announced, Scripted, ends, outputs
<1>6. CASE Handle
  <2>1. Clear("enclave") /\ taken = a /\ toHost = <<>>
    BY <1>6 DEF Announced, Handle
  <2>2. /\ toHost' = <<a>> /\ taken' = NoFrame
        /\ UNCHANGED <<ends, legs, partial, toEnclave>>
    BY <1>2, <1>6, <2>1 DEF Handle, IsLoaderCall
  <2> QED
    BY <1>1, <2>1, <2>2 DEF Announced, Scripted, Clear, Way, LegType, ends, legs
<1>7. CASE HostReads
  <2>1. Clear("enclave") /\ taken = NoFrame /\ toHost = <<a>>
    BY <1>7 DEF Announced, HostReads
  <2>2. /\ toHost' = <<>> /\ exchange' = "awaiting" /\ HeardAnswer(a)
        /\ UNCHANGED <<open, enclave, script, legs, partial, taken, toEnclave>>
    BY <1>2, <1>7, <2>1 DEF HostReads, HeardAnswer
  <2> QED
    BY <1>1, <1>7, <2>1, <2>2 DEF Working, Scripted, Clear, Way, LegType, legs
<1>8. CASE EnclaveWrites
  <2>1. PICK g : g = Head(script)
    OBVIOUS
  <2>2. g \in Replies /\ Tail(script) = <<>>
    <3>1. script \in Seq(AnyFrame) /\ script # <<>> /\ script[1] \in Replies
      BY <1>1 DEF Scripted
    <3>2. Tail(script) \in Seq(AnyFrame) /\ Len(Tail(script)) = 0
      BY <1>1, <3>1, HeadTailProperties
    <3>3. Head(script) = script[1]
      BY <3>1
    <3> QED
      BY <2>1, <3>1, <3>2, <3>3, EmptySeq
  <2>3. g \in AnyFrame /\ g.kind = "reply"
    BY <2>2, FrameKinds
  <2>4. /\ unsent["enclave"] = <<>>
        /\ unsent' = [unsent EXCEPT !["enclave"] = Pieces(g)] /\ UNCHANGED <<stream, partial>>
        /\ script' = <<>> /\ enclave' = "reading"
        /\ UNCHANGED <<open, exchange, got, taken, toHost, toEnclave>>
    BY <1>8, <2>1, <2>2, <2>3 DEF EnclaveWrites, outputs
  <2>5. CASE One("enclave", a) /\ taken = NoFrame /\ toHost = <<>>
    <3>1. /\ LegType' /\ Two("enclave", a, g)'
          /\ \A l \in Legs \ {"enclave"} : Way(l)' = Way(l)
      BY <1>2, <2>3, <2>4, <2>5, WriteSecond, BothLegs
    <3>2. Clear("host")'
      BY <1>1, <2>4, <3>1, BothLegs DEF Clear
    <3>3. Announcing(a, g)'
      BY <1>1, <2>2, <2>4, <2>5, <3>1, <3>2 DEF Announcing
    <3> QED
      BY <2>2, <2>4, <3>1, <3>3
  <2>6. CASE /\ Clear("enclave")
             /\ \/ taken = a /\ toHost = <<>>
                \/ taken = NoFrame /\ toHost = <<a>>
    <3>1. /\ LegType' /\ One("enclave", g)'
          /\ \A l \in Legs \ {"enclave"} : Way(l)' = Way(l)
      BY <2>3, <2>4, <2>6, WriteOne, BothLegs
    <3>2. Clear("host")'
      BY <1>1, <2>4, <3>1, BothLegs DEF Clear
    <3>3. Announcing(a, g)'
      BY <1>1, <2>2, <2>4, <2>6, <3>1, <3>2 DEF Announcing
    <3> QED
      BY <2>2, <2>4, <3>1, <3>3
  <2>7. \/ One("enclave", a) /\ taken = NoFrame /\ toHost = <<>>
        \/ /\ Clear("enclave")
           /\ \/ taken = a /\ toHost = <<>>
              \/ taken = NoFrame /\ toHost = <<a>>
    BY DEF Announced
  <2> QED
    BY <2>5, <2>6, <2>7, Zenon
<1>9. CASE /\ ~LegCloses /\ ~Flush("enclave") /\ ~ReadOn("enclave") /\ ~Handle
           /\ ~HostReads /\ ~EnclaveWrites
  BY <1>1, <1>9, BothLegs
    DEF Next, HostStep, EnclaveStep, MuxStep, HostRequests, MayRequest, HostSeesEnd,
        Flush, EnclaveReads, EnclaveAwaits, ReadOn
<1> QED
  BY <1>3, <1>4, <1>5, <1>6, <1>7, <1>8, <1>9

\* The announcement stays before the reply.
LEMMA FromAnnouncing ==
  ASSUME LegType, NEW a \in Announcements, NEW g \in Replies, Announcing(a, g), Next
  PROVE  /\ LegType'
         /\ \/ Announcing(a, g)' /\ UNCHANGED got
            \/ Replied(g)' /\ HeardAnswer(a)
            \/ Closed' /\ LegCloses /\ toHost' \in {<<>>, toHost}
<1>1. /\ open /\ exchange = "awaiting" /\ enclave = "reading" /\ script = <<>>
      /\ Clear("host") /\ toEnclave = <<>>
      /\ unsent["host"] = <<>> /\ stream["host"] = <<>>
  BY ClearLeg, BothLegs DEF Announcing
<1>2. /\ a \in AnyFrame /\ a # NoFrame /\ a.kind = "announce"
      /\ g \in AnyFrame /\ g # NoFrame /\ g.kind = "reply"
  BY FrameKinds
<1>3. CASE LegCloses
  <2>1. toHost \in {<<>>, <<a>>, <<a, g>>}
    BY DEF Announcing
  <2>2. toHost \in Seq(Announcements \cup Replies)
    BY <2>1, AnswerTuples
  <2> QED
    BY <1>1, <1>3, <2>2, FromOpen
<1>4. CASE Flush("enclave")
  BY <1>2, <1>4, FlushShapes, BothLegs DEF Announcing
<1>5. CASE ReadOn("enclave")
  <2>1. taken = NoFrame /\ stream["enclave"] # <<>>
    BY <1>5 DEF ReadOn
  <2>2. CASE Two("enclave", a, g) /\ toHost = <<>>
    <3>1. /\ LegType' /\ Clear("host")' /\ UNCHANGED <<ends, outputs>>
          /\ \/ Two("enclave", a, g)' /\ taken' = NoFrame
             \/ One("enclave", g)' /\ taken' = a
      BY <1>1, <1>2, <1>5, <2>2, ReadTwo, BothLegs
    <3> QED
      BY <1>1, <2>2, <3>1 DEF Announcing, ends, outputs
  <2>3. CASE One("enclave", g) /\ toHost = <<a>>
    <3>1. /\ LegType' /\ Clear("host")' /\ UNCHANGED <<ends, outputs>>
          /\ \/ One("enclave", g)' /\ taken' = NoFrame
             \/ Clear("enclave")' /\ taken' = g
      BY <1>1, <1>2, <1>5, <2>3, ReadOne, BothLegs
    <3> QED
      BY <1>1, <2>3, <3>1 DEF Announcing, ends, outputs
  <2> QED
    BY <1>2, <2>1, <2>2, <2>3, ClearLeg, BothLegs DEF Announcing
<1>6. CASE Handle
  <2>1. taken # NoFrame /\ taken' = NoFrame /\ UNCHANGED <<ends, legs, partial>>
    BY <1>6 DEF Handle
  <2>2. CASE One("enclave", g) /\ taken = a /\ toHost = <<>>
    <3>1. toHost' = <<a>> /\ UNCHANGED toEnclave
      BY <1>2, <1>6, <2>2 DEF Handle, IsLoaderCall
    <3> QED
      BY <1>1, <2>1, <2>2, <3>1 DEF Announcing, One, Clear, Way, LegType, ends, legs
  <2>3. CASE Clear("enclave") /\ taken = g /\ toHost = <<a>>
    <3>1. toHost' = Append(toHost, g) /\ UNCHANGED toEnclave
      BY <1>2, <1>6, <2>3 DEF Handle, IsLoaderCall
    <3>2. toHost' = <<a, g>>
      BY <2>3, <3>1, AppendToTuple
    <3> QED
      BY <1>1, <2>1, <2>3, <3>1, <3>2 DEF Announcing, Clear, Way, LegType, ends, legs
  <2> QED
    BY <2>1, <2>2, <2>3 DEF Announcing
<1>7. CASE HostReads
  <2>1. /\ toHost # <<>> /\ toHost' = Tail(toHost)
        /\ exchange' = IF Head(toHost).kind = "reply" THEN "idle" ELSE "awaiting"
        /\ UNCHANGED <<open, enclave, script, legs, partial, taken, toEnclave>>
        /\ HeardAnswer(Head(toHost))
    BY <1>7 DEF HostReads, HeardAnswer
  <2>2. CASE One("enclave", g) /\ taken = NoFrame /\ toHost = <<a>>
    <3>1. toHost' = <<>> /\ exchange' = "awaiting" /\ HeardAnswer(a)
      BY <1>2, <2>1, <2>2
    <3> QED
      BY <1>1, <2>1, <2>2, <3>1 DEF Replied, One, Clear, Way, LegType, legs
  <2>3. CASE Clear("enclave") /\ taken = g /\ toHost = <<a>>
    <3>1. toHost' = <<>> /\ exchange' = "awaiting" /\ HeardAnswer(a)
      BY <1>2, <2>1, <2>3
    <3> QED
      BY <1>1, <2>1, <2>3, <3>1 DEF Replied, Clear, Way, LegType, legs
  <2>4. CASE Clear("enclave") /\ taken = NoFrame /\ toHost = <<a, g>>
    <3>1. toHost' = <<g>> /\ exchange' = "awaiting" /\ HeardAnswer(a)
      BY <1>2, <2>1, <2>4
    <3> QED
      BY <1>1, <2>1, <2>4, <3>1 DEF Replied, Clear, Way, LegType, legs
  <2> QED
    BY <2>1, <2>2, <2>3, <2>4 DEF Announcing
<1>8. CASE ~LegCloses /\ ~Flush("enclave") /\ ~ReadOn("enclave") /\ ~Handle /\ ~HostReads
  BY <1>1, <1>8, BothLegs
    DEF Next, HostStep, EnclaveStep, MuxStep, HostRequests, MayRequest, HostSeesEnd,
        Flush, EnclaveReads, EnclaveWrites, EnclaveAwaits, ReadOn
<1> QED
  BY <1>3, <1>4, <1>5, <1>6, <1>7, <1>8

\* The reply ends the exchange.
LEMMA FromReplied ==
  ASSUME LegType, NEW g \in Replies, Replied(g), Next
  PROVE  /\ LegType'
         /\ \/ Replied(g)' /\ UNCHANGED got
            \/ Quiet' /\ HeardAnswer(g)
            \/ Closed' /\ LegCloses /\ toHost' \in {<<>>, toHost}
<1>1. /\ open /\ exchange = "awaiting" /\ enclave = "reading" /\ script = <<>>
      /\ Clear("host") /\ toEnclave = <<>>
      /\ unsent["host"] = <<>> /\ stream["host"] = <<>>
  BY ClearLeg, BothLegs DEF Replied
<1>2. g \in AnyFrame /\ g # NoFrame /\ g.kind = "reply"
  BY FrameKinds
<1>3. CASE LegCloses
  <2>1. toHost \in {<<>>, <<g>>}
    BY DEF Replied
  <2>2. toHost \in Seq(Announcements \cup Replies)
    BY <2>1, AnswerTuples
  <2> QED
    BY <1>1, <1>3, <2>2, FromOpen
<1>4. CASE Flush("enclave")
  BY <1>2, <1>4, FlushShapes, BothLegs DEF Replied
<1>5. CASE ReadOn("enclave")
  <2>1. One("enclave", g) /\ taken = NoFrame /\ toHost = <<>>
    BY <1>2, <1>5, ClearLeg, BothLegs DEF Replied, ReadOn
  <2>2. /\ LegType' /\ Clear("host")' /\ UNCHANGED <<ends, outputs>>
        /\ \/ One("enclave", g)' /\ taken' = NoFrame
           \/ Clear("enclave")' /\ taken' = g
    BY <1>1, <1>2, <1>5, <2>1, ReadOne, BothLegs
  <2> QED
    BY <1>1, <2>1, <2>2 DEF Replied, ends, outputs
<1>6. CASE Handle
  <2>1. Clear("enclave") /\ taken = g /\ toHost = <<>>
    BY <1>6 DEF Replied, Handle
  <2>2. /\ toHost' = <<g>> /\ taken' = NoFrame
        /\ UNCHANGED <<ends, legs, partial, toEnclave>>
    BY <1>2, <1>6, <2>1 DEF Handle, IsLoaderCall
  <2> QED
    BY <1>1, <2>1, <2>2 DEF Replied, Clear, Way, LegType, ends, legs
<1>7. CASE HostReads
  <2>1. Clear("enclave") /\ taken = NoFrame /\ toHost = <<g>>
    BY <1>7 DEF Replied, HostReads
  <2>2. /\ toHost' = <<>> /\ exchange' = "idle" /\ HeardAnswer(g)
        /\ UNCHANGED <<open, enclave, script, legs, partial, taken, toEnclave>>
    BY <1>2, <1>7, <2>1 DEF HostReads, HeardAnswer
  <2> QED
    BY <1>1, <2>1, <2>2 DEF Quiet, Clear, Way, LegType, legs
<1>8. CASE ~LegCloses /\ ~Flush("enclave") /\ ~ReadOn("enclave") /\ ~Handle /\ ~HostReads
  BY <1>1, <1>8, BothLegs
    DEF Next, HostStep, EnclaveStep, MuxStep, HostRequests, MayRequest, HostSeesEnd,
        Flush, EnclaveReads, EnclaveWrites, EnclaveAwaits, ReadOn
<1> QED
  BY <1>3, <1>4, <1>5, <1>6, <1>7, <1>8

\* Once the loop has ended the host reads what it was sent, and then the end.
LEMMA FromClosed ==
  ASSUME LegType, Closed, Next
  PROVE  /\ LegType' /\ Closed' /\ ~open
         /\ UNCHANGED <<toHost, got>> \/ HostReads
<1>1. /\ ~open /\ exchange \in {"idle", "awaiting", "closed"} /\ enclave = "ended"
      /\ script = <<>> /\ Clear("host") /\ Clear("enclave")
      /\ taken = NoFrame /\ toHost \in Seq(Announcements \cup Replies) /\ toEnclave = <<>>
  BY DEF Closed
<1>2. \A leg \in Legs : unsent[leg] = <<>>
  BY <1>1, ClearLeg, BothLegs
<1>3. CASE HostReads
  <2>1. toHost' \in Seq(Announcements \cup Replies) /\ exchange' \in {"idle", "awaiting"}
        /\ UNCHANGED <<open, enclave, script, legs, partial, taken, toEnclave>>
    BY <1>1, <1>3 DEF HostReads
  <2> QED
    BY <1>1, <1>3, <2>1 DEF Closed, Clear, Way, LegType, legs
<1>4. CASE HostSeesEnd
  <2>1. exchange' = "closed" /\ UNCHANGED <<open, enclave, script, got, legs, partial, taken, outputs>>
    BY <1>4 DEF HostSeesEnd
  <2> QED
    BY <1>1, <2>1 DEF Closed, Clear, Way, LegType, legs, outputs
<1>5. CASE ~HostReads /\ ~HostSeesEnd
  BY <1>1, <1>2, <1>5, BothLegs
    DEF Next, HostStep, EnclaveStep, MuxStep, HostRequests, Flush, EnclaveReads,
        EnclaveWrites, EnclaveAwaits, ReadOn, Handle, LegCloses
<1> QED
  BY <1>3, <1>4, <1>5

-----------------------------------------------------------------------------
(* The invariant.                                                          *)

\* The connection begins with the boot of the enclave.
LEMMA MuxInit ==
  ASSUME Init
  PROVE  MuxInv /\ Working
<1>1. LegType /\ open = TRUE /\ next_id \in Ids
  BY BoundAssumption DEF Init, LegType, Ids
<1>2. Clear("host") /\ Clear("enclave")
  <2>1. ASSUME NEW l \in Legs PROVE Clear(l)
    <3>1. stream[l] = <<>> /\ unsent[l] = <<>> /\ partial[l] = NoFrame
      BY DEF Init
    <3>2. <<>> \in Seq(Piece) /\ <<>> \o <<>> = <<>>
      BY ConcatEmptySeq
    <3> QED
      BY <3>1, <3>2 DEF Clear, Way
  <2> QED
    BY <2>1, BothLegs
<1>3. Scripted(script)
  <2>1. PICK n \in 1..MaxCalls : script = Calls(n, 0) \o <<Frame("reply", 0)>>
    BY DEF Init
  <2>2. 0 \in Ids /\ n \in 0..MaxCalls
    BY BoundAssumption DEF Ids
  <2>3. Frame("call", 0) \in AnyFrame
    BY <2>2 DEF Frame, AnyFrame, Calling
  <2>4. Calls(n, 0) \in Seq(AnyFrame)
    BY <2>2, <2>3, BoundAssumption DEF Calls
  <2>5. Calls(n, 0) \o <<>> = Calls(n, 0)
    BY <2>4, ConcatEmptySeq
  <2>6. script = Calls(n, 0) \o <<>> \o <<Frame("reply", 0)>>
    BY <2>1, <2>5
  <2>7. script \in Scripts(0)
    BY <2>2, <2>6 DEF Scripts
  <2> QED
    BY <2>2, <2>7, ScriptsScripted
<1>4. Working
  BY <1>1, <1>2, <1>3 DEF Init, Working
<1> QED
  BY <1>1, <1>4 DEF MuxInv, Phase

\* Every step leads from a phase to a phase.
LEMMA MuxInductive ==
  ASSUME MuxInv, [Next]_muxVars
  PROVE  MuxInv'
<1>1. CASE UNCHANGED muxVars
  BY <1>1 DEF muxVars, ends, legs, outputs, MuxInv, LegType, Phase, Quiet, Requested, Working,
              Called, Announced, Announcing, Replied, Closed, Scripted, Clear, One, Two, Way
<1>2. CASE Next
  <2>1. open' \in BOOLEAN /\ next_id' \in Ids
    <3>1. CASE HostRequests
      BY <3>1, BoundAssumption DEF MuxInv, HostRequests, Ids
    <3>2. CASE LegCloses
      BY <3>2 DEF MuxInv, LegCloses, Ends
    <3>3. CASE \E leg \in Legs : ReadOn(leg)
      BY <3>3 DEF MuxInv, ReadOn, Ends, ends
    <3>4. CASE ~HostRequests /\ ~LegCloses /\ ~\E leg \in Legs : ReadOn(leg)
      BY <1>2, <3>4
        DEF MuxInv, Next, HostStep, EnclaveStep, MuxStep, HostReads, HostSeesEnd, Flush,
            EnclaveReads, EnclaveWrites, EnclaveAwaits, Handle, ends
    <3> QED
      BY <3>1, <3>2, <3>3, <3>4
  <2>2. LegType /\ next_id \in Ids /\ Phase
    BY DEF MuxInv
  <2>3. CASE Quiet
    BY <1>2, <2>1, <2>2, <2>3, FromQuiet DEF MuxInv, Phase
  <2>4. CASE \E r \in Requests : Requested(r)
    BY <1>2, <2>1, <2>2, <2>4, FromRequested DEF MuxInv, Phase
  <2>5. CASE Working
    BY <1>2, <2>1, <2>2, <2>5, FromWorking DEF MuxInv, Phase
  <2>6. CASE \E c \in Calling : Called(c)
    BY <1>2, <2>1, <2>2, <2>6, FromCalled DEF MuxInv, Phase
  <2>7. CASE \E a \in Announcements : Announced(a)
    BY <1>2, <2>1, <2>2, <2>7, FromAnnounced DEF MuxInv, Phase
  <2>8. CASE \E a \in Announcements, g \in Replies : Announcing(a, g)
    BY <1>2, <2>1, <2>2, <2>8, FromAnnouncing DEF MuxInv, Phase
  <2>9. CASE \E g \in Replies : Replied(g)
    BY <1>2, <2>1, <2>2, <2>9, FromReplied DEF MuxInv, Phase
  <2>10. CASE Closed
    BY <1>2, <2>1, <2>2, <2>10, FromClosed DEF MuxInv, Phase
  <2> QED
    BY <2>2, <2>3, <2>4, <2>5, <2>6, <2>7, <2>8, <2>9, <2>10 DEF Phase
<1> QED
  BY <1>1, <1>2

\* At any time the two legs are in one phase of one conversation
\* (loader/src/main.rs:295-336).
THEOREM OneConversation == Spec => []MuxInv
<1>1. Init => MuxInv
  BY MuxInit
<1>2. MuxInv /\ [Next]_muxVars => MuxInv'
  BY MuxInductive
<1> QED
  BY <1>1, <1>2, PTL DEF Spec

-----------------------------------------------------------------------------
(* What the invariant says of the two legs.                                *)

\* One leg is clear, and on the other one no more than two frames are under way.
LEMMA LegsOfPhase ==
  ASSUME MuxInv
  PROVE  /\ Clear("host") \/ Clear("enclave")
         /\ \A leg \in Legs : \/ Clear(leg)
                              \/ \E f \in AnyFrame : One(leg, f)
                              \/ \E f \in AnyFrame, g \in AnyFrame : Two(leg, f, g)
<1> USE FrameKinds, BothLegs DEF MuxInv, Phase
<1>1. CASE Quiet \/ Working \/ Closed
  BY <1>1 DEF Quiet, Working, Closed
<1>2. CASE \E r \in Requests : Requested(r)
  BY <1>2 DEF Requested
<1>3. CASE \E c \in Calling : Called(c)
  BY <1>3 DEF Called
<1>4. CASE \E a \in Announcements : Announced(a)
  BY <1>4 DEF Announced
<1>5. CASE \E a \in Announcements, g \in Replies : Announcing(a, g)
  BY <1>5 DEF Announcing
<1>6. CASE \E g \in Replies : Replied(g)
  BY <1>6 DEF Replied
<1> QED
  BY <1>1, <1>2, <1>3, <1>4, <1>5, <1>6

\* A frame is two pieces.
LEMMA LegLength ==
  ASSUME MuxInv, NEW leg \in Legs
  PROVE  Len(unsent[leg]) + Len(stream[leg]) <= 4
<1>1. /\ unsent[leg] \in Seq(Piece) /\ stream[leg] \in Seq(Piece)
      /\ Len(Way(leg)) = Len(stream[leg]) + Len(unsent[leg])
      /\ Len(stream[leg]) \in Nat /\ Len(unsent[leg]) \in Nat
  <2>1. unsent[leg] \in Seq(Piece) /\ stream[leg] \in Seq(Piece)
    BY DEF MuxInv, LegType
  <2> QED
    BY <2>1, ConcatProperties DEF Way
<1>2. Len(Way(leg)) \in 0..4
  <2>1. CASE Clear(leg)
    BY <2>1 DEF Clear
  <2>2. CASE \E f \in AnyFrame : One(leg, f)
    BY <2>2 DEF One
  <2>3. CASE \E f \in AnyFrame, g \in AnyFrame : Two(leg, f, g)
    BY <2>3 DEF Two
  <2> QED
    BY <2>1, <2>2, <2>3, LegsOfPhase
<1> DEFINE u == Len(unsent[leg])
           s == Len(stream[leg])
<1>3. u \in Nat /\ s \in Nat /\ s + u \in 0..4
  BY <1>1, <1>2
<1> HIDE DEF u, s
<1>4. u + s <= 4
  BY <1>3
<1> QED
  BY <1>4 DEF u, s

\* No more than one frame waits for the enclave: the request or the result of
\* its call, which the loop writes without a wait (loader/src/main.rs:314-331).
THEOREM OneFrameForTheEnclave == Spec => []MuxTypeOK
<1>1. MuxInv => MuxTypeOK
  <2> SUFFICES ASSUME MuxInv PROVE MuxTypeOK
    OBVIOUS
  <2>1. /\ exchange \in {"idle", "awaiting", "closed"}
        /\ enclave \in {"reading", "calling", "busy", "ended"}
        /\ toEnclave = <<>> \/ \E f : toEnclave = <<f>>
    BY DEF MuxInv, Phase, Quiet, Requested, Working, Called, Announced, Announcing, Replied, Closed
  <2>2. Len(toEnclave) <= 1
    <3>1. CASE toEnclave = <<>>
      BY <3>1
    <3>2. CASE \E f : toEnclave = <<f>>
      <4>1. PICK f : toEnclave = <<f>>
        BY <3>2
      <4>2. Len(<<f>>) = 1
        OBVIOUS
      <4> QED
        BY <4>1, <4>2
    <3> QED
      BY <2>1, <3>1, <3>2
  <2> QED
    BY <2>1, <2>2, LegLength DEF MuxTypeOK, MuxInv
<1> QED
  BY <1>1, OneConversation, PTL

\* A read that select! drops has taken nothing: whenever a frame is under way
\* on one leg, none is on the other (loader/src/main.rs:304-332).
THEOREM DroppedReadsTookNothing == Spec => []OneLegAtATime
<1>1. MuxInv => OneLegAtATime
  <2> SUFFICES ASSUME MuxInv PROVE OneLegAtATime
    OBVIOUS
  <2>1. PICK leg \in Legs : Clear(leg)
    BY LegsOfPhase, BothLegs
  <2>2. partial[leg] = NoFrame /\ stream[leg] = <<>>
    BY <2>1, ClearLeg DEF MuxInv
  <2> QED
    BY <2>2, BothLegs DEF OneLegAtATime
<1> QED
  BY <1>1, OneConversation, PTL

-----------------------------------------------------------------------------
(* The refinement.                                                         *)

\* The frames of the abstract channels.
RelayedRequests ==
  Only(IsRequest, toEnclave) \o Only(IsRequest, <<taken>>) \o UnderWay("host")
RelayedAnswers ==
  toHost \o Only(IsAnswer, <<taken>>) \o Only(IsAnswer, UnderWay("enclave"))

\* The frames that are under way on a leg.
LEMMA ClearUnderWay ==
  ASSUME NEW leg \in Legs, Clear(leg)
  PROVE  UnderWay(leg) = <<>>
<1> DEFINE p == Way(leg)
           n == (Len(p) + 1) \div 2
<1>1. UnderWay(leg) = [i \in 1..n |-> p[Len(p) - 2 * (n - i)].of]
  BY DEF UnderWay, Way
<1>2. Len(p) = 0
  BY DEF Clear
<1> HIDE DEF p
<1>3. n = 0
  BY <1>2
<1> QED
  BY <1>1, <1>3

\* Whole frames under way are what the leg carries.
LEMMA UnderWayFrames ==
  ASSUME NEW leg \in Legs, NEW f \in AnyFrame, NEW g \in AnyFrame
  PROVE  /\ One(leg, f) => UnderWay(leg) = <<f>>
         /\ Two(leg, f, g) => UnderWay(leg) = <<f, g>>
<1> DEFINE p == Way(leg)
           n == (Len(p) + 1) \div 2
<1>1. UnderWay(leg) = [i \in 1..n |-> p[Len(p) - 2 * (n - i)].of]
  BY DEF UnderWay, Way
<1> HIDE DEF p
<1>2. ASSUME One(leg, f) PROVE UnderWay(leg) = <<f>>
  <2>1. (Len(p) = 1 \/ Len(p) = 2) /\ p[Len(p)] = Body(f)
    BY <1>2 DEF One, p
  <2>2. n = 1
    <3>1. (1 + 1) \div 2 = 1 /\ (2 + 1) \div 2 = 1
      OBVIOUS
    <3> QED
      BY <2>1, <3>1
  <2>3. \A i \in 1..1 : Len(p) - 2 * (n - i) = Len(p)
    BY <2>1, <2>2
  <2>4. UnderWay(leg) = [i \in 1..1 |-> Body(f).of]
    BY <1>1, <2>1, <2>2, <2>3
  <2> QED
    BY <2>4 DEF Body
<1>3. ASSUME Two(leg, f, g) PROVE UnderWay(leg) = <<f, g>>
  <2>1. (Len(p) = 3 \/ Len(p) = 4) /\ p[Len(p)] = Body(g) /\ p[Len(p) - 2] = Body(f)
    <3>1. CASE Way(leg) = <<Prefix(f), Body(f), Prefix(g), Body(g)>>
      BY <3>1 DEF p
    <3>2. CASE Way(leg) = <<Body(f), Prefix(g), Body(g)>>
      BY <3>2 DEF p
    <3> QED
      BY <1>3, <3>1, <3>2 DEF Two
  <2>2. n = 2
    <3>1. (3 + 1) \div 2 = 2 /\ (4 + 1) \div 2 = 2
      OBVIOUS
    <3> QED
      BY <2>1, <3>1
  <2>3. Len(p) - 2 * (n - 1) = Len(p) - 2 /\ Len(p) - 2 * (n - 2) = Len(p)
    BY <2>1, <2>2
  <2>4. \A i \in 1..2 : p[Len(p) - 2 * (n - i)].of = <<f, g>>[i]
    BY <2>1, <2>2, <2>3 DEF Body
  <2>5. UnderWay(leg) = [i \in 1..2 |-> <<f, g>>[i]]
    BY <1>1, <2>2, <2>4
  <2> QED
    BY <2>5
<1> QED
  BY <1>2, <1>3

\* One frame, then another.
LEMMA ConcatFrames ==
  ASSUME NEW S, NEW a \in S, NEW g \in S
  PROVE  /\ <<>> \o <<>> = <<>> /\ <<>> \o <<a>> = <<a>> /\ <<a>> \o <<>> = <<a>>
         /\ <<a>> \o <<g>> = <<a, g>>
         /\ <<>> \o <<a, g>> = <<a, g>> /\ <<a, g>> \o <<>> = <<a, g>>
<1>1. <<>> \in Seq(S) /\ <<a>> \in Seq(S) /\ <<a, g>> \in Seq(S)
  OBVIOUS
<1>2. <<a>> \o <<g>> = <<a, g>>
  BY <1>1, AppendIsConcat, AppendToTuple
<1> QED
  BY <1>1, <1>2, ConcatEmptySeq

\* A queue is taken over when its frames are of the kind.
LEMMA OnlyFrames ==
  /\ Only(IsRequest, <<>>) = <<>> /\ Only(IsAnswer, <<>>) = <<>>
  /\ Only(IsRequest, <<NoFrame>>) = <<>> /\ Only(IsAnswer, <<NoFrame>>) = <<>>
  /\ \A r \in Requests : Only(IsRequest, <<r>>) = <<r>> /\ Only(IsAnswer, <<r>>) = <<>>
  /\ \A c \in Calling : Only(IsRequest, <<c>>) = <<>> /\ Only(IsAnswer, <<c>>) = <<>>
  /\ \A id : Only(IsRequest, <<Frame("result", id)>>) = <<>>
  /\ \A a \in Announcements \cup Replies :
       Only(IsRequest, <<a>>) = <<>> /\ Only(IsAnswer, <<a>>) = <<a>>
  /\ \A a \in Announcements, g \in Replies : Only(IsAnswer, <<a, g>>) = <<a, g>>
<1>1. \A f : Only(IsRequest, <<f>>) = IF f.kind = "request" THEN <<f>> ELSE <<>>
  BY DEF Only, IsRequest
<1>2. \A f : Only(IsAnswer, <<f>>) = IF f.kind \in {"announce", "reply"} THEN <<f>> ELSE <<>>
  BY DEF Only, IsAnswer
<1>3. \A f, g : f.kind \in {"announce", "reply"} /\ g.kind \in {"announce", "reply"} =>
                Only(IsAnswer, <<f, g>>) = <<f, g>>
  BY DEF Only, IsAnswer
<1>4. Only(IsRequest, <<>>) = <<>> /\ Only(IsAnswer, <<>>) = <<>>
  BY DEF Only
<1>5. NoFrame.kind = "none" /\ \A id : Frame("result", id).kind = "result"
  BY DEF NoFrame, Frame
<1> QED
  BY <1>1, <1>2, <1>3, <1>4, <1>5, FrameKinds

Relays(requests, answers) == RelayedRequests = requests /\ RelayedAnswers = answers

\* What each phase has on the abstract channels.
PhaseRelays ==
  /\ Quiet => Relays(<<>>, <<>>)
  /\ \A r \in Requests : Requested(r) => Relays(<<r>>, <<>>)
  /\ Working => Relays(<<>>, <<>>)
  /\ \A c \in Calling : Called(c) => Relays(<<>>, <<>>)
  /\ \A a \in Announcements : Announced(a) => Relays(<<>>, <<a>>)
  /\ \A a \in Announcements, g \in Replies : Announcing(a, g) => Relays(<<>>, <<a, g>>)
  /\ \A g \in Replies : Replied(g) => Relays(<<>>, <<g>>)
  /\ Closed => RelayedRequests = <<>> /\ RelayedAnswers = toHost

\* The parts of the two channels: what waits for an end, the frame that the
\* loop works on, and the frames under way on the leg.
Parts(q, qTaken, qLeg, s, sTaken, sLeg) ==
  /\ Only(IsRequest, toEnclave) = q
  /\ Only(IsRequest, <<taken>>) = qTaken
  /\ UnderWay("host") = qLeg
  /\ toHost = s
  /\ Only(IsAnswer, <<taken>>) = sTaken
  /\ Only(IsAnswer, UnderWay("enclave")) = sLeg

\* A frame is in one of the three parts.
LEMMA RelaysParts ==
  ASSUME NEW f \in AnyFrame, NEW g \in AnyFrame
  PROVE  /\ Parts(<<>>, <<>>, <<>>, <<>>, <<>>, <<>>) => Relays(<<>>, <<>>)
         /\ \/ Parts(<<f>>, <<>>, <<>>, <<>>, <<>>, <<>>)
            \/ Parts(<<>>, <<f>>, <<>>, <<>>, <<>>, <<>>)
            \/ Parts(<<>>, <<>>, <<f>>, <<>>, <<>>, <<>>)
            => Relays(<<f>>, <<>>)
         /\ \/ Parts(<<>>, <<>>, <<>>, <<f>>, <<>>, <<>>)
            \/ Parts(<<>>, <<>>, <<>>, <<>>, <<f>>, <<>>)
            \/ Parts(<<>>, <<>>, <<>>, <<>>, <<>>, <<f>>)
            => Relays(<<>>, <<f>>)
         /\ \/ Parts(<<>>, <<>>, <<>>, <<>>, <<>>, <<f, g>>)
            \/ Parts(<<>>, <<>>, <<>>, <<>>, <<f>>, <<g>>)
            \/ Parts(<<>>, <<>>, <<>>, <<f>>, <<>>, <<g>>)
            \/ Parts(<<>>, <<>>, <<>>, <<f>>, <<g>>, <<>>)
            \/ Parts(<<>>, <<>>, <<>>, <<f, g>>, <<>>, <<>>)
            => Relays(<<>>, <<f, g>>)
<1>1. /\ <<>> \o <<>> = <<>>
      /\ <<>> \o <<f>> = <<f>> /\ <<f>> \o <<>> = <<f>>
      /\ <<f>> \o <<g>> = <<f, g>>
      /\ <<>> \o <<f, g>> = <<f, g>> /\ <<f, g>> \o <<>> = <<f, g>>
  BY ConcatFrames
<1> QED
  BY <1>1, Zenon DEF Parts, Relays, RelayedRequests, RelayedAnswers

\* In each phase, the frames that the two channels of Relay hold.
LEMMA FramesOfPhase == PhaseRelays
<1> USE FrameKinds, BothLegs, ClearUnderWay, UnderWayFrames, OnlyFrames
<1>1. ASSUME Quiet \/ Working PROVE Relays(<<>>, <<>>)
  <2>1. Parts(<<>>, <<>>, <<>>, <<>>, <<>>, <<>>)
    BY <1>1 DEF Quiet, Working, Parts
  <2>2. \E f : f \in AnyFrame
    <3>1. Frame("call", 0) \in Calling
      BY BoundAssumption DEF Frame, Calling, Ids
    <3> QED
      BY <3>1
  <2> QED
    BY <2>1, <2>2, RelaysParts
<1>2. ASSUME NEW r \in Requests, Requested(r) PROVE Relays(<<r>>, <<>>)
  <2>1. \/ Parts(<<r>>, <<>>, <<>>, <<>>, <<>>, <<>>)
        \/ Parts(<<>>, <<r>>, <<>>, <<>>, <<>>, <<>>)
        \/ Parts(<<>>, <<>>, <<r>>, <<>>, <<>>, <<>>)
    BY <1>2 DEF Requested, Parts
  <2> QED
    BY <2>1, RelaysParts
<1>3. ASSUME NEW c \in Calling, Called(c) PROVE Relays(<<>>, <<>>)
  <2>1. Parts(<<>>, <<>>, <<>>, <<>>, <<>>, <<>>)
    BY <1>3 DEF Called, Parts
  <2> QED
    BY <2>1, RelaysParts
<1>4. ASSUME NEW a \in Announcements, Announced(a) PROVE Relays(<<>>, <<a>>)
  <2>1. \/ Parts(<<>>, <<>>, <<>>, <<a>>, <<>>, <<>>)
        \/ Parts(<<>>, <<>>, <<>>, <<>>, <<a>>, <<>>)
        \/ Parts(<<>>, <<>>, <<>>, <<>>, <<>>, <<a>>)
    BY <1>4 DEF Announced, Parts
  <2> QED
    BY <2>1, RelaysParts
<1>5. ASSUME NEW a \in Announcements, NEW g \in Replies, Announcing(a, g)
      PROVE  Relays(<<>>, <<a, g>>)
  <2>1. \/ Parts(<<>>, <<>>, <<>>, <<>>, <<>>, <<a, g>>)
        \/ Parts(<<>>, <<>>, <<>>, <<>>, <<a>>, <<g>>)
        \/ Parts(<<>>, <<>>, <<>>, <<a>>, <<>>, <<g>>)
        \/ Parts(<<>>, <<>>, <<>>, <<a>>, <<g>>, <<>>)
        \/ Parts(<<>>, <<>>, <<>>, <<a, g>>, <<>>, <<>>)
    BY <1>5 DEF Announcing, Parts
  <2> QED
    BY <2>1, RelaysParts
<1>6. ASSUME NEW g \in Replies, Replied(g) PROVE Relays(<<>>, <<g>>)
  <2>1. \/ Parts(<<>>, <<>>, <<>>, <<g>>, <<>>, <<>>)
        \/ Parts(<<>>, <<>>, <<>>, <<>>, <<g>>, <<>>)
        \/ Parts(<<>>, <<>>, <<>>, <<>>, <<>>, <<g>>)
    BY <1>6 DEF Replied, Parts
  <2> QED
    BY <2>1, RelaysParts
<1>7. ASSUME Closed PROVE RelayedRequests = <<>> /\ RelayedAnswers = toHost
  <2>1. Parts(<<>>, <<>>, <<>>, toHost, <<>>, <<>>)
    BY <1>7 DEF Closed, Parts
  <2>2. <<>> \o <<>> = <<>> /\ toHost \o <<>> = toHost
    BY <1>7, ConcatFrames, ConcatEmptySeq DEF Closed
  <2> QED
    BY ONLY <2>1, <2>2, Zenon DEF Parts, RelayedRequests, RelayedAnswers
<1> QED
  BY <1>1, <1>2, <1>3, <1>4, <1>5, <1>6, <1>7 DEF PhaseRelays

\* The same of the state after a step.
LEMMA FramesOfNextPhase == PhaseRelays'
BY FramesOfPhase, PTL

\* What a connection that closes may leave of one or two frames.
LEMMA PrefixFrames ==
  ASSUME NEW S, NEW a \in S, NEW g \in S
  PROVE  /\ SubSeq(<<>>, 1, 0) = <<>> /\ SubSeq(<<a>>, 1, 0) = <<>> /\ SubSeq(<<a, g>>, 1, 0) = <<>>
         /\ SubSeq(<<a>>, 1, 1) = <<a>> /\ SubSeq(<<a, g>>, 1, 1) = <<a>>
         /\ SubSeq(<<a, g>>, 1, 2) = <<a, g>>
<1>1. <<>> \in Seq(S) /\ <<a>> \in Seq(S) /\ <<a, g>> \in Seq(S)
  OBVIOUS
<1>2. SubSeq(<<>>, 1, 0) = <<>> /\ SubSeq(<<a>>, 1, 0) = <<>> /\ SubSeq(<<a, g>>, 1, 0) = <<>>
  BY SubSeqEmpty
<1>3. SubSeq(<<a>>, 1, 1) = <<a>>
  BY <1>1, SubSeqFull
<1>4. SubSeq(<<a, g>>, 1, 2) = <<a, g>>
  BY <1>1, SubSeqFull
<1>5. SubSeq(<<a, g>>, 1, 1) = <<a>>
  <2> DEFINE s == SubSeq(<<a, g>>, 1, 1)
             t == <<a>>
  <2>1. s \in Seq(S) /\ Len(s) = 1 /\ s[1] = a
    BY <1>1, SubSeqProperties
  <2>2. t \in Seq(S) /\ Len(t) = 1 /\ t[1] = a
    BY <1>1
  <2> HIDE DEF s, t
  <2>3. \A i \in 1..Len(s) : s[i] = t[i]
    BY <2>1, <2>2
  <2> QED
    BY <2>1, <2>2, <2>3, SeqEqual DEF s, t
<1> QED
  BY <1>2, <1>3, <1>4, <1>5

\* The steps of the two channels, as steps of what they relay.
LEMMA RelaySends ==
  ASSUME open, UNCHANGED open, UNCHANGED got
  PROVE  /\ \A f \in Requests :
              Relays(<<>>, <<>>) /\ Relays(<<f>>, <<>>)' => Leg!SendRequest
         /\ \A f \in Announcements \cup Replies :
              Relays(<<>>, <<>>) /\ Relays(<<>>, <<f>>)' => Leg!SendAnswer
         /\ \A a \in Announcements, g \in Replies :
              Relays(<<>>, <<a>>) /\ Relays(<<>>, <<a, g>>)' => Leg!SendAnswer
<1>1. ASSUME NEW f \in Requests, Relays(<<>>, <<>>), Relays(<<f>>, <<>>)'
      PROVE  Leg!SendRequest
  <2>1. f \in {Frame("request", id) : id \in 1..MaxRequests}
    BY DEF Requests, Frame
  <2>2. Append(<<>>, f) = <<f>>
    OBVIOUS
  <2> QED
    BY <1>1, <2>1, <2>2, Zenon DEF Leg!SendRequest, got, Relays, RelayedRequests, RelayedAnswers
<1>2. ASSUME NEW f \in Announcements \cup Replies
      PROVE  f \in AnswerFrames
  BY DEF Announcements, Replies, Ids, Frame, AnswerFrames
<1>3. ASSUME NEW f \in Announcements \cup Replies, Relays(<<>>, <<>>), Relays(<<>>, <<f>>)'
      PROVE  Leg!SendAnswer
  <2>1. Append(<<>>, f) = <<f>>
    OBVIOUS
  <2> QED
    BY <1>2, <1>3, <2>1, Zenon DEF Leg!SendAnswer, got, Relays, RelayedRequests, RelayedAnswers
<1>4. ASSUME NEW a \in Announcements, NEW g \in Replies, Relays(<<>>, <<a>>), Relays(<<>>, <<a, g>>)'
      PROVE  Leg!SendAnswer
  <2>1. g \in Announcements \cup Replies /\ Append(<<a>>, g) = <<a, g>>
    BY AppendToTuple
  <2> QED
    BY <1>2, <1>4, <2>1, Zenon DEF Leg!SendAnswer, got, Relays, RelayedRequests, RelayedAnswers
<1> QED
  BY <1>1, <1>3, <1>4

\* A frame that leaves the last place of a channel is taken by its reader.
LEMMA RelayTakes ==
  ASSUME UNCHANGED open
  PROVE  /\ \A f \in Requests :
              Relays(<<f>>, <<>>) /\ Relays(<<>>, <<>>)' /\ HeardRequest(f) => Leg!TakeRequest
         /\ \A f \in Announcements \cup Replies :
              Relays(<<>>, <<f>>) /\ Relays(<<>>, <<>>)' /\ HeardAnswer(f) => Leg!TakeAnswer
         /\ \A a \in Announcements, g \in Replies :
              Relays(<<>>, <<a, g>>) /\ Relays(<<>>, <<g>>)' /\ HeardAnswer(a) => Leg!TakeAnswer
<1>1. \A f : <<f>> # <<>> /\ Head(<<f>>) = f /\ Tail(<<f>>) = <<>>
  OBVIOUS
<1>2. \A f, g : <<f, g>> # <<>> /\ Head(<<f, g>>) = f /\ Tail(<<f, g>>) = <<g>>
  OBVIOUS
<1> QED
  BY <1>1, <1>2, Zenon
    DEF Leg!TakeRequest, Leg!TakeAnswer, HeardRequest, HeardAnswer, Relays, RelayedRequests, RelayedAnswers

\* When the connection closes, the host can still read what it was sent.
LEMMA RelayCloses ==
  ASSUME MuxInv, LegCloses, Closed', toHost' \in {<<>>, toHost}
  PROVE  Leg!Close
<1>1. open /\ open' = FALSE /\ UNCHANGED got
  BY DEF LegCloses, Ends
<1>2. RelayedRequests' = <<>> /\ RelayedAnswers' = toHost'
  BY FramesOfNextPhase DEF PhaseRelays
<1>3. ASSUME NEW n \in 0..Len(RelayedAnswers), toHost' = SubSeq(RelayedAnswers, 1, n)
      PROVE  Leg!Close
  BY <1>1, <1>2, <1>3, Zenon DEF Leg!Close, got, RelayedRequests, RelayedAnswers
<1>4. \/ \E requests : Relays(requests, <<>>) /\ toHost = <<>>
      \/ \E g \in Announcements \cup Replies : Relays(<<>>, <<g>>) /\ toHost \in {<<>>, <<g>>}
      \/ \E a \in Announcements, g \in Replies :
           Relays(<<>>, <<a, g>>) /\ toHost \in {<<>>, <<a>>, <<a, g>>}
  BY <1>1, FramesOfPhase
    DEF MuxInv, Phase, PhaseRelays, Quiet, Requested, Working, Called, Announced, Announcing,
        Replied, Closed
<1>5. CASE \E requests : Relays(requests, <<>>) /\ toHost = <<>>
  <2>1. RelayedAnswers = <<>> /\ toHost' = <<>>
    BY <1>5 DEF Relays
  <2>2. SubSeq(<<>>, 1, 0) = <<>> /\ 0 \in 0..Len(<<>>)
    BY PrefixFrames
  <2> QED
    BY <1>3, <2>1, <2>2
<1>6. CASE \E g \in Announcements \cup Replies : Relays(<<>>, <<g>>) /\ toHost \in {<<>>, <<g>>}
  <2>1. PICK g \in Announcements \cup Replies :
          RelayedAnswers = <<g>> /\ toHost' \in {<<>>, <<g>>}
    BY <1>6 DEF Relays
  <2>2. /\ SubSeq(<<g>>, 1, 0) = <<>> /\ SubSeq(<<g>>, 1, 1) = <<g>>
        /\ 0 \in 0..Len(<<g>>) /\ 1 \in 0..Len(<<g>>)
    <3>1. 0 \in 0..Len(<<g>>) /\ 1 \in 0..Len(<<g>>)
      OBVIOUS
    <3> QED
      BY <3>1, PrefixFrames, Zenon
  <2>3. CASE toHost' = <<>>
    BY ONLY <1>3, <2>1, <2>2, <2>3, Zenon
  <2>4. CASE toHost' = <<g>>
    BY ONLY <1>3, <2>1, <2>2, <2>4, Zenon
  <2> QED
    BY <2>1, <2>3, <2>4
<1>7. CASE \E a \in Announcements, g \in Replies :
             Relays(<<>>, <<a, g>>) /\ toHost \in {<<>>, <<a>>, <<a, g>>}
  <2>1. PICK a \in Announcements, g \in Replies :
          RelayedAnswers = <<a, g>> /\ toHost' \in {<<>>, <<a>>, <<a, g>>}
    BY <1>7 DEF Relays
  <2>2. /\ SubSeq(<<a, g>>, 1, 0) = <<>> /\ SubSeq(<<a, g>>, 1, 1) = <<a>>
        /\ SubSeq(<<a, g>>, 1, 2) = <<a, g>>
        /\ 0 \in 0..Len(<<a, g>>) /\ 1 \in 0..Len(<<a, g>>) /\ 2 \in 0..Len(<<a, g>>)
    <3>1. a \in Announcements \cup Replies /\ g \in Announcements \cup Replies
      OBVIOUS
    <3>2. 0 \in 0..Len(<<a, g>>) /\ 1 \in 0..Len(<<a, g>>) /\ 2 \in 0..Len(<<a, g>>)
      OBVIOUS
    <3> QED
      BY <3>1, <3>2, PrefixFrames, Zenon
  <2>3. CASE toHost' = <<>>
    BY ONLY <1>3, <2>1, <2>2, <2>3, Zenon
  <2>4. CASE toHost' = <<a>>
    BY ONLY <1>3, <2>1, <2>2, <2>4, Zenon
  <2>5. CASE toHost' = <<a, g>>
    BY ONLY <1>3, <2>1, <2>2, <2>5, Zenon
  <2> QED
    BY <2>1, <2>3, <2>4, <2>5
<1> QED
  BY <1>4, <1>5, <1>6, <1>7

\* Every step of the connection is a step of the two channels, or not seen there.
LEMMA MuxStepRefines ==
  ASSUME MuxInv, Next
  PROVE  Leg!Next \/ UNCHANGED Leg!relayVars
<1> USE FramesOfPhase, FramesOfNextPhase DEF PhaseRelays
<1>1. LegType /\ next_id \in Ids /\ Phase
  BY DEF MuxInv
<1>2. ASSUME NEW q, NEW s, Relays(q, s), Relays(q, s)', UNCHANGED <<open, got>>
      PROVE  UNCHANGED Leg!relayVars
  BY <1>2 DEF Leg!relayVars, got, Relays, RelayedRequests, RelayedAnswers
<1>3. open /\ open' => UNCHANGED open
  BY MuxInductive DEF MuxInv
<1>4. LegCloses /\ Closed' /\ toHost' \in {<<>>, toHost} => Leg!Next
  BY RelayCloses DEF Leg!Next
<1>5. CASE Quiet
  <2>1. \/ \E r \in Requests : Requested(r)' /\ UNCHANGED got
        \/ Closed' /\ LegCloses /\ toHost' = <<>>
    BY <1>1, <1>5, FromQuiet
  <2>2. ASSUME NEW r \in Requests, Requested(r)', UNCHANGED got PROVE Leg!Next
    BY <1>3, <1>5, <2>2, RelaySends DEF Leg!Next, Quiet, Requested
  <2> QED
    BY <1>4, <2>1, <2>2
<1>6. ASSUME NEW r \in Requests, Requested(r) PROVE Leg!Next \/ UNCHANGED Leg!relayVars
  <2>1. \/ Requested(r)' /\ UNCHANGED got
        \/ Working' /\ HeardRequest(r)
        \/ Closed' /\ LegCloses /\ toHost' = <<>>
    BY <1>1, <1>6, FromRequested
  <2>2. CASE Requested(r)' /\ UNCHANGED got
    BY <1>2, <1>3, <1>6, <2>2 DEF Requested
  <2>3. CASE Working' /\ HeardRequest(r)
    BY <1>3, <1>6, <2>3, RelayTakes DEF Leg!Next, Requested, Working
  <2> QED
    BY <1>4, <2>1, <2>2, <2>3
<1>7. CASE Working
  <2>1. \/ (\E c \in Calling : Called(c)') /\ UNCHANGED got
        \/ (\E a \in Announcements : Announced(a)') /\ UNCHANGED got
        \/ (\E g \in Replies : Replied(g)') /\ UNCHANGED got
        \/ Closed' /\ LegCloses /\ toHost' = <<>>
    BY <1>1, <1>7, FromWorking
  <2>2. ASSUME NEW c \in Calling, Called(c)', UNCHANGED got PROVE UNCHANGED Leg!relayVars
    BY <1>2, <1>3, <1>7, <2>2 DEF Working, Called
  <2>3. ASSUME NEW a \in Announcements, Announced(a)', UNCHANGED got PROVE Leg!Next
    BY <1>3, <1>7, <2>3, RelaySends DEF Leg!Next, Working, Announced
  <2>4. ASSUME NEW g \in Replies, Replied(g)', UNCHANGED got PROVE Leg!Next
    BY <1>3, <1>7, <2>4, RelaySends DEF Leg!Next, Working, Replied
  <2> QED
    BY <1>4, <2>1, <2>2, <2>3, <2>4
<1>8. ASSUME NEW c \in Calling, Called(c) PROVE Leg!Next \/ UNCHANGED Leg!relayVars
  <2>1. \/ (Called(c)' \/ Working') /\ UNCHANGED got
        \/ Closed' /\ LegCloses /\ toHost' = <<>>
    BY <1>1, <1>8, FromCalled
  <2>2. CASE (Called(c)' \/ Working') /\ UNCHANGED got
    BY <1>2, <1>3, <1>8, <2>2 DEF Called, Working
  <2> QED
    BY <1>4, <2>1, <2>2
<1>9. ASSUME NEW a \in Announcements, Announced(a) PROVE Leg!Next \/ UNCHANGED Leg!relayVars
  <2>1. \/ Announced(a)' /\ UNCHANGED got
        \/ Working' /\ HeardAnswer(a)
        \/ (\E g \in Replies : Announcing(a, g)') /\ UNCHANGED got
        \/ Closed' /\ LegCloses /\ toHost' \in {<<>>, toHost}
    BY <1>1, <1>9, FromAnnounced
  <2>2. CASE Announced(a)' /\ UNCHANGED got
    BY <1>2, <1>3, <1>9, <2>2 DEF Announced
  <2>3. CASE Working' /\ HeardAnswer(a)
    BY <1>3, <1>9, <2>3, RelayTakes DEF Leg!Next, Announced, Working
  <2>4. ASSUME NEW g \in Replies, Announcing(a, g)', UNCHANGED got PROVE Leg!Next
    BY <1>3, <1>9, <2>4, RelaySends DEF Leg!Next, Announced, Announcing
  <2> QED
    BY <1>4, <2>1, <2>2, <2>3, <2>4
<1>10. ASSUME NEW a \in Announcements, NEW g \in Replies, Announcing(a, g)
       PROVE  Leg!Next \/ UNCHANGED Leg!relayVars
  <2>1. \/ Announcing(a, g)' /\ UNCHANGED got
        \/ Replied(g)' /\ HeardAnswer(a)
        \/ Closed' /\ LegCloses /\ toHost' \in {<<>>, toHost}
    BY <1>1, <1>10, FromAnnouncing
  <2>2. CASE Announcing(a, g)' /\ UNCHANGED got
    BY <1>2, <1>3, <1>10, <2>2 DEF Announcing
  <2>3. CASE Replied(g)' /\ HeardAnswer(a)
    BY <1>3, <1>10, <2>3, RelayTakes DEF Leg!Next, Announcing, Replied
  <2> QED
    BY <1>4, <2>1, <2>2, <2>3
<1>11. ASSUME NEW g \in Replies, Replied(g) PROVE Leg!Next \/ UNCHANGED Leg!relayVars
  <2>1. \/ Replied(g)' /\ UNCHANGED got
        \/ Quiet' /\ HeardAnswer(g)
        \/ Closed' /\ LegCloses /\ toHost' \in {<<>>, toHost}
    BY <1>1, <1>11, FromReplied
  <2>2. CASE Replied(g)' /\ UNCHANGED got
    BY <1>2, <1>3, <1>11, <2>2 DEF Replied
  <2>3. CASE Quiet' /\ HeardAnswer(g)
    BY <1>3, <1>11, <2>3, RelayTakes DEF Leg!Next, Replied, Quiet
  <2> QED
    BY <1>4, <2>1, <2>2, <2>3
<1>12. CASE Closed
  <2>1. Closed' /\ (UNCHANGED <<toHost, got>> \/ HostReads)
    BY <1>1, <1>12, FromClosed
  <2>2. /\ RelayedRequests = <<>> /\ RelayedRequests' = <<>>
        /\ RelayedAnswers = toHost /\ RelayedAnswers' = toHost'
    BY <1>12, <2>1
  <2>3. UNCHANGED open
    BY <1>12, <2>1, MuxInductive DEF Closed, MuxInv
  <2>4. CASE UNCHANGED <<toHost, got>>
    BY <2>2, <2>3, <2>4 DEF Leg!relayVars, got, RelayedRequests, RelayedAnswers
  <2>5. CASE HostReads
    <3>1. /\ RelayedAnswers # <<>> /\ RelayedAnswers' = Tail(RelayedAnswers)
          /\ gotAnswers' = Append(gotAnswers, Head(RelayedAnswers)) /\ UNCHANGED gotRequests
      BY <2>2, <2>5 DEF HostReads
    <3>2. Leg!TakeAnswer
      BY <2>2, <2>3, <3>1, Zenon DEF Leg!TakeAnswer, RelayedRequests, RelayedAnswers
    <3> QED
      BY <3>2 DEF Leg!Next
  <2> QED
    BY <2>1, <2>4, <2>5
<1> QED
  BY <1>1, <1>5, <1>6, <1>7, <1>8, <1>9, <1>10, <1>11, <1>12 DEF Phase

\* The loader relays the frames between host and enclave in order, each once
\* and to a reader, and keeps the calls of the enclave to itself
\* (loader/src/main.rs:295-336).
THEOREM MuxRelays == Spec => ImplementsRelay
<1>1. Init => Leg!Init
  <2> SUFFICES ASSUME Init PROVE Leg!Init
    OBVIOUS
  <2>1. Relays(<<>>, <<>>)
    BY MuxInit, FramesOfPhase DEF PhaseRelays
  <2>2. open = TRUE /\ gotRequests = <<>> /\ gotAnswers = <<>>
    BY DEF Init
  <2> QED
    BY <2>1, <2>2, Zenon DEF Leg!Init, Relays, RelayedRequests, RelayedAnswers
<1>2. MuxInv /\ [Next]_muxVars => [Leg!Next]_Leg!relayVars
  <2>1. UNCHANGED muxVars => UNCHANGED Leg!relayVars
    BY DEF muxVars, ends, got, legs, outputs, Leg!relayVars, Only, UnderWay
  <2> QED
    BY <2>1, MuxStepRefines
<1> QED
  BY <1>1, <1>2, OneConversation, PTL DEF Spec, ImplementsRelay, Leg!Spec

=============================================================================
