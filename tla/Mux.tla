-------------------------------- MODULE Mux --------------------------------
(***************************************************************************)
(* run_multiplexer of loader/src/main.rs between the host and the enclave. *)
(* It selects over a read on each of its two legs.  A read takes the       *)
(* length prefix of a frame and then its body, which need not arrive       *)
(* together; when the read on one leg completes, select! drops the other   *)
(* one with whatever it has taken.  The frame is then answered, if it is a *)
(* call to the loader, or forwarded, and the loop starts two new reads.    *)
(*                                                                         *)
(* The two ends are reduced to the order of their frames: the host has one *)
(* exchange at a time (Host), the enclave handles one request at a time    *)
(* and waits for each of its calls (Runtime).                              *)
(***************************************************************************)
EXTENDS Naturals, Sequences

CONSTANTS
  MaxCalls,           \* bound: loader calls the enclave makes for one request
  MaxRequests         \* bound: requests of the host

ASSUME BoundAssumption == MaxCalls \in Nat \ {0} /\ MaxRequests \in Nat

VARIABLES
  open,               \* whether the loop runs
  exchange,           \* the host: "idle", "awaiting", "closed"
  next_id,
  enclave,            \* "reading", "calling", "busy", "ended"
  script,             \* the frames it has yet to write for this request
  unsent,             \* per leg: pieces of a frame not yet written
  stream,             \* per leg: pieces the loader has not read
  partial,            \* per leg: the prefix the pending read has taken
  taken,              \* the frame the loop works on
  toHost, toEnclave,  \* frames written by the loader and not yet read
  gotRequests,        \* history: the requests the enclave has read
  gotAnswers          \* history: the answers the host has read

got     == <<gotRequests, gotAnswers>>
ends    == <<open, exchange, next_id, enclave, script, got>>
legs    == <<unsent, stream>>
outputs == <<toHost, toEnclave>>
muxVars == <<ends, legs, partial, taken, outputs>>

-----------------------------------------------------------------------------
Legs == {"host", "enclave"}

Frame(kind, id) == [kind |-> kind, id |-> id]

NoFrame == Frame("none", 0)

\* encode_frame: the length prefix, then the body.
Pieces(frame) == <<[part |-> "prefix", of |-> frame], [part |-> "body", of |-> frame]>>

Calls(n, id) == [i \in 1..n |-> Frame("call", id)]

\* What the enclave writes for a request: calls to the loader, perhaps an
\* attestation that was not asked for, and the reply.
Scripts(id) ==
  {Calls(n, id) \o a \o <<Frame("reply", id)>> :
     n \in 0..MaxCalls, a \in {<<>>, <<Frame("announce", id)>>}}

\* The enclave begins with bootstrap_store: it reads and writes blobs and says
\* that it is ready, for which the host waits as for a reply.
Init ==
  /\ open = TRUE
  /\ exchange = "awaiting"
  /\ next_id = 0
  /\ enclave = "busy"
  /\ \E n \in 1..MaxCalls : script = Calls(n, 0) \o <<Frame("reply", 0)>>
  /\ unsent = [l \in Legs |-> <<>>]
  /\ stream = [l \in Legs |-> <<>>]
  /\ partial = [l \in Legs |-> NoFrame]
  /\ taken = NoFrame
  /\ toHost = <<>> /\ toEnclave = <<>>
  /\ gotRequests = <<>> /\ gotAnswers = <<>>

-----------------------------------------------------------------------------
(* The two ends.                                                           *)

\* Mutant: a second thread writes a request while the first one waits.
Pipelined == exchange \in {"idle", "awaiting"}

\* The mutex of the host is held until the answer is read.
MayRequest == exchange = "idle"

HostRequests ==
  /\ open /\ MayRequest
  /\ unsent["host"] = <<>>
  /\ next_id < MaxRequests
  /\ next_id' = next_id + 1
  /\ unsent' = [unsent EXCEPT !["host"] = Pieces(Frame("request", next_id + 1))]
  /\ exchange' = "awaiting"
  /\ UNCHANGED <<open, enclave, script, got, stream, partial, taken, outputs>>

HostReads ==
  /\ exchange = "awaiting"
  /\ toHost # <<>>
  /\ toHost' = Tail(toHost)
  /\ exchange' = IF Head(toHost).kind = "reply" THEN "idle" ELSE "awaiting"
  /\ gotAnswers' = Append(gotAnswers, Head(toHost))
  /\ UNCHANGED <<open, next_id, enclave, script, gotRequests, legs, partial, taken, toEnclave>>

\* A read or a write on the closed leg fails.
HostSeesEnd ==
  /\ ~open /\ toHost = <<>>
  /\ exchange # "closed"
  /\ exchange' = "closed"
  /\ UNCHANGED <<open, next_id, enclave, script, got, legs, partial, taken, outputs>>

\* A write reaches the socket in pieces.
Flush(leg) ==
  /\ unsent[leg] # <<>>
  /\ stream' = [stream EXCEPT ![leg] = Append(@, Head(unsent[leg]))]
  /\ unsent' = [unsent EXCEPT ![leg] = Tail(@)]
  /\ UNCHANGED <<ends, partial, taken, outputs>>

EnclaveReads ==
  /\ enclave = "reading"
  /\ toEnclave # <<>>
  /\ toEnclave' = Tail(toEnclave)
  /\ script' \in Scripts(Head(toEnclave).id)
  /\ enclave' = "busy"
  /\ gotRequests' = Append(gotRequests, Head(toEnclave))
  /\ UNCHANGED <<open, exchange, next_id, gotAnswers, legs, partial, taken, toHost>>

EnclaveWrites ==
  /\ enclave = "busy"
  /\ unsent["enclave"] = <<>>
  /\ unsent' = [unsent EXCEPT !["enclave"] = Pieces(Head(script))]
  /\ script' = Tail(script)
  /\ enclave' = CASE Head(script).kind = "call"  -> "calling"
                  [] Head(script).kind = "reply" -> "reading"
                  [] OTHER                       -> "busy"
  /\ UNCHANGED <<open, exchange, next_id, got, stream, partial, taken, outputs>>

\* The loop of loader_*: a frame that is not the result is dropped.
EnclaveAwaits ==
  /\ enclave = "calling"
  /\ toEnclave # <<>>
  /\ toEnclave' = Tail(toEnclave)
  /\ enclave' = IF Head(toEnclave).kind = "result" THEN "busy" ELSE "calling"
  /\ UNCHANGED <<open, exchange, next_id, script, got, legs, partial, taken, toHost>>

-----------------------------------------------------------------------------
(* The loop.                                                               *)

\* The loop ends and drops both legs: the enclave fails at its next call or
\* read, the host when it has read what was written to it.
Ends ==
  /\ open' = FALSE
  /\ enclave' = "ended"
  /\ script' = <<>>
  /\ unsent' = [l \in Legs |-> <<>>]
  /\ stream' = [l \in Legs |-> <<>>]
  /\ partial' = [l \in Legs |-> NoFrame]
  /\ taken' = NoFrame
  /\ toEnclave' = <<>>
  /\ UNCHANGED <<next_id, got>>

LegCloses ==
  /\ open
  /\ Ends
  /\ \/ exchange' = "closed" /\ toHost' = <<>>
     \/ UNCHANGED <<exchange, toHost>>

\* The read on a leg goes on by one piece.  With the body it is done and the
\* read on the other leg is dropped.  A body where a prefix is due reads as a
\* length beyond the limit.
ReadOn(leg) ==
  /\ open /\ taken = NoFrame
  /\ stream[leg] # <<>>
  /\ LET piece == Head(stream[leg])
     IN  IF piece.part = "body" /\ partial[leg] = NoFrame
           THEN Ends /\ UNCHANGED <<exchange, toHost>>
         ELSE /\ stream' = [stream EXCEPT ![leg] = Tail(@)]
              /\ IF piece.part = "prefix"
                   THEN /\ partial' = [partial EXCEPT ![leg] = piece.of]
                        /\ UNCHANGED taken
                   ELSE /\ partial' = [l \in Legs |-> NoFrame]
                        /\ taken' = piece.of
              /\ UNCHANGED <<ends, unsent, outputs>>

\* Mutant: the result of a call is forwarded like any other frame.
EverythingForwarded(frame) == FALSE

\* Mutant: whatever the enclave sends is answered, but the replies.
OnlyRepliesForwarded(frame) == frame.kind \in {"call", "announce"}

IsLoaderCall(frame) == frame.kind = "call"

Handle ==
  /\ taken # NoFrame
  /\ taken' = NoFrame
  /\ IF IsLoaderCall(taken)
       THEN toEnclave' = Append(toEnclave, Frame("result", taken.id)) /\ UNCHANGED toHost
     ELSE IF taken.kind = "request"
       THEN toEnclave' = Append(toEnclave, taken) /\ UNCHANGED toHost
     ELSE toHost' = Append(toHost, taken) /\ UNCHANGED toEnclave
  /\ UNCHANGED <<ends, legs, partial>>

-----------------------------------------------------------------------------
HostStep    == HostRequests \/ HostReads \/ HostSeesEnd \/ Flush("host")
EnclaveStep == EnclaveReads \/ EnclaveWrites \/ EnclaveAwaits \/ Flush("enclave")
MuxStep     == (\E leg \in Legs : ReadOn(leg)) \/ Handle

Next == HostStep \/ EnclaveStep \/ MuxStep \/ LegCloses

Spec == Init /\ [][Next]_muxVars

\* The three processes run; that a leg closes is not assumed.
FairSpec == Spec /\ WF_muxVars(HostStep) /\ WF_muxVars(EnclaveStep) /\ WF_muxVars(MuxStep)

-----------------------------------------------------------------------------
(* Properties.                                                             *)

\* The control state has its type, no more than two frames are on a leg, and no
\* more than one waits for the enclave: either the request or the result of its
\* call (loader/src/main.rs:314-331).
MuxTypeOK ==
  /\ open \in BOOLEAN
  /\ exchange \in {"idle", "awaiting", "closed"}
  /\ enclave \in {"reading", "calling", "busy", "ended"}
  /\ \A leg \in Legs : Len(unsent[leg]) + Len(stream[leg]) <= 4
  /\ Len(toEnclave) <= 1

\* select! never drops a read that has taken something
\* (loader/src/main.rs:304-332): whenever a frame is under way on one leg, no
\* piece of a frame is under way on the other.
OneLegAtATime ==
  LET busy(leg) == partial[leg] # NoFrame \/ stream[leg] # <<>>
  IN  ~(busy("host") /\ busy("enclave"))

\* The frames whose body has not reached the loop: the last piece on the way is
\* a body, and so is every second one before it.
UnderWay(leg) ==
  LET pieces == stream[leg] \o unsent[leg]
      count  == (Len(pieces) + 1) \div 2
  IN  [i \in 1..count |-> pieces[Len(pieces) - 2 * (count - i)].of]

IsRequest(frame) == frame.kind = "request"
IsAnswer(frame)  == frame.kind \in {"announce", "reply"}

\* Frames of two kinds are never on their way together, but announce and reply.
Only(Test(_), frames) == IF \A i \in DOMAIN frames : Test(frames[i]) THEN frames ELSE <<>>

AnswerFrames == {Frame(kind, id) : kind \in {"announce", "reply"}, id \in 0..MaxRequests}

Leg == INSTANCE Relay WITH
  Requests  <- {Frame("request", id) : id \in 1..MaxRequests},
  Answers   <- AnswerFrames,
  toRuntime <- Only(IsRequest, toEnclave) \o Only(IsRequest, <<taken>>) \o UnderWay("host"),
  toHost    <- toHost \o Only(IsAnswer, <<taken>>) \o Only(IsAnswer, UnderWay("enclave"))

\* The loader relays the frames between host and enclave in order and to a
\* reader, each once, and keeps the calls of the enclave to itself
\* (loader/src/main.rs:295-336): until the connection closes, a frame that was
\* written is read by the other end or is still on its way there.  Neither the
\* loop nor a call that waits for its result swallows one.
ImplementsRelay == Leg!Spec

\* Whatever the host waits for comes, or it sees that its leg is closed: no
\* frame is dropped by the loop or by an enclave that waits for the loader
\* (loader/src/main.rs:302-333, runtime/src/main.rs:52-62).
ExchangeEnds == exchange = "awaiting" ~> exchange # "awaiting"
=============================================================================
