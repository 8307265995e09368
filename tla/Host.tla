-------------------------------- MODULE Host --------------------------------
(***************************************************************************)
(* The serve process of host/src/main.rs and the client commands that use  *)
(* it.  Two threads share one RuntimeConnection behind a mutex: the serve  *)
(* loop, which handles one client connection at a time to the end, and the *)
(* attest worker.  A request to the runtime and the frames that answer it  *)
(* are an exchange; the mutex is held from before the request is sent      *)
(* until the answer is read.  The runtime is the other end of the two      *)
(* FIFO channels.                                                          *)
(***************************************************************************)
EXTENDS Naturals, Sequences

CONSTANTS
  Clients,            \* client processes; a client's name is its nonce
  Command,            \* the commands each of them may run, one of which it does
  WorkerNonce,        \* "attest-worker-<seconds>"
  PubkeyNonce,        \* "pubkey-attest-nonce"
  NoNonce,
  MaxWorkerRounds     \* bound: attestations of the worker in one serve

VARIABLES
  phase,              \* "down", "starting" (waits for host.Ready), "serving"
  leg,                \* whether the runtime still holds the host leg open
  toRuntime, toHost,  \* frames under way
  lock,               \* the thread that holds the mutex, or "free"
  step,               \* what each thread does
  pending,            \* the request each thread makes to the runtime
  answer,             \* what each thread got for it
  next_id,
  latest_bundle,
  rounds,             \* attestations the worker has started
  backlog,            \* connections not accepted yet, each with its frame
  serving_client,     \* the connection handle_client works on
  client              \* state of each client command

threads    == <<lock, step, pending, answer>>
connection == <<next_id, latest_bundle>>
channels   == <<leg, toRuntime, toHost>>
hostVars   == <<phase, channels, threads, connection, rounds, backlog,
                serving_client, client>>

-----------------------------------------------------------------------------
(* Data.                                                                   *)

Threads == {"serve", "worker"}

NoCiphertext == [form |-> "missing", key |-> 0]

Frame(op, nonce, kv, ct) ==
  [op |-> op, id |-> 0, nonce |-> nonce, key_version |-> kv, ct |-> ct]

NoFrame == Frame("none", NoNonce, 0, NoCiphertext)

NoBundle == [version |-> 0, public_key |-> 0, nonce |-> NoNonce, quote |-> FALSE]

\* AttestationBundle::from_frame; only host.Ready carries no quote.
Bundle(frame) ==
  [version |-> frame.attest.version, public_key |-> frame.attest.public_key,
   nonce |-> frame.attest.nonce, quote |-> frame.op # "ready"]

NoClient == [name |-> "none", frame |-> NoFrame]

\* An exchange or a client call ends with an outcome; "failed" stands for
\* every Err, of which the client sees a closed connection.
Failed == [outcome |-> "failed", bundle |-> NoBundle]

NewClient == [at |-> "start", command |-> "none", version |-> 0, public_key |-> 0,
              outcome |-> "none"]

HostInit ==
  /\ phase = "down"
  /\ leg = "closed"
  /\ toRuntime = <<>>
  /\ toHost = <<>>
  /\ lock = "free"
  /\ step = [t \in Threads |-> "idle"]
  /\ pending = [t \in Threads |-> NoFrame]
  /\ answer = [t \in Threads |-> Failed]
  /\ next_id = 0
  /\ latest_bundle = NoBundle
  /\ rounds = 0
  /\ backlog = <<>>
  /\ serving_client = NoClient
  /\ client = [c \in Clients |-> NewClient]

-----------------------------------------------------------------------------
(* The process.                                                            *)

\* RuntimeConnection::start, up to the wait for host.Ready.
Start ==
  /\ phase = "down"
  /\ phase' = "starting"
  /\ leg' = "open"
  /\ UNCHANGED <<toRuntime, toHost, threads, connection, rounds, backlog,
                 serving_client, client>>

\* read_frame of host.Ready.  From here the worker runs and the client socket
\* is bound.
ReadReady ==
  /\ phase = "starting"
  /\ toHost # <<>>
  /\ Head(toHost).op = "ready"
  /\ latest_bundle' = Bundle(Head(toHost))
  /\ toHost' = Tail(toHost)
  /\ phase' = "serving"
  /\ UNCHANGED <<leg, toRuntime, threads, next_id, rounds, backlog,
                 serving_client, client>>

\* Every client with a connection sees it closed.
Hanging == {"challenging", "computing", "asking"}
HangUp(cs) ==
  client' = [c \in Clients |->
               IF c \in cs /\ client[c].at \in Hanging \cup {"silent"}
                 THEN [client[c] EXCEPT !.at = "done", !.outcome = "failed"]
                 ELSE client[c]]

\* The process ends, and with it its threads, its connections and its end of
\* the host leg: start failed, or the process was stopped.
ProcessEnds ==
  /\ phase' = "down"
  /\ leg' = "closed"
  /\ toRuntime' = <<>>
  /\ toHost' = <<>>
  /\ lock' = "free"
  /\ step' = [t \in Threads |-> "idle"]
  /\ pending' = [t \in Threads |-> NoFrame]
  /\ answer' = [t \in Threads |-> Failed]
  /\ next_id' = 0
  /\ latest_bundle' = NoBundle
  /\ rounds' = 0
  /\ backlog' = <<>>
  /\ serving_client' = NoClient
  /\ HangUp(Clients)

\* The loader exits early or the host leg closes before host.Ready.
StartFails ==
  /\ phase = "starting"
  /\ leg = "closed"
  /\ toHost = <<>>
  /\ ProcessEnds

-----------------------------------------------------------------------------
(* An exchange with the runtime.                                           *)

\* Mutant: the guard is dropped once the request is written.
LockReleased(t) == "free"

\* runtime.lock() guards the whole call of request_*.
LockWhileAwaiting(t) == t

Acquire(t) ==
  /\ step[t] = "locking"
  /\ lock = "free"
  /\ lock' = t
  /\ step' = [step EXCEPT ![t] = "locked"]
  /\ UNCHANGED <<phase, channels, pending, answer, connection, rounds, backlog,
                 serving_client, client>>

\* The exchange of t is over and the guard goes out of scope.
Conclude(t, result) ==
  /\ answer' = [answer EXCEPT ![t] = result]
  /\ step' = [step EXCEPT ![t] = "concluded"]
  /\ lock' = IF lock = t THEN "free" ELSE lock

\* A pubkey request asks the runtime only if no quote was ever seen.
AnsweredFromBundle(t) ==
  pending[t].nonce = PubkeyNonce /\ latest_bundle.quote

Send(t) ==
  /\ step[t] = "locked"
  /\ ~AnsweredFromBundle(t)
  /\ leg = "open"
  /\ next_id' = next_id + 1
  /\ pending' = [pending EXCEPT ![t].id = next_id + 1]
  /\ toRuntime' = Append(toRuntime, pending'[t])
  /\ lock' = LockWhileAwaiting(t)
  /\ step' = [step EXCEPT ![t] = "awaiting"]
  /\ UNCHANGED <<phase, leg, toHost, answer, latest_bundle, rounds, backlog,
                 serving_client, client>>

SendFails(t) ==
  /\ step[t] = "locked"
  /\ ~AnsweredFromBundle(t)
  /\ leg = "closed"
  /\ next_id' = next_id + 1
  /\ Conclude(t, Failed)
  /\ UNCHANGED <<phase, channels, pending, latest_bundle, rounds, backlog,
                 serving_client, client>>

AnswerFromBundle(t) ==
  /\ step[t] = "locked"
  /\ AnsweredFromBundle(t)
  /\ Conclude(t, [outcome |-> "ok", bundle |-> latest_bundle])
  /\ UNCHANGED <<phase, channels, pending, connection, rounds, backlog,
                 serving_client, client>>

\* The op of the frame that answers a request.
ResponseOp(op) == IF op = "attest" THEN "attestation" ELSE op

Answers(t, frame) ==
  frame.op = ResponseOp(pending[t].op) /\ frame.id = pending[t].id

\* Mutant: only a requested attestation updates the bundle.
BundleIfRequested(frame) ==
  IF frame.op = "attestation" /\ frame.id # 0 THEN Bundle(frame) ELSE latest_bundle

BundleAfter(frame) ==
  IF frame.op = "compute" THEN latest_bundle ELSE Bundle(frame)

\* Mutant: every request reads one frame only, as request_attestation does.
AnnouncesNothing(t, frame) == FALSE

\* request_compute_ct and request_rotate take an attestation that comes first
\* and read on; request_attestation reads one frame only.
Announces(t, frame) == pending[t].op # "attest" /\ frame.op = "attestation"

\* Any other op or id is an error, and the frame is gone.
Read(t) ==
  /\ step[t] = "awaiting"
  /\ toHost # <<>>
  /\ toHost' = Tail(toHost)
  /\ LET frame == Head(toHost)
         taken == Announces(t, frame) \/ Answers(t, frame)
     IN  /\ latest_bundle' = IF taken THEN BundleAfter(frame) ELSE latest_bundle
         /\ CASE Announces(t, frame) -> UNCHANGED <<step, answer, lock>>
              [] Answers(t, frame) ->
                   Conclude(t, [outcome |-> frame.outcome, bundle |-> Bundle(frame)])
              [] OTHER -> Conclude(t, Failed)
  /\ UNCHANGED <<phase, leg, toRuntime, pending, next_id, rounds, backlog,
                 serving_client, client>>

\* Mutant: the end of the stream is not noticed.
NeverEnds == FALSE

StreamEnded == leg = "closed" /\ toHost = <<>>

ReadFails(t) ==
  /\ step[t] = "awaiting"
  /\ StreamEnded
  /\ Conclude(t, Failed)
  /\ UNCHANGED <<phase, channels, pending, connection, rounds, backlog,
                 serving_client, client>>

Exchange(t) ==
  \/ Acquire(t) \/ Send(t) \/ SendFails(t) \/ AnswerFromBundle(t)
  \/ Read(t) \/ ReadFails(t)

-----------------------------------------------------------------------------
(* The attest worker.                                                      *)

WorkerWakes ==
  /\ phase = "serving"
  /\ step["worker"] = "idle"
  /\ rounds < MaxWorkerRounds
  /\ rounds' = rounds + 1
  /\ pending' = [pending EXCEPT !["worker"] = Frame("attest", WorkerNonce, 0, NoCiphertext)]
  /\ step' = [step EXCEPT !["worker"] = "locking"]
  /\ UNCHANGED <<phase, channels, lock, answer, connection, backlog,
                 serving_client, client>>

WorkerSleeps ==
  /\ step["worker"] = "concluded"
  /\ step' = [step EXCEPT !["worker"] = "idle"]
  /\ pending' = [pending EXCEPT !["worker"] = NoFrame]
  /\ answer' = [answer EXCEPT !["worker"] = Failed]
  /\ UNCHANGED <<phase, channels, lock, connection, rounds, backlog,
                 serving_client, client>>

-----------------------------------------------------------------------------
(* The serve loop.                                                         *)

\* The request handle_client makes to the runtime for a client's frame.
Forward(frame) ==
  CASE frame.op = "challenge" -> [frame EXCEPT !.op = "attest"]
    [] frame.op = "pubkey"    -> Frame("attest", PubkeyNonce, 0, NoCiphertext)
    [] OTHER                  -> frame

\* What handle_client does with the frame it read: it asks the runtime, or it
\* knows the answer.  An op it does not support and a challenge without nonce
\* are answered "refused"; a frame that does not parse and a compute without
\* ct are an Err.
AnsweredAt(frame) ==
  CASE frame.op = "silent"                      -> "reading"
    [] frame.op \in {"unsupported", "malformed"} -> "concluded"
    [] OTHER                                    -> "locking"

\* Mutant: the mutex is taken before the client's frame is read.
LockBeforeReading(frame) == IF AnsweredAt(frame) = "reading" THEN "serve" ELSE lock

LockAtAccept(frame) == lock

Accept ==
  /\ phase = "serving"
  /\ step["serve"] = "idle"
  /\ backlog # <<>>
  /\ serving_client' = Head(backlog)
  /\ backlog' = Tail(backlog)
  /\ LET frame == Head(backlog).frame
     IN  /\ step' = [step EXCEPT !["serve"] = AnsweredAt(frame)]
         /\ lock' = LockAtAccept(frame)
         /\ pending' = IF AnsweredAt(frame) = "locking"
                       THEN [pending EXCEPT !["serve"] = Forward(frame)]
                       ELSE pending
         /\ answer' = IF frame.op = "unsupported"
                      THEN [answer EXCEPT !["serve"].outcome = "refused"]
                      ELSE answer
  /\ UNCHANGED <<phase, channels, connection, rounds, client>>

\* The wait for a frame has no end but the client's: read_frame fails.
ReadingEnds ==
  /\ step["serve"] = "reading"
  /\ client[serving_client.name].at = "done"
  /\ Conclude("serve", Failed)
  /\ UNCHANGED <<phase, channels, pending, connection, rounds, backlog,
                 serving_client, client>>

\* verify_attestation: there is a quote, and it binds the client's nonce.
Verified(c, bundle) == bundle.quote /\ bundle.nonce = c

\* What the client command does with the answer: calc verifies the quote,
\* encrypts to the key and goes on.
Receives(c, result) ==
  LET me   == client[c]
      seen == [me EXCEPT !.at = "done", !.outcome = result.outcome,
                         !.version = result.bundle.version,
                         !.public_key = result.bundle.public_key]
  IN  IF result.outcome = "failed" \/ me.at = "computing"
        THEN [me EXCEPT !.at = "done", !.outcome = result.outcome]
      ELSE IF me.at = "challenging" /\ ~Verified(c, result.bundle)
        THEN [me EXCEPT !.at = "done", !.outcome = "not_verified"]
      ELSE IF me.at = "challenging" /\ me.command = "calc"
        THEN [seen EXCEPT !.at = "verified", !.outcome = "none"]
      ELSE seen

ReplyToClient ==
  /\ step["serve"] = "concluded"
  /\ client' = [client EXCEPT ![serving_client.name] =
                  Receives(serving_client.name, answer["serve"])]
  /\ serving_client' = NoClient
  /\ step' = [step EXCEPT !["serve"] = "idle"]
  /\ pending' = [pending EXCEPT !["serve"] = NoFrame]
  /\ answer' = [answer EXCEPT !["serve"] = Failed]
  /\ UNCHANGED <<phase, channels, lock, connection, rounds, backlog>>

-----------------------------------------------------------------------------
(* The client commands.                                                    *)

Connect(c, frame, me) ==
  /\ IF phase = "serving"
       THEN /\ backlog' = Append(backlog, [name |-> c, frame |-> frame])
            /\ client' = [client EXCEPT ![c] = me]
       ELSE /\ client' = [client EXCEPT ![c] = [me EXCEPT !.at = "done", !.outcome = "failed"]]
            /\ UNCHANGED backlog
  /\ UNCHANGED <<phase, channels, threads, connection, rounds, serving_client>>

\* The first frame of a command, and what its client then waits for.
Opening(c, command) ==
  IF command \in {"calc", "challenge"}
    THEN [frame |-> Frame("challenge", c, 0, NoCiphertext), at |-> "challenging"]
    ELSE [frame |-> Frame(command, NoNonce, 0, NoCiphertext),
          at    |-> IF command = "silent" THEN "silent" ELSE "asking"]

Issue(c) ==
  /\ client[c].at = "start"
  /\ \E command \in Command[c] :
       Connect(c, Opening(c, command).frame,
               [client[c] EXCEPT !.command = command, !.at = Opening(c, command).at])

\* A client that connected and sent nothing goes away again.
HangsUp(c) ==
  /\ client[c].at = "silent"
  /\ HangUp({c})
  /\ UNCHANGED <<phase, channels, threads, connection, rounds, backlog, serving_client>>

\* cmd_calc, once challenge_and_verify has returned.
Compute(c) ==
  /\ client[c].at = "verified"
  /\ Connect(c, Frame("compute", NoNonce, client[c].version,
                      [form |-> "xy", key |-> client[c].public_key]),
             [client[c] EXCEPT !.at = "computing"])
=============================================================================
