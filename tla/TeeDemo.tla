------------------------------- MODULE TeeDemo -------------------------------
(***************************************************************************)
(* The whole service: the serve process and its clients (Host) with the    *)
(* enclave and its files (Runtime), joined by the host leg.  The loader    *)
(* forwards frames between them in order and loses only what is under way  *)
(* when it ends.                                                           *)
(***************************************************************************)
EXTENDS Naturals, Sequences

CONSTANTS
  RETENTION, NoNonce, BadNonce, DefaultNonce, StaleNonce, RotationNonce,
  Measurements, STALE_THRESHOLD_SECS, Faults,
  MaxKeys, MaxAttests, MaxBoots, MaxTime,
  Clients, Command, WorkerNonce, PubkeyNonce, MaxWorkerRounds

ASSUME CommandAssumption ==
  Command \in [Clients -> SUBSET {"calc", "challenge", "pubkey", "rotate",
                                 "unsupported", "malformed", "silent"}]
ASSUME RoundsAssumption == MaxWorkerRounds \in Nat

\* The assumptions of Runtime; and the nonce of a challenge, 32 random bytes, is
\* not the one of handle_client, which is shorter (main.rs:480).
ASSUME RetentionAssumption == RETENTION \in Nat /\ RETENTION >= 2
ASSUME ThresholdAssumption == STALE_THRESHOLD_SECS \in Nat
ASSUME BoundAssumption == {MaxKeys, MaxAttests, MaxBoots, MaxTime} \subseteq Nat
ASSUME NonceAssumption ==
  /\ {NoNonce, BadNonce} \cap (Clients \cup {WorkerNonce, PubkeyNonce}) = {}
  /\ NoNonce # BadNonce /\ PubkeyNonce \notin Clients

VARIABLES
  pc, request, store, last_attested_at, attest_sequence, attest, mrenclave,
  sealed, keyring, cache, now, generated, boots, taken_at, published, lost,
  phase, leg, toRuntime, toHost, lock, step, pending, answer, next_id,
  latest_bundle, rounds, backlog, serving_client, client

R == INSTANCE Runtime WITH Nonces <- Clients \cup {WorkerNonce, PubkeyNonce}
H == INSTANCE Host

ASSUME FaultAssumption == Faults \subseteq R!FaultKinds

enclaveVars == <<pc, request, store, last_attested_at, attest_sequence, attest,
                 mrenclave, sealed, keyring, cache, now, generated, boots,
                 taken_at, published, lost>>
hostInside  == <<phase, lock, step, pending, answer, next_id, latest_bundle,
                 rounds, backlog, serving_client, client>>
hostVars    == <<hostInside, leg, toRuntime, toHost>>
vars        == <<enclaveVars, hostVars>>

Init == R!Init /\ H!HostInit

-----------------------------------------------------------------------------
(* Steps of both sides.                                                    *)

\* cmd_serve spawns the loader, which enters the enclave.
StartServe == H!Start /\ R!Boot

\* Frames from the enclave to the host.
Emit(frame) == toHost' = Append(toHost, frame) /\ UNCHANGED <<hostInside, leg, toRuntime>>

EmitReady    == R!SendReady /\ Emit(R!ReadyFrame)
EmitAnnounce == R!Announce  /\ Emit(R!AttestationResponse(0))
EmitReply    == R!Reply     /\ Emit(R!ReplyFrame)

\* When the enclave or its loader has ended, frames not yet forwarded are gone.
LegCloses ==
  /\ leg' = "closed"
  /\ toRuntime' = <<>>
  /\ \E n \in 0..Len(toHost) : toHost' = SubSeq(toHost, 1, n)
  /\ UNCHANGED hostInside

ReceiveFrame ==
  /\ toRuntime # <<>>
  /\ R!Receive(Head(toRuntime))
  /\ toRuntime' = Tail(toRuntime)
  /\ UNCHANGED <<hostInside, leg, toHost>>

InsideEnclave ==
  /\ \/ R!BootUnsealed \/ R!BootNewStore \/ R!WriteSealed \/ R!WriteKeyring
     \/ R!InitQuote \/ R!GetQuote \/ R!WriteCache \/ R!RefreshKeyring
  /\ UNCHANGED hostVars

EnclaveEnds == (R!Crash \/ R!WriteFails \/ R!QuoteFails) /\ LegCloses

ClockMoves == (R!Tick \/ R!ClockSetBack) /\ UNCHANGED hostVars

\* The host process is stopped, alone or with the loader, or gives up after
\* LOADER_CONNECT_TIMEOUT; its leg closes and the enclave's next read or write
\* fails.  Whatever the enclave does before that, it might have done before
\* the host was stopped, and nobody is left to tell.
StopServe ==
  /\ phase # "down"
  /\ H!ProcessEnds
  /\ IF R!Running THEN R!Crash ELSE UNCHANGED enclaveVars

-----------------------------------------------------------------------------
(* Steps of the host and of the clients.                                   *)

ServeStep ==
  /\ \/ H!ReadReady \/ H!StartFails
     \/ H!Accept \/ H!ReadingEnds \/ H!Exchange("serve") \/ H!ReplyToClient
  /\ UNCHANGED enclaveVars

WorkerStep ==
  /\ H!WorkerWakes \/ H!WorkerSleeps \/ H!Exchange("worker")
  /\ UNCHANGED enclaveVars

ClientStep(c) == (H!Issue(c) \/ H!Compute(c) \/ H!HangsUp(c)) /\ UNCHANGED enclaveVars

EnclaveStep ==
  EmitReady \/ EmitAnnounce \/ EmitReply \/ ReceiveFrame \/ InsideEnclave

Next ==
  \/ StartServe
  \/ EnclaveStep
  \/ EnclaveEnds
  \/ ClockMoves
  \/ StopServe
  \/ ServeStep
  \/ WorkerStep
  \/ \E c \in Clients : ClientStep(c)

Spec == Init /\ [][Next]_vars

\* The threads, the enclave and the client processes run; aesmd and the disk
\* answer.  Nothing is assumed of faults, of the clock, of starting and
\* stopping the service, or of when a user issues a command.
Fairness ==
  /\ WF_vars(EnclaveStep)
  /\ WF_vars(ServeStep)
  /\ WF_vars(WorkerStep)
  /\ \A c \in Clients : WF_vars(H!Compute(c) /\ UNCHANGED enclaveVars)

FairSpec == Spec /\ Fairness

-----------------------------------------------------------------------------
(* Properties.                                                             *)

\* The control state of the host has its type, the mutex is held by a thread
\* that is inside an exchange, and at most one request is under way
\* (host/src/main.rs:427-430, 213).
HostTypeOK ==
  /\ phase \in {"down", "starting", "serving"}
  /\ leg \in {"open", "closed"}
  /\ Len(toRuntime) <= 1
  /\ lock \in H!Threads \cup {"free"}
  /\ \A t \in H!Threads : lock = t <=> step[t] \in {"locked", "awaiting"}
  /\ \A c \in Clients :
       client[c].at \in {"start", "verified", "silent", "done"} \cup H!Hanging

\* The frame a thread reads is the one it waits for: the errors "unexpected
\* op" and "id mismatch" of request_attestation, request_compute_ct and
\* request_rotate (host/src/main.rs:216-221, 294-303, 319-341) never happen,
\* whatever the worker and the serve loop ask at the same time and although
\* stale and rotation attestations come unasked; nor does "expected
\* host.Ready" of start (182-184).
NeverMismatched ==
  /\ \A t \in H!Threads :
       step[t] = "awaiting" /\ toHost # <<>> =>
         H!Announces(t, Head(toHost)) \/ H!Answers(t, Head(toHost))
  /\ phase = "starting" /\ toHost # <<>> => Head(toHost).op = "ready"

\* While the enclave waits for the loader it drops every frame that is not the
\* loader's answer (runtime/src/main.rs:52-62, 76-86, 96-106, 116-124); no
\* request of the host ever arrives then.
FramesAreNotDiscarded ==
  toRuntime # <<>> => pc \in {"idle", "down", "exited"}

\* Between two exchanges the host's latest_bundle names the key the enclave
\* would decrypt with now (host/src/main.rs:225, 296, 327-339), so that the
\* pubkey answered from it (476-483) is not a retired one.
BundleIsCurrent ==
  phase = "serving" /\ lock = "free" /\ leg = "open" /\ R!Running =>
    /\ latest_bundle.version = store.current_version
    /\ latest_bundle.public_key = R!Current(store).public_key

\* A calculation whose challenge was answered is computed, or refused as
\* key_expired because the key was rotated out in between, or its connection
\* ends (host/src/main.rs:781-814 over runtime/src/main.rs:296-348): the two
\* requests of the command never meet key_unknown, decrypt_failed or a quote
\* bound to another nonce, unless the sealed store was destroyed.
CalcOutcome ==
  ~lost =>
    \A c \in Clients :
      client[c].command = "calc" /\ client[c].at = "done" =>
        /\ client[c].outcome \in {"ok", "key_expired", "failed"}
        /\ client[c].outcome = "key_expired" =>
             client[c].version + RETENTION <= sealed.store.current_version

\* A command that reached the service ends, with a result or an error: also
\* when the enclave ends in the middle of the exchange and when the serve
\* process is stopped, unless a client that sends nothing holds the serve loop
\* for ever (host/src/main.rs:402-520, 674-684).
EveryCommandEnds ==
  []<>(step["serve"] # "reading") =>
    \A c \in Clients :
      client[c].at \in H!Hanging ~> client[c].at = "done"

\* A round of the attest worker ends, also while a client that sends nothing
\* holds the serve loop: the mutex is taken after the frame is read and
\* released when the exchange is over, however it ends
\* (host/src/main.rs:406, 427-430, 606-611).
AttestationGoesOn ==
  step["worker"] # "idle" ~> step["worker"] = "idle"
=============================================================================
