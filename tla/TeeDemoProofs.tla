--------------------------- MODULE TeeDemoProofs ---------------------------
(***************************************************************************)
(* Proofs about TeeDemo, for all clients and their commands, any retention *)
(* and any set of faults.  The mutex makes one conversation of what the    *)
(* two threads of the host and the enclave do (Conversation), and what a   *)
(* client is told about keys stays true while it uses them (Sessions).     *)
(* The enclave's part is the invariant of RuntimeProofs.                   *)
(***************************************************************************)
EXTENDS TeeDemo, SequenceTheorems, TLAPS

RP == INSTANCE RuntimeProofs WITH Nonces <- Clients \cup {WorkerNonce, PubkeyNonce}

-----------------------------------------------------------------------------
(* The values of the host's variables.                                     *)

Threads == {"serve", "worker"}

Steps == {"idle", "reading", "locking", "locked", "awaiting", "concluded"}

SentNonces == Clients \cup {WorkerNonce, PubkeyNonce, NoNonce}

FramesWith(ops) ==
  [op : ops, id : Nat, nonce : SentNonces, key_version : Nat, ct : RP!Ciphertexts]

\* What a client sends, and what a thread asks the runtime.
ClientFrames == FramesWith({"challenge", "pubkey", "compute", "rotate",
                            "unsupported", "malformed", "silent"})
Asks         == FramesWith({"attest", "compute", "rotate"})

Outcomes == {"ok", "bad_input", "key_expired", "key_unknown", "decrypt_failed",
             "unsupported op", "failed", "refused", "not_verified", "none"}

EnclaveFrames == [op : {"ready", "attestation", "compute", "rotate", "error"}, id : Nat,
                  outcome : Outcomes, attest : RP!Attestations]

Bundles == [version : Nat, public_key : Nat, nonce : RP!NonceValues, quote : BOOLEAN]

Results == [outcome : Outcomes, bundle : Bundles]

Connections == [name : Clients, frame : ClientFrames]

ClientStates ==
  [at : {"start", "challenging", "verified", "computing", "asking", "silent", "done"},
   command : {"none", "calc", "challenge", "pubkey", "rotate", "unsupported", "malformed",
              "silent"},
   version : Nat, public_key : Nat, outcome : Outcomes]

HostTyped ==
  /\ phase \in {"down", "starting", "serving"}
  /\ leg \in {"open", "closed"}
  /\ toRuntime \in Seq(Asks)
  /\ toHost \in Seq(EnclaveFrames)
  /\ lock \in Threads \cup {"free"}
  /\ step \in [Threads -> Steps]
  /\ pending \in [Threads -> Asks \cup {H!NoFrame}]
  /\ answer \in [Threads -> Results]
  /\ next_id \in Nat
  /\ latest_bundle \in Bundles
  /\ rounds \in Nat
  /\ backlog \in Seq(Connections)
  /\ serving_client \in Connections \cup {H!NoClient}
  /\ client \in [Clients -> ClientStates]

-----------------------------------------------------------------------------
(* The mutex.                                                              *)

\* A thread holds the mutex from its lock() to the end of its exchange, and
\* knows by then what it asks.
Mutex ==
  \A t \in Threads :
    /\ lock = t <=> step[t] \in {"locked", "awaiting"}
    /\ step[t] \in {"locking", "locked", "awaiting"} => pending[t] \in Asks

-----------------------------------------------------------------------------
(* The conversation over the host leg.                                     *)

Key(x) == [version |-> x.version, public_key |-> x.public_key]

NamesCurrent(x) == Key(x) = R!Current(store)

Expired(v) == v + RETENTION <= sealed.store.current_version

AllIdle      == \A t \in Threads : step[t] = "idle"
NobodyAwaits == \A t \in Threads : step[t] # "awaiting"

\* An attestation that precedes the answer to r.
Announcement(r, a) == a \in EnclaveFrames /\ r.op # "attest" /\ a.op = "attestation"

\* What the enclave answers to r: the quote binds the nonce of r, its key has
\* been told, and a computation is only refused when its key has expired.
Response(r, g) ==
  /\ g \in EnclaveFrames /\ g.op = H!ResponseOp(r.op) /\ g.id = r.id
  /\ r.op = "attest" =>
       /\ g.outcome = "ok" /\ Key(g.attest) \in published
       /\ r.nonce # NoNonce => g.attest.nonce = r.nonce
  /\ r.op = "compute" /\ ~lost =>
       g.outcome = "ok" \/ (g.outcome = "key_expired" /\ Expired(r.key_version))

\* The calls the handler of r makes.
Handler(r) ==
  {"init_quote", "get_quote", "cache", "refresh", "reply"}
  \cup (IF r.op = "attest" THEN {} ELSE {"announce"})
  \cup (IF r.op = "rotate" THEN {"seal", "keyring"} ELSE {})

Booting ==
  /\ leg = "open" /\ phase = "starting" /\ AllIdle
  /\ pc \in {"read_sealed", "seal", "keyring", "ready"} /\ request.op = "boot"
  /\ toRuntime = <<>> /\ toHost = <<>>

Booted(f) ==
  /\ leg = "open" /\ phase = "starting" /\ AllIdle
  /\ pc = "idle"
  /\ f \in EnclaveFrames /\ f.op = "ready" /\ NamesCurrent(f.attest)
  /\ toRuntime = <<>> /\ toHost = <<f>>

\* No exchange is under way.
Resting ==
  /\ leg = "open" /\ phase = "serving" /\ NobodyAwaits
  /\ pc = "idle"
  /\ NamesCurrent(latest_bundle)
  /\ toRuntime = <<>> /\ toHost = <<>>

\* The enclave has yet to read what t asks.
Asked(t) ==
  /\ leg = "open" /\ phase = "serving" /\ step[t] = "awaiting"
  /\ pc = "idle"
  /\ NamesCurrent(latest_bundle)
  /\ toRuntime = <<pending[t]>> /\ toHost = <<>>

\* The enclave handles it.
Handled(t) ==
  /\ leg = "open" /\ phase = "serving" /\ step[t] = "awaiting"
  /\ request = pending[t] /\ pc \in Handler(request)
  /\ request.op = "compute" => NamesCurrent(latest_bundle)
  /\ request.op = "attest" /\ pc \in {"cache", "refresh", "reply"} =>
       attest.nonce = R!BindingNonce
  /\ toRuntime = <<>> /\ toHost = <<>>

\* The host has yet to read an announcement, before the enclave replies.
Announced(t, a) ==
  /\ leg = "open" /\ phase = "serving" /\ step[t] = "awaiting"
  /\ request = pending[t] /\ pc = "reply"
  /\ Announcement(request, a) /\ NamesCurrent(a.attest)
  /\ toRuntime = <<>> /\ toHost = <<a>>

\* The enclave has replied.
Replied(t, g) ==
  /\ leg = "open" /\ phase = "serving" /\ step[t] = "awaiting"
  /\ pc = "idle"
  /\ Response(pending[t], g)
  /\ g.op # "compute" => NamesCurrent(g.attest)
  /\ \/ /\ toHost = <<g>>
        /\ g.op = "compute" => NamesCurrent(latest_bundle)
     \/ \E a \in EnclaveFrames :
          Announcement(pending[t], a) /\ NamesCurrent(a.attest) /\ toHost = <<a, g>>
  /\ toRuntime = <<>>

\* What is left to read of the answer to r.
Remains(r, frames) ==
  \/ frames = <<>>
  \/ \E a \in EnclaveFrames : Announcement(r, a) /\ frames = <<a>>
  \/ \E g \in EnclaveFrames : Response(r, g) /\ frames = <<g>>
  \/ \E a, g \in EnclaveFrames : Announcement(r, a) /\ Response(r, g) /\ frames = <<a, g>>

\* The enclave has ended, or has not been started.
Ended ==
  /\ leg = "closed" /\ ~R!Running /\ toRuntime = <<>>
  /\ \/ phase = "down" /\ AllIdle /\ toHost = <<>>
     \/ phase = "starting" /\ AllIdle
        /\ (toHost = <<>> \/ \E f \in EnclaveFrames : f.op = "ready" /\ toHost = <<f>>)
     \/ phase = "serving" /\ NobodyAwaits /\ toHost = <<>>
     \/ phase = "serving"
        /\ \E t \in Threads : step[t] = "awaiting" /\ Remains(pending[t], toHost)

Conversation ==
  \/ Booting
  \/ \E f \in EnclaveFrames : Booted(f)
  \/ Resting
  \/ \E t \in Threads : Asked(t)
  \/ \E t \in Threads : Handled(t)
  \/ \E t \in Threads, a \in EnclaveFrames : Announced(t, a)
  \/ \E t \in Threads, g \in EnclaveFrames : Replied(t, g)
  \/ Ended

-----------------------------------------------------------------------------
(* The sessions of the clients.                                            *)

\* What is asked of the enclave is encrypted to a key that was told.
Honest(f) ==
  f.op = "compute" =>
    /\ f.ct.form = "xy"
    /\ [version |-> f.key_version, public_key |-> f.ct.key] \in published

\* The connection e is the one its client, in state me, waits on.
Awaits(me, e) ==
  /\ me.at \notin {"start", "verified"}
  /\ Honest(e.frame)
  /\ e.frame.op = "challenge" => e.frame.nonce = e.name
  /\ e.frame.op = "compute" =>
       me.command = "calc" /\ me.at = "computing" /\ e.frame.key_version = me.version
  /\ e.frame.op # "compute" /\ me.command = "calc" =>
       me.at = "challenging" /\ e.frame.op = "challenge"

Fits(e) == Awaits(client[e.name], e)

\* The result is one its client can use.
Useful(f, result) ==
  /\ f.op = "compute" /\ ~lost =>
       \/ result.outcome \in {"ok", "failed"}
       \/ result.outcome = "key_expired" /\ Expired(f.key_version)
  /\ f.op = "challenge" =>
       \/ result.outcome = "failed"
       \/ /\ result.outcome = "ok" /\ result.bundle.quote
          /\ result.bundle.nonce = f.nonce
          /\ Key(result.bundle) \in published

InHand == step["serve"] # "idle"

Serving ==
  InHand =>
    /\ serving_client \in Connections
    /\ Fits(serving_client)
    /\ step["serve"] = "reading" => serving_client.frame.op = "silent"
    /\ step["serve"] \in {"locking", "locked", "awaiting"} =>
         LET asked == H!Forward(serving_client.frame)
         IN  /\ serving_client.frame.op \in {"challenge", "pubkey", "compute", "rotate"}
             /\ pending["serve"].op = asked.op
             /\ pending["serve"].nonce = asked.nonce
             /\ pending["serve"].key_version = asked.key_version
             /\ pending["serve"].ct = asked.ct
    /\ step["serve"] = "concluded" => Useful(serving_client.frame, answer["serve"])

\* The worker only attests.
Working == step["worker"] # "idle" => pending["worker"].op = "attest"

\* A client has one connection at a time.
OneConnectionEach ==
  /\ \A i \in DOMAIN backlog : Fits(backlog[i])
  /\ \A i, j \in DOMAIN backlog : backlog[i].name = backlog[j].name => i = j
  /\ InHand => \A i \in DOMAIN backlog : backlog[i].name # serving_client.name

\* What a client, in state me, knows of the keys, and how a calculation ends.
Knows(me) ==
  /\ me.at \in {"verified", "computing"} => me.command = "calc" /\ Key(me) \in published
  /\ me.command = "calc" => me.at \in {"challenging", "verified", "computing", "done"}
  /\ me.command = "calc" /\ me.at = "done" /\ ~lost =>
       /\ me.outcome \in {"ok", "key_expired", "failed"}
       /\ me.outcome = "key_expired" => Expired(me.version)

Informed == \A c \in Clients : Knows(client[c])

Sessions == Serving /\ Working /\ OneConnectionEach /\ Informed

\* As long as no sealed store was destroyed, a file that does not open never
\* held one.
NothingForgotten == ~lost /\ sealed.state # "ok" => sealed.store.current_version = 0

EnclaveInv == RP!IInv /\ NothingForgotten

TInv == EnclaveInv /\ HostTyped /\ Mutex /\ Conversation /\ Sessions

-----------------------------------------------------------------------------
(* The enclave in TeeDemo.                                                 *)

\* The assumptions of Runtime hold of the enclave in TeeDemo.
LEMMA EnclaveParameters ==
  /\ RETENTION \in Nat /\ RETENTION >= 2
  /\ STALE_THRESHOLD_SECS \in Nat
  /\ Faults \subseteq RP!FaultKinds
  /\ {MaxKeys, MaxAttests, MaxBoots, MaxTime} \subseteq Nat
  /\ /\ {NoNonce, BadNonce} \cap (Clients \cup {WorkerNonce, PubkeyNonce}) = {}
     /\ NoNonce # BadNonce
BY NonceAssumption, FaultAssumption, RetentionAssumption, ThresholdAssumption, BoundAssumption
   DEF R!FaultKinds, RP!FaultKinds

\* The invariant of RuntimeProofs holds here as it does there.
LEMMA EnclaveInit == RP!Init => RP!IInv
BY EnclaveParameters, RP!InvariantInit, Zenon

\* ... and survives every step of the enclave with any host.
LEMMA EnclaveStepInv ==
  ASSUME RP!IInv, [RP!Reacts]_RP!vars
  PROVE  RP!IInv'
BY EnclaveParameters, RP!InvariantStep, Zenon

\* What a computation answers to a key that was exposed.
LEMMA EnclaveDecrypts == RP!IInv => RP!ExposedKeysDecrypt
BY EnclaveParameters, RP!ExposedDecrypts, Zenon

\* The newest key of a well-formed store.
LEMMA CurrentKey ==
  ASSUME NEW s \in RP!Store, RP!WellFormed(s)
  PROVE  /\ RP!Current(s) \in RP!StoredKey
         /\ RP!Current(s).version = s.current_version
BY EnclaveParameters, RP!CurrentInWellFormed, Zenon

\* What the enclave answers in TeeDemo is what it does in Runtime.
LEMMA SameData ==
  /\ \A s : R!Current(s) = RP!Current(s)
  /\ R!NoAttestation = RP!NoAttestation
  /\ R!BindingNonce = RP!BindingNonce
  /\ R!ReadyFrame = RP!ReadyFrame
  /\ R!ReplyFrame = RP!ReplyFrame
  /\ \A i : R!AttestationResponse(i) = RP!AttestationResponse(i)
<1>1. \A s, v : R!Find(s, v) = RP!Find(s, v)
  BY DEF R!Find, RP!Find, R!Positions, RP!Positions
<1>2. \A s : R!Current(s) = RP!Current(s)
  BY <1>1 DEF R!Current, RP!Current
<1>3. R!NoAttestation = RP!NoAttestation
  BY DEF R!NoAttestation, RP!NoAttestation
<1>4. R!BindingNonce = RP!BindingNonce
  BY DEF R!BindingNonce, RP!BindingNonce
<1>5. R!ReadyFrame = RP!ReadyFrame
  BY <1>2, <1>3 DEF R!ReadyFrame, RP!ReadyFrame
<1>6. \A i : R!AttestationResponse(i) = RP!AttestationResponse(i)
  BY DEF R!AttestationResponse, RP!AttestationResponse
<1>7. \A s, kv, ct : R!ComputeOutcome(s, kv, ct) = RP!ComputeOutcome(s, kv, ct)
  <2>1. \A s, kv, key, ok : R!Decrypt(s, kv, key, ok) = RP!Decrypt(s, kv, key, ok)
    BY <1>1 DEF R!Decrypt, RP!Decrypt, R!Holds, RP!Holds, R!Positions, RP!Positions,
       R!LookupError, RP!LookupError, R!SaturatingSub, RP!SaturatingSub
  <2> QED
    BY <2>1 DEF R!ComputeOutcome, RP!ComputeOutcome
<1>8. R!ReplyFrame = RP!ReplyFrame
  BY <1>3, <1>6, <1>7, Zenon DEF R!ReplyFrame, RP!ReplyFrame
<1> QED
  BY <1>2, <1>3, <1>4, <1>5, <1>6, <1>8

\* The steps of the enclave in TeeDemo are those of Runtime.
LEMMA SameSteps ==
  /\ R!Boot => RP!Boot
  /\ R!BootUnsealed => RP!BootUnsealed
  /\ R!BootNewStore => RP!BootNewStore
  /\ R!SendReady => RP!SendReady
  /\ R!WriteSealed => RP!WriteSealed
  /\ R!WriteKeyring => RP!WriteKeyring
  /\ R!InitQuote => RP!InitQuote
  /\ R!GetQuote => RP!GetQuote
  /\ R!WriteCache => RP!WriteCache
  /\ R!RefreshKeyring => RP!RefreshKeyring
  /\ R!Announce => RP!Announce
  /\ R!Reply => RP!Reply
  /\ \A frame : R!Receive(frame) => RP!Receive(frame)
  /\ R!Crash => RP!Crash
  /\ R!WriteFails => RP!WriteFails
  /\ R!QuoteFails => RP!QuoteFails
  /\ R!Tick => RP!Tick
  /\ R!ClockSetBack => RP!ClockSetBack
<1> USE DEF R!volatile, RP!volatile, R!disk, RP!disk, R!platform, RP!platform,
            R!history, RP!history
<1>1. R!MemoryCleared <=> RP!MemoryCleared
  BY DEF R!MemoryCleared, RP!MemoryCleared, R!BootRequest, RP!BootRequest, R!NoCiphertext,
     RP!NoCiphertext, R!EmptyStore, RP!EmptyStore, R!NoAttestation, RP!NoAttestation
<1>2. R!Tear <=> RP!Tear
  BY DEF R!Tear, RP!Tear
<1>3. \A s, k : R!Rotate(s, k) = RP!Rotate(s, k)
  BY DEF R!Rotate, RP!Rotate, R!KeepNewest, RP!KeepNewest
<1>4. \A k : R!NewStore(k) = RP!NewStore(k)
  BY <1>3 DEF R!NewStore, RP!NewStore, R!EmptyStore, RP!EmptyStore
<1>5. R!Boot => RP!Boot
  BY <1>1 DEF R!Boot, RP!Boot
<1>6. R!BootUnsealed => RP!BootUnsealed
  BY DEF R!BootUnsealed, RP!BootUnsealed, R!Unseals, RP!Unseals, R!AfterUnseal, RP!AfterUnseal
<1>7. R!BootNewStore => RP!BootNewStore
  BY <1>4 DEF R!BootNewStore, RP!BootNewStore, R!Unseals, RP!Unseals
<1>8. R!SendReady => RP!SendReady
  BY SameData DEF R!SendReady, RP!SendReady
<1>9. R!WriteSealed => RP!WriteSealed
  BY DEF R!WriteSealed, RP!WriteSealed, R!SealedBlob, RP!SealedBlob
<1>10. R!WriteKeyring => RP!WriteKeyring
  BY DEF R!WriteKeyring, RP!WriteKeyring, R!KeyringJson, RP!KeyringJson,
     R!AfterKeyring, RP!AfterKeyring
<1>11. R!InitQuote => RP!InitQuote
  BY DEF R!InitQuote, RP!InitQuote
<1>12. R!GetQuote => RP!GetQuote
  BY SameData DEF R!GetQuote, RP!GetQuote
<1>13. R!WriteCache => RP!WriteCache
  BY DEF R!WriteCache, RP!WriteCache, R!AttestationCacheJson, RP!AttestationCacheJson
<1>14. R!RefreshKeyring => RP!RefreshKeyring
  BY DEF R!RefreshKeyring, RP!RefreshKeyring, R!KeyringJson, RP!KeyringJson
<1>15. R!Announce => RP!Announce
  BY DEF R!Announce, RP!Announce, R!AttestedKey, RP!AttestedKey
<1>16. R!Reply => RP!Reply
  BY DEF R!Reply, RP!Reply, R!AttestedKey, RP!AttestedKey, R!NoAttestation, RP!NoAttestation,
     R!BootRequest, RP!BootRequest, R!NoCiphertext, RP!NoCiphertext
<1>17. \A frame : R!Receive(frame) => RP!Receive(frame)
  BY <1>3 DEF R!Receive, RP!Receive, R!FirstStep, RP!FirstStep, R!Stale, RP!Stale,
     R!SaturatingSub, RP!SaturatingSub
<1>18. R!Crash => RP!Crash
  BY <1>1, <1>2 DEF R!Crash, RP!Crash, R!Running, RP!Running
<1>3a. R!WriteFails => RP!WriteFails
  BY <1>1, <1>2 DEF R!WriteFails, RP!WriteFails
<1>20. R!QuoteFails => RP!QuoteFails
  BY <1>1 DEF R!QuoteFails, RP!QuoteFails
<1>21. R!Tick => RP!Tick
  BY DEF R!Tick, RP!Tick
<1>22. R!ClockSetBack => RP!ClockSetBack
  BY DEF R!ClockSetBack, RP!ClockSetBack
<1> QED
  BY <1>5, <1>6, <1>7, <1>8, <1>9, <1>10, <1>11, <1>12, <1>13, <1>14, <1>15, <1>16, <1>17,
     <1>18, <1>3a, <1>20, <1>21, <1>22

\* What a thread asks is a request the enclave takes.
LEMMA AsksAreSendable == Asks \subseteq RP!Sendable
BY DEF Asks, FramesWith, SentNonces, RP!Sendable, RP!Requests, RP!NonceValues

\* Every step of the service is one of the enclave, or hidden from it.
LEMMA EnclaveReacts ==
  ASSUME [Next]_vars, toRuntime \in Seq(Asks)
  PROVE  [RP!Reacts]_RP!vars
<1> USE SameSteps DEF RP!Reacts, RP!Step, RP!Fault
<1>1. ASSUME UNCHANGED enclaveVars PROVE UNCHANGED RP!vars
  BY <1>1 DEF enclaveVars, RP!vars, RP!volatile, RP!disk, RP!platform, RP!history
<1>2. CASE StartServe
  BY <1>2 DEF StartServe
<1>3. CASE EnclaveStep
  <2>1. CASE EmitReady \/ EmitAnnounce \/ EmitReply
    BY <2>1 DEF EmitReady, EmitAnnounce, EmitReply
  <2>2. CASE ReceiveFrame
    <3>1. Head(toRuntime) \in Asks
      BY <2>2 DEF ReceiveFrame
    <3> QED
      BY <2>2, <3>1, AsksAreSendable DEF ReceiveFrame
  <2>3. CASE InsideEnclave
    BY <2>3 DEF InsideEnclave
  <2> QED
    BY <1>3, <2>1, <2>2, <2>3 DEF EnclaveStep
<1>4. CASE EnclaveEnds
  BY <1>4 DEF EnclaveEnds
<1>5. CASE ClockMoves
  BY <1>5 DEF ClockMoves
<1>6. CASE StopServe
  BY <1>1, <1>6 DEF StopServe
<1>7. CASE ServeStep \/ WorkerStep \/ (\E c \in Clients : ClientStep(c)) \/ UNCHANGED vars
  <2>1. UNCHANGED enclaveVars
    BY <1>7 DEF ServeStep, WorkerStep, ClientStep, vars
  <2> QED
    BY <1>1, <2>1
<1> QED
  BY <1>2, <1>3, <1>4, <1>5, <1>6, <1>7 DEF Next

\* Keys that were told stay told, and versions that were rotated out stay out,
\* until a sealed store is destroyed.
LEMMA Growth ==
  ASSUME EnclaveInv, [RP!Reacts]_RP!vars
  PROVE  /\ NothingForgotten'
         /\ published \subseteq published'
         /\ lost => lost'
         /\ \A v \in Nat : Expired(v) /\ ~lost' => Expired(v)'
<1> USE DEF RP!volatile, RP!disk, RP!platform, RP!history
<1>1. /\ RETENTION \in Nat /\ RETENTION >= 2
      /\ sealed.store.current_version \in Nat /\ lost \in BOOLEAN
      /\ sealed \in [state : RP!FileStates, mr : Measurements, store : RP!Store]
  BY RetentionAssumption DEF EnclaveInv, RP!IInv, RP!TypeOK, RP!Store
<1>2. ASSUME UNCHANGED <<sealed, lost>>
      PROVE  /\ NothingForgotten' /\ (lost => lost')
             /\ \A v \in Nat : Expired(v) /\ ~lost' => Expired(v)'
  BY <1>2 DEF NothingForgotten, EnclaveInv, Expired
<1>3. ASSUME RP!Tear
      PROVE  /\ NothingForgotten' /\ (lost => lost')
             /\ \A v \in Nat : Expired(v) /\ ~lost' => Expired(v)'
  <2>1. \/ UNCHANGED <<sealed, lost>>
        \/ /\ sealed' = [sealed EXCEPT !.state = "torn"]
           /\ lost' = (lost \/ sealed.state = "ok")
    BY <1>3 DEF RP!Tear
  <2>2. CASE UNCHANGED <<sealed, lost>>
    BY <1>2, <2>2
  <2>3. CASE /\ sealed' = [sealed EXCEPT !.state = "torn"]
             /\ lost' = (lost \/ sealed.state = "ok")
    <3>1. sealed'.store = sealed.store /\ (lost => lost') /\ (~lost' => ~lost /\ sealed.state # "ok")
      BY <1>1, <2>3
    <3> QED
      BY <3>1 DEF NothingForgotten, EnclaveInv, Expired
  <2> QED
    BY <2>1, <2>2, <2>3
<1>4. CASE RP!WriteSealed
  <2>1. /\ pc = "seal" /\ published' = published
        /\ sealed' = RP!SealedBlob(mrenclave, store)
        /\ lost' = (lost \/ (request.op = "boot" /\ sealed.state = "ok"))
    BY <1>4 DEF RP!WriteSealed
  <2>2. sealed'.state = "ok" /\ sealed'.store = store /\ (lost => lost')
    BY <1>1, <2>1 DEF RP!SealedBlob
  <2>3. CASE request.op = "boot"
    <3>1. ~lost' => sealed.store.current_version = 0
      BY <2>1, <2>3 DEF EnclaveInv, NothingForgotten
    <3>2. \A v \in Nat : ~(v + RETENTION <= 0)
      BY <1>1
    <3> QED
      BY <2>1, <2>2, <3>1, <3>2 DEF NothingForgotten, Expired
  <2>4. CASE request.op # "boot"
    <3>1. store.current_version = sealed.store.current_version + 1
      BY <2>1, <2>4 DEF EnclaveInv, RP!IInv, RP!MemoryFollowsSealed, RP!Rotate
    <3> QED
      BY <1>1, <2>1, <2>2, <3>1 DEF NothingForgotten, Expired
  <2> QED
    BY <2>3, <2>4
<1>5. CASE \/ RP!Boot \/ RP!BootUnsealed \/ RP!BootNewStore \/ RP!SendReady \/ RP!WriteKeyring
           \/ RP!InitQuote \/ RP!GetQuote \/ RP!WriteCache \/ RP!RefreshKeyring
           \/ RP!Announce \/ RP!Reply \/ (\E frame \in RP!Sendable : RP!Receive(frame))
           \/ RP!Tick \/ RP!ClockSetBack \/ RP!QuoteFails \/ UNCHANGED RP!vars
  <2>1. UNCHANGED <<sealed, lost>> /\ published \subseteq published'
    BY <1>5 DEF RP!Boot, RP!BootUnsealed, RP!BootNewStore, RP!SendReady, RP!WriteKeyring,
       RP!InitQuote, RP!GetQuote, RP!WriteCache, RP!RefreshKeyring, RP!Announce, RP!Reply,
       RP!Receive, RP!Tick, RP!ClockSetBack, RP!QuoteFails, RP!vars
  <2>2. /\ NothingForgotten' /\ (lost => lost')
        /\ \A v \in Nat : Expired(v) /\ ~lost' => Expired(v)'
    BY ONLY <1>2, <2>1
  <2> QED
    BY ONLY <2>1, <2>2
<1>6. CASE RP!Crash \/ RP!WriteFails
  <2>1. published' = published /\ (RP!Tear \/ UNCHANGED <<sealed, lost>>)
    BY <1>6 DEF RP!Crash, RP!WriteFails
  <2>2. /\ NothingForgotten' /\ (lost => lost')
        /\ \A v \in Nat : Expired(v) /\ ~lost' => Expired(v)'
    BY ONLY <1>2, <1>3, <2>1
  <2> QED
    BY ONLY <2>1, <2>2
<1> QED
  BY <1>4, <1>5, <1>6 DEF RP!Reacts, RP!Step, RP!Fault

\* What the enclave attests and answers.
LEMMA EnclaveFacts ==
  ASSUME RP!IInv
  PROVE  /\ pc \in RP!PCs
         /\ attest \in RP!Attestations /\ request \in RP!Requests /\ published \subseteq RP!StoredKey
         /\ pc \notin {"down", "exited", "read_sealed"} =>
              /\ R!Current(store) \in RP!StoredKey
              /\ R!Current(store).version = store.current_version
         /\ \/ pc \in {"cache", "refresh", "announce"}
            \/ pc = "reply" /\ request.op \in {"attest", "rotate"}
            => Key(attest) = R!Current(store)
         /\ pc = "reply" /\ request.op = "compute" /\ Honest(request) /\ ~lost =>
              \/ R!ReplyFrame.outcome = "ok"
              \/ R!ReplyFrame.outcome = "key_expired" /\ Expired(request.key_version)
<1>1. RP!TypeOK /\ RP!MemoryWellFormed /\ RP!AttestNamesCurrent
  BY DEF RP!IInv
<1>2. pc \in RP!PCs /\ attest \in RP!Attestations /\ request \in RP!Requests
      /\ published \subseteq RP!StoredKey /\ store \in RP!Store
  BY <1>1 DEF RP!TypeOK
<1>3. pc \notin {"down", "exited", "read_sealed"} =>
        /\ R!Current(store) \in RP!StoredKey
        /\ R!Current(store).version = store.current_version
  BY <1>1, <1>2, CurrentKey, SameData DEF RP!MemoryWellFormed
<1>4. \/ pc \in {"cache", "refresh", "announce"}
      \/ pc = "reply" /\ request.op \in {"attest", "rotate"}
      => Key(attest) = R!Current(store)
  BY <1>1, SameData DEF RP!AttestNamesCurrent, RP!AttestedKey, Key
<1>5. ASSUME pc = "reply", request.op = "compute", Honest(request), ~lost
      PROVE  \/ R!ReplyFrame.outcome = "ok"
             \/ R!ReplyFrame.outcome = "key_expired" /\ Expired(request.key_version)
  <2> DEFINE p == [version |-> request.key_version, public_key |-> request.ct.key]
  <2>1. request.ct = [form |-> "xy", key |-> request.ct.key]
    BY <1>2, <1>5 DEF Honest, RP!Requests, RP!Ciphertexts
  <2>2. p \in RP!Exposed
    BY <1>5 DEF Honest, RP!Exposed
  <2>3. p.version = request.key_version /\ p.public_key = request.ct.key
    OBVIOUS
  <2>4. R!ReplyFrame.outcome = RP!ComputeOutcome(store, request.key_version, request.ct)
    <3>1. RP!ReplyFrame = [op |-> "compute", id |-> request.id, attest |-> RP!NoAttestation,
             outcome |-> RP!ComputeOutcome(store, request.key_version, request.ct)]
      BY <1>5 DEF RP!ReplyFrame
    <3> QED
      BY <3>1, SameData
  <2>5. ~RP!Bootstrapping
    BY <1>5 DEF RP!Bootstrapping
  <2> HIDE DEF p
  <2>6. RP!ComputeOutcome(store, p.version, [form |-> "xy", key |-> p.public_key])
          = IF store.current_version < p.version + RETENTION THEN "ok" ELSE "key_expired"
    BY <1>5, <2>2, <2>5, EnclaveDecrypts DEF RP!ExposedKeysDecrypt
  <2>7. sealed.store = store
    BY <1>5 DEF RP!IInv, RP!MemoryFollowsSealed, RP!StoreIsSealed, RP!SealedBlob
  <2>8. store.current_version \in Nat /\ p.version \in Nat /\ RETENTION \in Nat
    BY <1>2, <2>3, RetentionAssumption DEF RP!Store, RP!Requests
  <2>9. ~(store.current_version < p.version + RETENTION) => Expired(p.version)
    BY <2>7, <2>8 DEF Expired
  <2>10. R!ReplyFrame.outcome
           = IF store.current_version < p.version + RETENTION THEN "ok" ELSE "key_expired"
    BY <2>1, <2>3, <2>4, <2>6
  <2> QED
    BY <2>3, <2>9, <2>10
<1> QED
  BY <1>2, <1>3, <1>4, <1>5

-----------------------------------------------------------------------------
(* Types.                                                                  *)

\* What the enclave sends is a frame for the host.
LEMMA SentTyped ==
  ASSUME RP!IInv
  PROVE  /\ pc = "ready" => R!ReadyFrame \in EnclaveFrames
         /\ R!AttestationResponse(0) \in EnclaveFrames
         /\ R!ReplyFrame \in EnclaveFrames
<1>1. attest \in RP!Attestations /\ request \in RP!Requests /\ request.id \in Nat
  BY EnclaveFacts DEF RP!Requests
<1>2. R!NoAttestation \in RP!Attestations
  BY SameData DEF RP!NoAttestation, RP!Attestations, RP!NonceValues
<1>3. ASSUME pc = "ready" PROVE R!ReadyFrame \in EnclaveFrames
  <2>1. R!Current(store) \in RP!StoredKey
    BY <1>3, EnclaveFacts
  <2> QED
    BY <1>2, <2>1 DEF R!ReadyFrame, EnclaveFrames, Outcomes, RP!Attestations, RP!StoredKey
<1>4. \A i \in Nat : R!AttestationResponse(i) \in EnclaveFrames
  BY <1>1 DEF R!AttestationResponse, EnclaveFrames, Outcomes
<1>5. R!ReplyFrame \in EnclaveFrames
  <2>1. \A s, kv, ct : R!ComputeOutcome(s, kv, ct) \in Outcomes
    BY DEF R!ComputeOutcome, R!Decrypt, R!LookupError, Outcomes
  <2> QED
    BY <1>1, <1>2, <1>4, <2>1 DEF R!ReplyFrame, EnclaveFrames, Outcomes
<1> QED
  BY <1>3, <1>4, <1>5

\* The constants of Host, and what is made of a frame.
LEMMA DataTyped ==
  /\ H!NoFrame.op = "none" /\ H!NoFrame \notin Asks
  /\ H!Failed \in Results
  /\ H!NoBundle \in Bundles
  /\ H!NewClient \in ClientStates
  /\ \A f \in EnclaveFrames : H!Bundle(f) \in Bundles
  /\ \A f \in ClientFrames : H!AnsweredAt(f) = "locking" =>
       H!Forward(f) \in Asks
  /\ \A f \in ClientFrames : H!AnsweredAt(f) \in {"reading", "concluded", "locking"}
  /\ H!Frame("attest", WorkerNonce, 0, H!NoCiphertext) \in Asks
<1>1. H!NoCiphertext \in RP!Ciphertexts
  BY DEF H!NoCiphertext, RP!Ciphertexts
<1>2. H!NoFrame.op = "none" /\ H!NoFrame \notin Asks
  BY DEF H!NoFrame, H!Frame, Asks, FramesWith
<1>3. H!NoBundle \in Bundles
  BY DEF H!NoBundle, Bundles, RP!NonceValues
<1>4. H!Failed \in Results
  BY <1>3 DEF H!Failed, Results, Outcomes
<1>5. H!NewClient \in ClientStates
  BY DEF H!NewClient, ClientStates, Outcomes
<1>6. \A f \in EnclaveFrames : H!Bundle(f) \in Bundles
  BY DEF H!Bundle, EnclaveFrames, Bundles, RP!Attestations
<1>7. ASSUME NEW f \in ClientFrames, H!AnsweredAt(f) = "locking"
      PROVE  H!Forward(f) \in Asks
  BY <1>1, <1>7 DEF H!AnsweredAt, H!Forward, H!Frame, ClientFrames, Asks, FramesWith, SentNonces
<1>8. \A f \in ClientFrames : H!AnsweredAt(f) \in {"reading", "concluded", "locking"}
  BY DEF H!AnsweredAt
<1>9. H!Frame("attest", WorkerNonce, 0, H!NoCiphertext) \in Asks
  BY <1>1 DEF H!Frame, Asks, FramesWith, SentNonces
<1> QED
  BY <1>2, <1>3, <1>4, <1>5, <1>6, <1>7, <1>8, <1>9

\* What a client does with an answer.
LEMMA ReceivesTyped ==
  ASSUME HostTyped, NEW c \in Clients, NEW result \in Results
  PROVE  H!Receives(c, result) \in ClientStates
<1>1. client[c] \in ClientStates
  BY DEF HostTyped
<1> QED
  BY <1>1 DEF H!Receives, ClientStates, Results, Bundles, Outcomes

\* Clients that are hung up on are clients still.
LEMMA HangUpTyped ==
  ASSUME HostTyped, NEW cs, H!HangUp(cs)
  PROVE  client' \in [Clients -> ClientStates]
<1>1. \A c \in Clients : client[c] \in ClientStates
  BY DEF HostTyped
<1> QED
  BY <1>1 DEF H!HangUp, ClientStates, Outcomes

\* A connection keeps the types.
LEMMA ConnectTyped ==
  ASSUME HostTyped, NEW c \in Clients, NEW f \in ClientFrames, NEW me \in ClientStates,
         H!Connect(c, f, me)
  PROVE  HostTyped'
<1>1. [name |-> c, frame |-> f] \in Connections
  BY DEF Connections
<1>2. [me EXCEPT !.at = "done", !.outcome = "failed"] \in ClientStates
  BY DEF ClientStates, Outcomes
<1>3. backlog' \in Seq(Connections) /\ client' \in [Clients -> ClientStates]
  <2>1. backlog \in Seq(Connections) /\ client \in [Clients -> ClientStates]
    BY DEF HostTyped
  <2>2. Append(backlog, [name |-> c, frame |-> f]) \in Seq(Connections)
    BY <1>1, <2>1
  <2> QED
    BY <1>2, <2>1, <2>2, Zenon DEF H!Connect
<1> QED
  BY <1>3 DEF H!Connect, HostTyped, H!channels, H!threads, H!connection

\* An exchange keeps the types.
LEMMA ExchangeTyped ==
  ASSUME HostTyped, Mutex, NEW t \in Threads, H!Exchange(t)
  PROVE  HostTyped'
<1> USE DataTyped DEF HostTyped, H!threads, H!connection, H!channels
<1>1. ASSUME NEW r \in Results, H!Conclude(t, r)
      PROVE  /\ answer' \in [Threads -> Results] /\ step' \in [Threads -> Steps]
             /\ lock' \in Threads \cup {"free"}
  BY <1>1 DEF H!Conclude, Steps
<1>2. CASE H!Acquire(t)
  BY <1>2 DEF H!Acquire, Steps
<1>3. CASE H!Send(t)
  <2>1. pending[t] \in Asks
    BY <1>3 DEF H!Send, Mutex
  <2>2. [pending[t] EXCEPT !.id = next_id + 1] \in Asks
    <3>1. next_id + 1 \in Nat
      OBVIOUS
    <3> QED
      BY ONLY <2>1, <3>1 DEF Asks, FramesWith
  <2>3. pending' \in [Threads -> Asks \cup {H!NoFrame}] /\ pending'[t] \in Asks
    BY <1>3, <2>2 DEF H!Send
  <2>4. toRuntime' \in Seq(Asks)
    BY <1>3, <2>3 DEF H!Send
  <2> QED
    BY <1>3, <2>3, <2>4 DEF H!Send, H!LockWhileAwaiting, Steps
<1>4. CASE H!SendFails(t)
  BY <1>1, <1>4 DEF H!SendFails
<1>5. CASE H!AnswerFromBundle(t)
  <2>1. [outcome |-> "ok", bundle |-> latest_bundle] \in Results
    BY DEF Results, Outcomes
  <2> QED
    BY <1>1, <1>5, <2>1 DEF H!AnswerFromBundle
<1>6. CASE H!Read(t)
  <2> DEFINE frame == Head(toHost)
  <2>1. frame \in EnclaveFrames /\ toHost' \in Seq(EnclaveFrames)
    BY <1>6 DEF H!Read
  <2>2. latest_bundle' \in Bundles
    BY <1>6, <2>1 DEF H!Read, H!BundleAfter
  <2>3. [outcome |-> frame.outcome, bundle |-> H!Bundle(frame)] \in Results
    BY <2>1 DEF Results, EnclaveFrames
  <2>4. \/ UNCHANGED <<step, answer, lock>>
        \/ H!Conclude(t, [outcome |-> frame.outcome, bundle |-> H!Bundle(frame)])
        \/ H!Conclude(t, H!Failed)
    BY <1>6 DEF H!Read
  <2>5. /\ answer' \in [Threads -> Results] /\ step' \in [Threads -> Steps]
        /\ lock' \in Threads \cup {"free"}
    BY <1>1, <2>3, <2>4
  <2> QED
    BY <1>6, <2>1, <2>2, <2>5 DEF H!Read
<1>7. CASE H!ReadFails(t)
  BY <1>1, <1>7 DEF H!ReadFails
<1> QED
  BY <1>2, <1>3, <1>4, <1>5, <1>6, <1>7 DEF H!Exchange

\* The serve loop and the worker keep the types.
LEMMA ThreadsTyped ==
  ASSUME HostTyped, Mutex, Sessions, ServeStep \/ WorkerStep
  PROVE  HostTyped'
<1> USE DataTyped DEF HostTyped, H!threads, H!connection, H!channels
<1>1. "serve" \in Threads /\ "worker" \in Threads
  BY DEF Threads
<1>2. CASE H!Exchange("serve") \/ H!Exchange("worker")
  BY ONLY HostTyped, Mutex, <1>1, <1>2, ExchangeTyped
<1>3. CASE H!ReadReady
  <2>1. Head(toHost) \in EnclaveFrames /\ toHost' \in Seq(EnclaveFrames)
    BY <1>3 DEF H!ReadReady
  <2> QED
    BY <1>3, <2>1 DEF H!ReadReady
<1>4. CASE H!StartFails
  <2>1. client' \in [Clients -> ClientStates]
    BY <1>4, HangUpTyped DEF H!StartFails, H!ProcessEnds
  <2> QED
    BY <1>4, <2>1 DEF H!StartFails, H!ProcessEnds, H!Threads, Threads, Steps
<1>5. CASE H!Accept
  <2>1. /\ Head(backlog) \in Connections /\ backlog' \in Seq(Connections)
        /\ Head(backlog).frame \in ClientFrames
    <3>1. backlog \in Seq(Connections) /\ backlog # <<>> /\ backlog' = Tail(backlog)
      BY <1>5 DEF H!Accept
    <3>2. Head(backlog) \in Connections /\ Tail(backlog) \in Seq(Connections)
      BY ONLY <3>1
    <3> QED
      BY ONLY <3>1, <3>2 DEF Connections
  <2>2. step' \in [Threads -> Steps]
    BY <1>5, <2>1 DEF H!Accept, Steps
  <2>3. pending' \in [Threads -> Asks \cup {H!NoFrame}]
    BY <1>5, <2>1 DEF H!Accept
  <2>4. answer' \in [Threads -> Results]
    <3>1. [answer["serve"] EXCEPT !.outcome = "refused"] \in Results
      BY <1>1 DEF Results, Outcomes
    <3> QED
      BY <1>5, <3>1 DEF H!Accept
  <2> QED
    BY <1>5, <2>1, <2>2, <2>3, <2>4 DEF H!Accept, H!LockAtAccept
<1>6. CASE H!ReadingEnds
  BY <1>1, <1>6 DEF H!ReadingEnds, H!Conclude, Steps
<1>7. CASE H!ReplyToClient
  <2>1. serving_client.name \in Clients
    BY <1>7 DEF H!ReplyToClient, Sessions, Serving, InHand, Connections
  <2>2. H!Receives(serving_client.name, answer["serve"]) \in ClientStates
    BY <1>1, <2>1, ReceivesTyped
  <2>3. client' \in [Clients -> ClientStates]
    BY <1>7, <2>1, <2>2 DEF H!ReplyToClient
  <2>4. /\ serving_client' = H!NoClient /\ step' \in [Threads -> Steps]
        /\ pending' \in [Threads -> Asks \cup {H!NoFrame}] /\ answer' \in [Threads -> Results]
    BY <1>7 DEF H!ReplyToClient, Steps
  <2>5. UNCHANGED <<phase, leg, toRuntime, toHost, lock, next_id, latest_bundle, rounds, backlog>>
    BY <1>7 DEF H!ReplyToClient
  <2> QED
    BY ONLY HostTyped, <2>3, <2>4, <2>5 DEF HostTyped
<1>8. CASE H!WorkerWakes
  <2>1. /\ pending' \in [Threads -> Asks \cup {H!NoFrame}]
        /\ step' \in [Threads -> Steps] /\ rounds' \in Nat
    <3> DEFINE asked == H!Frame("attest", WorkerNonce, 0, H!NoCiphertext)
    <3>1. asked \in Asks
      BY DataTyped
    <3>2. /\ pending' = [pending EXCEPT !["worker"] = asked]
          /\ step' = [step EXCEPT !["worker"] = "locking"] /\ rounds' = rounds + 1
      BY <1>8 DEF H!WorkerWakes
    <3> HIDE DEF asked
    <3>3. /\ pending \in [Threads -> Asks \cup {H!NoFrame}]
          /\ step \in [Threads -> Steps] /\ rounds \in Nat
      BY DEF HostTyped
    <3>4. pending' \in [Threads -> Asks \cup {H!NoFrame}]
      BY ONLY <3>1, <3>2, <3>3
    <3>5. step' \in [Threads -> Steps]
      BY ONLY <3>2, <3>3 DEF Steps
    <3> QED
      BY ONLY <3>2, <3>3, <3>4, <3>5
  <2>2. UNCHANGED <<phase, leg, toRuntime, toHost, lock, answer, next_id, latest_bundle,
                    backlog, serving_client, client>>
    BY <1>8 DEF H!WorkerWakes
  <2> QED
    BY ONLY HostTyped, <2>1, <2>2 DEF HostTyped
<1>9. CASE H!WorkerSleeps
  BY <1>9 DEF H!WorkerSleeps, Steps
<1> QED
  BY <1>2, <1>3, <1>4, <1>5, <1>6, <1>7, <1>8, <1>9 DEF ServeStep, WorkerStep

\* A client's commands and its first frame.
LEMMA OpeningTyped ==
  ASSUME NEW c \in Clients, NEW command \in Command[c]
  PROVE  /\ H!Opening(c, command).frame \in ClientFrames
         /\ H!Opening(c, command).at \in {"challenging", "silent", "asking"}
         /\ command \in {"calc", "challenge", "pubkey", "rotate", "unsupported", "malformed",
                         "silent"}
<1>1. command \in {"calc", "challenge", "pubkey", "rotate", "unsupported", "malformed",
                   "silent"}
  BY CommandAssumption
<1>2. H!NoCiphertext \in RP!Ciphertexts
  BY DEF H!NoCiphertext, RP!Ciphertexts
<1> QED
  BY <1>1, <1>2 DEF H!Opening, H!Frame, ClientFrames, FramesWith, SentNonces

\* The clients keep the types.
LEMMA ClientsTyped ==
  ASSUME HostTyped, NEW c \in Clients, ClientStep(c)
  PROVE  HostTyped'
<1>1. client[c] \in ClientStates
  BY DEF HostTyped
<1>2. CASE H!Issue(c)
  <2>1. PICK command \in Command[c] :
          H!Connect(c, H!Opening(c, command).frame,
                    [client[c] EXCEPT !.command = command, !.at = H!Opening(c, command).at])
    BY <1>2 DEF H!Issue
  <2>2. [client[c] EXCEPT !.command = command, !.at = H!Opening(c, command).at] \in ClientStates
    BY <1>1, OpeningTyped DEF ClientStates
  <2>3. H!Opening(c, command).frame \in ClientFrames
    BY OpeningTyped
  <2> QED
    BY ONLY HostTyped, <2>1, <2>2, <2>3, ConnectTyped
<1>3. CASE H!Compute(c)
  <2> DEFINE f == H!Frame("compute", NoNonce, client[c].version,
                          [form |-> "xy", key |-> client[c].public_key])
             me == [client[c] EXCEPT !.at = "computing"]
  <2>1. H!Connect(c, f, me)
    BY <1>3 DEF H!Compute
  <2>2. me \in ClientStates
    BY <1>1 DEF ClientStates
  <2>3. f \in ClientFrames
    BY <1>1 DEF ClientStates, H!Frame, ClientFrames, FramesWith, SentNonces, RP!Ciphertexts
  <2> HIDE DEF f, me
  <2> QED
    BY ONLY HostTyped, <2>1, <2>2, <2>3, ConnectTyped
<1>4. CASE H!HangsUp(c)
  <2>1. client' \in [Clients -> ClientStates]
    BY <1>4, HangUpTyped DEF H!HangsUp
  <2> QED
    BY <1>4, <2>1 DEF H!HangsUp, HostTyped, H!threads, H!connection, H!channels
<1> QED
  BY <1>2, <1>3, <1>4 DEF ClientStep

\* Every step keeps the types of the host's variables.
LEMMA TypesStep ==
  ASSUME RP!IInv, HostTyped, Mutex, Sessions, [Next]_vars
  PROVE  HostTyped'
<1>1. ASSUME UNCHANGED hostVars PROVE HostTyped'
  BY <1>1 DEF hostVars, hostInside, HostTyped
<1>2. CASE StartServe
  BY <1>2 DEF StartServe, H!Start, HostTyped, H!threads, H!connection
<1>3. ASSUME NEW f \in EnclaveFrames, Emit(f) PROVE HostTyped'
  <2>1. toHost' \in Seq(EnclaveFrames)
    BY <1>3 DEF Emit, HostTyped
  <2> QED
    BY <1>3, <2>1 DEF Emit, hostInside, HostTyped
<1>4. CASE EnclaveStep
  <2>1. CASE EmitReady
    BY <1>3, <2>1, SentTyped DEF EmitReady, R!SendReady
  <2>2. CASE EmitAnnounce
    BY <1>3, <2>2, SentTyped DEF EmitAnnounce
  <2>3. CASE EmitReply
    BY <1>3, <2>3, SentTyped DEF EmitReply
  <2>4. CASE ReceiveFrame
    <3>1. toRuntime' \in Seq(Asks)
      BY <2>4 DEF ReceiveFrame, HostTyped
    <3> QED
      BY <2>4, <3>1 DEF ReceiveFrame, hostInside, HostTyped
  <2>5. CASE InsideEnclave
    BY <1>1, <2>5 DEF InsideEnclave
  <2> QED
    BY <1>4, <2>1, <2>2, <2>3, <2>4, <2>5 DEF EnclaveStep
<1>5. ASSUME LegCloses PROVE HostTyped'
  <2>1. toHost' \in Seq(EnclaveFrames)
    <3>1. PICK n \in 0..Len(toHost) : toHost' = SubSeq(toHost, 1, n)
      BY <1>5 DEF LegCloses
    <3> QED
      BY <3>1, SubSeqProperties DEF HostTyped
  <2> QED
    BY <1>5, <2>1 DEF LegCloses, hostInside, HostTyped
<1>6. CASE StopServe
  <2>1. H!ProcessEnds /\ client' \in [Clients -> ClientStates]
    BY <1>6, HangUpTyped DEF StopServe, H!ProcessEnds
  <2> QED
    BY <2>1, DataTyped DEF H!ProcessEnds, H!Threads, Threads, Steps, HostTyped
<1>7. CASE UNCHANGED vars
  BY <1>1, <1>7 DEF vars
<1>8. CASE ClockMoves
  BY <1>1, <1>8 DEF ClockMoves
<1>9. CASE ServeStep \/ WorkerStep
  BY <1>9, ThreadsTyped
<1>10. CASE \E c \in Clients : ClientStep(c)
  BY <1>10, ClientsTyped
<1> QED
  BY <1>2, <1>4, <1>5, <1>6, <1>7, <1>8, <1>9, <1>10 DEF Next, EnclaveEnds


-----------------------------------------------------------------------------
(* The mutex.                                                              *)

\* A thread that concludes releases the mutex if it held it.
LEMMA ConcludeMutex ==
  ASSUME HostTyped, Mutex, NEW t \in Threads, NEW r, H!Conclude(t, r), pending' = pending
  PROVE  Mutex'
<1>1. /\ step \in [Threads -> Steps] /\ step' = [step EXCEPT ![t] = "concluded"]
      /\ lock' = IF lock = t THEN "free" ELSE lock
      /\ "free" \notin Threads
  BY DEF HostTyped, H!Conclude, Threads
<1> QED
  BY <1>1 DEF Mutex

\* An exchange keeps the discipline.
LEMMA ExchangeMutex ==
  ASSUME HostTyped, HostTyped', Mutex, NEW t \in Threads, H!Exchange(t)
  PROVE  Mutex'
<1>1. /\ step \in [Threads -> Steps] /\ pending \in [Threads -> Asks \cup {H!NoFrame}]
      /\ pending' \in [Threads -> Asks \cup {H!NoFrame}] /\ "free" \notin Threads
  BY DEF HostTyped, Threads
<1>2. CASE H!Acquire(t)
  BY <1>1, <1>2 DEF H!Acquire, Mutex
<1>3. CASE H!Send(t)
  <2>1. /\ pending' = [pending EXCEPT ![t].id = next_id + 1] /\ step[t] = "locked"
        /\ step' = [step EXCEPT ![t] = "awaiting"] /\ lock' = t
    BY <1>3 DEF H!Send, H!LockWhileAwaiting
  <2>2. lock = t /\ pending[t] \in Asks
    BY <2>1 DEF Mutex
  <2>3. [pending[t] EXCEPT !.id = next_id + 1] \in Asks
    <3>1. next_id + 1 \in Nat
      BY DEF HostTyped
    <3> QED
      BY ONLY <2>2, <3>1 DEF Asks, FramesWith
  <2>4. /\ pending'[t] = [pending[t] EXCEPT !.id = next_id + 1]
        /\ \A u \in Threads \ {t} : pending'[u] = pending[u]
    BY ONLY <1>1, <2>1
  <2> QED
    BY ONLY <1>1, <2>1, <2>2, <2>3, <2>4, Mutex DEF Mutex
<1>4. CASE H!SendFails(t)
  BY <1>4, ConcludeMutex DEF H!SendFails
<1>5. CASE H!AnswerFromBundle(t)
  BY <1>5, ConcludeMutex DEF H!AnswerFromBundle
<1>6. CASE H!Read(t)
  <2>1. pending' = pending
        /\ \/ UNCHANGED <<step, answer, lock>>
           \/ H!Conclude(t, [outcome |-> Head(toHost).outcome, bundle |-> H!Bundle(Head(toHost))])
           \/ H!Conclude(t, H!Failed)
    BY <1>6 DEF H!Read
  <2>2. CASE UNCHANGED <<step, answer, lock>>
    BY <2>1, <2>2 DEF Mutex
  <2> QED
    BY <2>1, <2>2, ConcludeMutex
<1>7. CASE H!ReadFails(t)
  BY <1>7, ConcludeMutex DEF H!ReadFails
<1> QED
  BY <1>2, <1>3, <1>4, <1>5, <1>6, <1>7 DEF H!Exchange

\* Every step keeps the discipline of the mutex.
LEMMA MutexStep ==
  ASSUME HostTyped, HostTyped', Mutex, [Next]_vars
  PROVE  Mutex'
<1>1. /\ step \in [Threads -> Steps] /\ pending \in [Threads -> Asks \cup {H!NoFrame}]
      /\ pending' \in [Threads -> Asks \cup {H!NoFrame}]
      /\ "free" \notin Threads /\ "serve" \in Threads /\ "worker" \in Threads
  BY DEF HostTyped, Threads
<1>2. ASSUME UNCHANGED <<lock, step, pending>> PROVE Mutex'
  BY <1>2 DEF Mutex
<1>3. CASE \/ StartServe \/ EnclaveStep \/ EnclaveEnds \/ ClockMoves
           \/ (\E c \in Clients : ClientStep(c)) \/ UNCHANGED vars
  <2>1. UNCHANGED hostInside \/ StartServe \/ (\E c \in Clients : ClientStep(c))
    BY <1>3 DEF EnclaveStep, EmitReady, EmitAnnounce, EmitReply, Emit, ReceiveFrame,
       InsideEnclave, EnclaveEnds, LegCloses, ClockMoves, vars, hostVars
  <2>2. UNCHANGED <<lock, step, pending>>
    BY <2>1 DEF hostInside, StartServe, H!Start, ClientStep, H!Issue, H!Compute, H!HangsUp,
       H!Connect, H!threads
  <2> QED
    BY <1>2, <2>2
<1>4. CASE H!ProcessEnds
  BY <1>4, <1>1 DEF H!ProcessEnds, H!Threads, Threads, Mutex
<1>5. CASE H!Exchange("serve") \/ H!Exchange("worker")
  BY ONLY <1>1, <1>5, HostTyped, HostTyped', Mutex, ExchangeMutex
<1>6. CASE H!ReadReady
  BY <1>2, <1>6 DEF H!ReadReady, H!threads
<1>7. CASE H!Accept
  <2> DEFINE frame == Head(backlog).frame
  <2>1. /\ step["serve"] = "idle" /\ lock' = lock
        /\ step' = [step EXCEPT !["serve"] = H!AnsweredAt(frame)]
        /\ pending' = IF H!AnsweredAt(frame) = "locking"
                      THEN [pending EXCEPT !["serve"] = H!Forward(frame)] ELSE pending
    BY <1>7 DEF H!Accept, H!LockAtAccept
  <2>2. frame \in ClientFrames
    <3>1. backlog \in Seq(Connections) /\ backlog # <<>>
      BY <1>7 DEF H!Accept, HostTyped
    <3>2. Head(backlog) \in Connections
      BY ONLY <3>1
    <3> QED
      BY <3>2 DEF Connections
  <2>3. /\ H!AnsweredAt(frame) \in {"reading", "concluded", "locking"}
        /\ H!AnsweredAt(frame) = "locking" => H!Forward(frame) \in Asks
    BY <2>2, DataTyped
  <2> HIDE DEF frame
  <2> QED
    BY ONLY <1>1, <2>1, <2>3, Mutex DEF Mutex
<1>8. CASE H!ReadingEnds
  BY <1>1, <1>8, ConcludeMutex DEF H!ReadingEnds
<1>9. CASE H!ReplyToClient
  <2>1. /\ step["serve"] = "concluded" /\ step' = [step EXCEPT !["serve"] = "idle"]
        /\ pending' = [pending EXCEPT !["serve"] = H!NoFrame] /\ lock' = lock
    BY <1>9 DEF H!ReplyToClient
  <2> QED
    BY ONLY <1>1, <2>1, Mutex DEF Mutex
<1>10. CASE H!WorkerWakes
  <2> DEFINE asked == H!Frame("attest", WorkerNonce, 0, H!NoCiphertext)
  <2>1. /\ step["worker"] = "idle" /\ step' = [step EXCEPT !["worker"] = "locking"]
        /\ pending' = [pending EXCEPT !["worker"] = asked] /\ lock' = lock
    BY <1>10 DEF H!WorkerWakes
  <2>2. asked \in Asks
    BY DataTyped
  <2> HIDE DEF asked
  <2> QED
    BY ONLY <1>1, <2>1, <2>2, Mutex DEF Mutex
<1>11. CASE H!WorkerSleeps
  <2>1. /\ step["worker"] = "concluded" /\ step' = [step EXCEPT !["worker"] = "idle"]
        /\ pending' = [pending EXCEPT !["worker"] = H!NoFrame] /\ lock' = lock
    BY <1>11 DEF H!WorkerSleeps
  <2> QED
    BY ONLY <1>1, <2>1, Mutex DEF Mutex
<1> QED
  BY <1>3, <1>4, <1>5, <1>6, <1>7, <1>8, <1>9, <1>10, <1>11
     DEF Next, StopServe, ServeStep, WorkerStep, H!StartFails

-----------------------------------------------------------------------------
(* The conversation, step by step.                                         *)

\* Which parts of the conversation the enclave is in, by its next call.
LEMMA Phases ==
  ASSUME Conversation, RP!IInv
  PROVE  /\ ~R!Running => Ended
         /\ pc = "idle" => \/ \E f \in EnclaveFrames : Booted(f)
                           \/ Resting
                           \/ \E t \in Threads : Asked(t)
                           \/ \E t \in Threads, g \in EnclaveFrames : Replied(t, g)
         /\ R!Running /\ pc # "idle" => \/ Booting
                                        \/ \E t \in Threads : Handled(t)
                                        \/ \E t \in Threads, a \in EnclaveFrames : Announced(t, a)
         /\ leg = "open" <=> R!Running
<1>1. Ended => ~R!Running /\ leg = "closed"
  BY DEF Ended
<1>2. Booting => R!Running /\ pc # "idle" /\ leg = "open"
  BY DEF Booting, R!Running
<1>3. \A f \in EnclaveFrames : Booted(f) => pc = "idle" /\ leg = "open"
  BY DEF Booted
<1>4. Resting => pc = "idle" /\ leg = "open"
  BY DEF Resting
<1>5. \A t \in Threads : Asked(t) => pc = "idle" /\ leg = "open"
  BY DEF Asked
<1>6. \A t \in Threads : Handled(t) => R!Running /\ pc # "idle" /\ leg = "open"
  BY DEF Handled, Handler, R!Running
<1>7. \A t \in Threads, a \in EnclaveFrames : Announced(t, a) => R!Running /\ pc # "idle" /\ leg = "open"
  BY DEF Announced, R!Running
<1>8. \A t \in Threads, g \in EnclaveFrames : Replied(t, g) => pc = "idle" /\ leg = "open"
  BY DEF Replied
<1>9. pc = "idle" => R!Running
  BY DEF R!Running
<1> HIDE DEF R!Running
<1> QED
  BY ONLY Conversation, <1>1, <1>2, <1>3, <1>4, <1>5, <1>6, <1>7, <1>8, <1>9 DEF Conversation

\* At most one thread awaits.
LEMMA OneAwaits ==
  ASSUME Mutex, NEW t \in Threads, NEW u \in Threads, step[t] \in {"locked", "awaiting"}
  PROVE  /\ step[u] = "awaiting" => u = t
         /\ pending[t] \in Asks
BY DEF Mutex

\* What was answered stays right.
LEMMA AnswersStay ==
  ASSUME EnclaveInv, [RP!Reacts]_RP!vars, NEW r \in Asks
  PROVE  /\ \A g : Response(r, g) => Response(r, g)'
         /\ \A frames : Remains(r, frames) => Remains(r, frames)'
<1>1. /\ published \subseteq published' /\ (lost => lost') /\ r.key_version \in Nat
      /\ Expired(r.key_version) /\ ~lost' => Expired(r.key_version)'
  BY Growth DEF Asks, FramesWith
<1>2. \A g : Response(r, g) => Response(r, g)'
  BY <1>1 DEF Response
<1>3. ASSUME NEW frames, Remains(r, frames) PROVE Remains(r, frames)'
  <2> HIDE DEF Response
  <2> QED
    BY <1>2, <1>3 DEF Remains, Announcement
<1> QED
  BY <1>2, <1>3

\* What the enclave and the frames under way are not touched by.
LEMMA ConversationKept ==
  ASSUME EnclaveInv, [RP!Reacts]_RP!vars, Mutex, Conversation,
         UNCHANGED <<leg, phase, toRuntime, toHost, latest_bundle, pc, request, attest, store>>,
         \A t \in Threads :
           /\ step'[t] = "awaiting" <=> step[t] = "awaiting"
           /\ step[t] = "awaiting" => pending'[t] = pending[t],
         phase # "serving" => step' = step
  PROVE  Conversation'
<1>1. NobodyAwaits => NobodyAwaits'
  BY DEF NobodyAwaits
<1>2. phase # "serving" /\ AllIdle => AllIdle'
  BY DEF AllIdle
<1>3. \A x : NamesCurrent(x) => NamesCurrent(x)'
  BY DEF NamesCurrent, R!Current, R!Find, R!Positions
<1>4. R!BindingNonce' = R!BindingNonce
  BY DEF R!BindingNonce
<1>5. Booting => Booting'
  BY <1>2 DEF Booting
<1>6. ASSUME NEW f \in EnclaveFrames, Booted(f) PROVE Booted(f)'
  BY <1>2, <1>3, <1>6 DEF Booted
<1>7. Resting => Resting'
  BY <1>1 DEF Resting, NamesCurrent, R!Current, R!Find, R!Positions
<1>8. ASSUME NEW t \in Threads, Asked(t) PROVE Asked(t)'
  BY <1>8 DEF Asked, NamesCurrent, R!Current, R!Find, R!Positions
<1>9. ASSUME NEW t \in Threads, Handled(t) PROVE Handled(t)'
  BY <1>4, <1>9 DEF Handled, Handler, NamesCurrent, R!Current, R!Find, R!Positions
<1>10. ASSUME NEW t \in Threads, NEW a \in EnclaveFrames, Announced(t, a) PROVE Announced(t, a)'
  BY <1>3, <1>10 DEF Announced, Announcement
<1>11. ASSUME NEW t \in Threads, NEW g \in EnclaveFrames, Replied(t, g) PROVE Replied(t, g)'
  <2>1. PICK r : r = pending[t]
    OBVIOUS
  <2>2. step[t] = "awaiting" /\ r \in Asks /\ pending'[t] = r
    BY <1>11, <2>1, OneAwaits DEF Replied
  <2>3. Response(r, g)'
    BY <1>11, <2>1, <2>2, AnswersStay DEF Replied
  <2> QED
    BY <1>3, <1>11, <2>1, <2>2, <2>3 DEF Replied, Announcement, NamesCurrent, R!Current, R!Find, R!Positions
<1>12. Ended => Ended'
  <2>1. ASSUME NEW t \in Threads, step[t] = "awaiting", Remains(pending[t], toHost)
        PROVE  step'[t] = "awaiting" /\ Remains(pending[t], toHost)'
    <3>1. PICK r, frames : r = pending[t] /\ frames = toHost
      OBVIOUS
    <3>2. r \in Asks /\ pending'[t] = r /\ toHost' = frames
      BY <2>1, <3>1, OneAwaits
    <3>3. Remains(r, frames)'
      BY <2>1, <3>1, <3>2, AnswersStay
    <3> QED
      BY <2>1, <3>2, <3>3
  <2> QED
    BY <1>1, <1>2, <2>1 DEF Ended, R!Running
<1> QED
  BY <1>5, <1>6, <1>7, <1>8, <1>9, <1>10, <1>11, <1>12 DEF Conversation

\* The loader is spawned.
LEMMA StartConversation ==
  ASSUME RP!IInv, Conversation, StartServe
  PROVE  Conversation'
<1>1. phase = "down" /\ pc \in {"down", "exited"}
  BY DEF StartServe, H!Start, R!Boot
<1>2. AllIdle /\ toHost = <<>> /\ toRuntime = <<>>
  BY <1>1, Phases DEF Ended, R!Running
<1>3. /\ leg' = "open" /\ phase' = "starting" /\ UNCHANGED <<step, toHost, toRuntime>>
      /\ pc' = "read_sealed" /\ request'.op = "boot"
  BY DEF StartServe, H!Start, H!threads, R!Boot, R!MemoryCleared, R!BootRequest
<1>4. Booting'
  BY <1>2, <1>3 DEF Booting, AllIdle
<1> QED
  BY <1>4 DEF Conversation

\* The enclave announces that it is ready.
LEMMA ReadyConversation ==
  ASSUME RP!IInv, Conversation, EmitReady
  PROVE  Conversation'
<1>1. pc = "ready" /\ pc' = "idle" /\ store' = store
      /\ toHost' = Append(toHost, R!ReadyFrame) /\ UNCHANGED <<phase, step, leg, toRuntime>>
  BY DEF EmitReady, Emit, R!SendReady, R!volatile, hostInside
<1>2. Booting
  BY <1>1, Phases DEF R!Running, Handled, Handler, Announced
<1>3. PICK f \in EnclaveFrames : f = R!ReadyFrame
  BY <1>1, SentTyped
<1>4. f.op = "ready" /\ NamesCurrent(f.attest)
  <2>1. R!Current(store) \in RP!StoredKey
    BY <1>1, EnclaveFacts
  <2>2. R!NoAttestation = [version |-> 0, public_key |-> 0, nonce |-> NoNonce, attested_at |-> 0]
    BY DEF R!NoAttestation
  <2>3. /\ f.op = "ready" /\ f.attest.version = R!Current(store).version
        /\ f.attest.public_key = R!Current(store).public_key
    BY <1>3, <2>2 DEF R!ReadyFrame
  <2> QED
    BY <2>1, <2>3 DEF NamesCurrent, Key, RP!StoredKey
<1>5. toHost' = <<f>>
  BY <1>1, <1>2, <1>3 DEF Booting
<1>6. Booted(f)'
  BY <1>1, <1>2, <1>4, <1>5 DEF Booted, Booting, AllIdle, NamesCurrent, R!Current, R!Find, R!Positions
<1> QED
  BY <1>6 DEF Conversation

\* The enclave announces a new attestation before it replies.
LEMMA AnnounceConversation ==
  ASSUME RP!IInv, Mutex, Conversation, EmitAnnounce
  PROVE  Conversation'
<1>1. /\ pc = "announce" /\ pc' = "reply" /\ UNCHANGED <<store, request>>
      /\ toHost' = Append(toHost, R!AttestationResponse(0))
      /\ UNCHANGED <<phase, step, leg, toRuntime, pending>>
  BY DEF EmitAnnounce, Emit, R!Announce, hostInside
<1>2. PICK t \in Threads : Handled(t)
  BY <1>1, Phases DEF R!Running, Booting, Announced
<1>3. PICK a \in EnclaveFrames : a = R!AttestationResponse(0)
  BY SentTyped
<1>4. request.op # "attest"
  BY <1>1, <1>2 DEF Handled, Handler
<1>5. a.op = "attestation" /\ NamesCurrent(a.attest)
  BY <1>1, <1>3, EnclaveFacts DEF R!AttestationResponse, NamesCurrent
<1>6. toHost' = <<a>>
  BY <1>1, <1>2, <1>3 DEF Handled
<1>7. Announced(t, a)'
  BY <1>1, <1>2, <1>4, <1>5, <1>6
     DEF Announced, Announcement, Handled, NamesCurrent, R!Current, R!Find, R!Positions
<1> QED
  BY <1>7 DEF Conversation

\* What is asked while the enclave holds keys that were told can be decrypted.
LEMMA PendingHonest ==
  ASSUME Sessions, NEW t \in Threads, step[t] = "awaiting"
  PROVE  Honest(pending[t])
<1>1. CASE t = "worker"
  BY <1>1 DEF Sessions, Working, Honest
<1>2. CASE t = "serve"
  <2>1. /\ Honest(serving_client.frame)
        /\ pending["serve"].op = H!Forward(serving_client.frame).op
        /\ pending["serve"].key_version = H!Forward(serving_client.frame).key_version
        /\ pending["serve"].ct = H!Forward(serving_client.frame).ct
    BY <1>2 DEF Sessions, Serving, InHand, Fits, Awaits
  <2>2. serving_client.frame \in ClientFrames /\ step["serve"] \in {"locking", "locked", "awaiting"}
    BY <1>2 DEF Sessions, Serving, InHand, Connections
  <2>3. \A f \in ClientFrames : H!Forward(f).op = "compute" => H!Forward(f) = f
    BY DEF H!Forward, H!Frame, ClientFrames, FramesWith
  <2> QED
    BY <1>2, <2>1, <2>2, <2>3 DEF Honest
<1> QED
  BY <1>1, <1>2 DEF Threads

\* A pair is a sequence of one appended to.
LEMMA AppendToTuple ==
  ASSUME NEW a, NEW b
  PROVE  Append(<<a>>, b) = <<a, b>>
<1> DEFINE s == Append(<<a>>, b)
           t == <<a, b>>
<1>1. s \in Seq({a, b}) /\ Len(s) = 2 /\ s[1] = a /\ s[2] = b
  OBVIOUS
<1>2. t \in Seq({a, b}) /\ Len(t) = 2 /\ t[1] = a /\ t[2] = b
  OBVIOUS
<1> HIDE DEF s, t
<1>3. \A i \in 1..Len(s) : s[i] = t[i]
  BY <1>1, <1>2
<1> QED
  BY <1>1, <1>2, <1>3, SeqEqual DEF s, t

\* The enclave replies.
LEMMA ReplyConversation ==
  ASSUME EnclaveInv, [RP!Reacts]_RP!vars, HostTyped, Mutex, Sessions, Conversation, EmitReply
  PROVE  Conversation'
<1> DEFINE Answering(t) == /\ leg = "open" /\ phase = "serving" /\ step[t] = "awaiting"
                           /\ request = pending[t] /\ toRuntime = <<>>
<1>1. /\ pc = "reply" /\ pc' = "idle" /\ UNCHANGED <<store, lost>>
      /\ published' = IF request.op \in {"attest", "rotate"}
                      THEN published \cup {Key(attest)} ELSE published
      /\ toHost' = Append(toHost, R!ReplyFrame)
      /\ UNCHANGED <<phase, step, leg, toRuntime, pending, latest_bundle>>
  BY DEF EmitReply, Emit, R!Reply, R!AttestedKey, Key, hostInside
<1>2. PICK t \in Threads :
        /\ Answering(t)
        /\ request.op = "attest" => attest.nonce = R!BindingNonce
        /\ \/ toHost = <<>> /\ (request.op = "compute" => NamesCurrent(latest_bundle))
           \/ \E a \in EnclaveFrames :
                Announcement(request, a) /\ NamesCurrent(a.attest) /\ toHost = <<a>>
  <2>1. (\E t \in Threads : Handled(t)) \/ (\E t \in Threads, a \in EnclaveFrames : Announced(t, a))
    BY <1>1, Phases DEF R!Running, Booting, EnclaveInv
  <2>2. CASE \E t \in Threads : Handled(t)
    BY <1>1, <2>2 DEF Handled
  <2>3. CASE \E t \in Threads, a \in EnclaveFrames : Announced(t, a)
    BY <1>1, <2>3 DEF Announced, Announcement
  <2> QED
    BY <2>1, <2>2, <2>3
<1>3. PICK r, g : r = pending[t] /\ g = R!ReplyFrame
  OBVIOUS
<1>4. r \in Asks /\ r = request /\ g \in EnclaveFrames
  BY <1>2, <1>3, SentTyped, OneAwaits DEF EnclaveInv
<1>5. r.op \in {"attest", "compute", "rotate"}
  BY <1>4 DEF Asks, FramesWith
<1>6. \/ r.op = "attest" /\ g = [op |-> "attestation", id |-> r.id, outcome |-> "ok", attest |-> attest]
      \/ r.op = "compute" /\ g.op = "compute" /\ g.id = r.id
      \/ r.op = "rotate" /\ g = [op |-> "rotate", id |-> r.id, outcome |-> "ok", attest |-> attest]
  BY <1>3, <1>4, <1>5 DEF R!ReplyFrame, R!AttestationResponse
<1>7. r.op \in {"attest", "rotate"} => NamesCurrent(attest) /\ Key(attest) \in published'
  BY <1>1, <1>4, EnclaveFacts DEF EnclaveInv, NamesCurrent
<1>8. ASSUME r.op = "attest", r.nonce # NoNonce PROVE attest.nonce = r.nonce
  BY <1>2, <1>4, <1>8 DEF R!BindingNonce
<1>9. ASSUME r.op = "compute", ~lost'
      PROVE  g.outcome = "ok" \/ (g.outcome = "key_expired" /\ Expired(r.key_version)')
  <2>1. Honest(request) /\ ~lost
    BY <1>1, <1>2, <1>9, PendingHonest
  <2>2. g.outcome = "ok" \/ (g.outcome = "key_expired" /\ Expired(r.key_version))
    BY <1>1, <1>3, <1>4, <1>9, <2>1, EnclaveFacts DEF EnclaveInv
  <2>3. r.key_version \in Nat
    BY <1>4 DEF Asks, FramesWith
  <2> QED
    BY <1>9, <2>2, <2>3, Growth
<1>10. Response(r, g)'
  <2>1. r.op = "attest" =>
          /\ g.outcome = "ok" /\ Key(g.attest) \in published'
          /\ r.nonce # NoNonce => g.attest.nonce = r.nonce
    BY <1>6, <1>7, <1>8
  <2>2. g.op = H!ResponseOp(r.op) /\ g.id = r.id
    BY <1>6 DEF H!ResponseOp
  <2> QED
    BY <1>4, <1>9, <2>1, <2>2 DEF Response, Key
<1>11. g.op # "compute" => NamesCurrent(g.attest)
  BY <1>6, <1>7
<1>12. \A x : NamesCurrent(x) => NamesCurrent(x)'
  BY <1>1 DEF NamesCurrent, R!Current, R!Find, R!Positions
<1>13. pending'[t] = r /\ step'[t] = "awaiting" /\ leg' = "open" /\ phase' = "serving" /\ toRuntime' = <<>>
  BY <1>1, <1>2, <1>3
<1>14. \/ toHost' = <<g>> /\ (g.op = "compute" => NamesCurrent(latest_bundle)')
       \/ \E a \in EnclaveFrames :
            Announcement(r, a) /\ NamesCurrent(a.attest)' /\ toHost' = <<a, g>>
  <2>1. CASE toHost = <<>> /\ (request.op = "compute" => NamesCurrent(latest_bundle))
    <3>1. toHost' = <<g>>
      BY <1>1, <1>3, <2>1
    <3>2. g.op = "compute" => NamesCurrent(latest_bundle)'
      BY <1>1, <1>4, <1>6, <2>1 DEF NamesCurrent, R!Current, R!Find, R!Positions
    <3> QED
      BY <3>1, <3>2
  <2>2. ASSUME NEW a \in EnclaveFrames,
               Announcement(request, a), NamesCurrent(a.attest), toHost = <<a>>
        PROVE  Announcement(r, a) /\ NamesCurrent(a.attest)' /\ toHost' = <<a, g>>
    <3>1. toHost' = <<a, g>>
      BY <1>1, <1>3, <2>2, AppendToTuple
    <3> QED
      BY <1>4, <1>12, <2>2, <3>1
  <2> QED
    BY <1>2, <2>1, <2>2
<1>15. Replied(t, g)'
  BY <1>1, <1>10, <1>11, <1>12, <1>13, <1>14 DEF Replied, Announcement
<1> QED
  BY <1>4, <1>15 DEF Conversation

\* The enclave takes a request.
LEMMA ReceiveConversation ==
  ASSUME RP!IInv, Mutex, Conversation, ReceiveFrame
  PROVE  Conversation'
<1>1. /\ pc = "idle" /\ toRuntime # <<>> /\ toRuntime' = Tail(toRuntime)
      /\ request' = Head(toRuntime) /\ pc' = R!FirstStep(Head(toRuntime))
      /\ Head(toRuntime).op # "rotate" => store' = store
      /\ UNCHANGED <<phase, step, pending, latest_bundle, leg, toHost>>
  BY DEF ReceiveFrame, R!Receive, hostInside
<1>2. PICK t \in Threads : Asked(t)
  BY <1>1, Phases DEF Booted, Resting, Replied
<1>3. PICK r : r = pending[t]
  OBVIOUS
<1>4. /\ leg = "open" /\ phase = "serving" /\ step[t] = "awaiting" /\ NamesCurrent(latest_bundle)
      /\ toHost = <<>> /\ toRuntime = <<r>>
  BY <1>2, <1>3 DEF Asked
<1>5. Head(toRuntime) = r /\ Tail(toRuntime) = <<>>
  BY <1>4
<1>6. r \in Asks
  BY <1>3, <1>4, OneAwaits
<1>7. r.op \in {"attest", "compute", "rotate"} /\ r.nonce # BadNonce
  BY <1>6, NonceAssumption DEF Asks, FramesWith, SentNonces
<1>8. \/ r.op = "attest" /\ pc' = "init_quote"
      \/ r.op = "compute" /\ pc' \in {"init_quote", "reply"} /\ store' = store
      \/ r.op = "rotate" /\ pc' = "seal"
  BY <1>1, <1>5, <1>7 DEF R!FirstStep
<1>9. pc' \in Handler(r)
  BY <1>8 DEF Handler
<1>10. r.op = "compute" => NamesCurrent(latest_bundle)'
  BY <1>1, <1>4, <1>8 DEF NamesCurrent, R!Current, R!Find, R!Positions
<1>11. request' = r /\ pending'[t] = r /\ ~(r.op = "attest" /\ pc' \in {"cache", "refresh", "reply"})
  BY <1>1, <1>3, <1>5, <1>8
<1>12. /\ leg' = "open" /\ phase' = "serving" /\ step'[t] = "awaiting"
       /\ toRuntime' = <<>> /\ toHost' = <<>>
  BY <1>1, <1>4, <1>5
<1>13. Handled(t)'
  BY <1>9, <1>10, <1>11, <1>12 DEF Handled, Handler
<1> QED
  BY <1>13 DEF Conversation

\* The enclave makes a call.
LEMMA InsideConversation ==
  ASSUME RP!IInv, Mutex, Conversation, InsideEnclave
  PROVE  Conversation'
<1>1. UNCHANGED <<phase, step, pending, leg, toRuntime, toHost, latest_bundle>>
  BY DEF InsideEnclave, hostVars, hostInside
<1>2. /\ R!Running /\ pc # "idle" /\ pc \notin {"announce", "reply"}
      /\ request' = request
      /\ \/ pc = "read_sealed" /\ pc' \in {"keyring", "seal"}
         \/ pc = "seal" /\ pc' = "keyring" /\ store' = store
         \/ pc = "keyring" /\ pc' = R!AfterKeyring /\ store' = store
         \/ pc = "init_quote" /\ pc' = "get_quote" /\ store' = store
         \/ pc = "get_quote" /\ pc' = "cache" /\ store' = store /\ attest'.nonce = R!BindingNonce
         \/ pc = "cache" /\ pc' = "refresh" /\ store' = store /\ attest' = attest
         \/ /\ pc = "refresh" /\ store' = store /\ attest' = attest
            /\ pc' = IF request.op = "attest" THEN "reply" ELSE "announce"
  BY DEF InsideEnclave, R!BootUnsealed, R!AfterUnseal, R!BootNewStore, R!WriteSealed,
     R!WriteKeyring, R!InitQuote, R!GetQuote, R!WriteCache, R!RefreshKeyring, R!volatile, R!Running
<1>3. R!BindingNonce' = R!BindingNonce
  BY <1>2 DEF R!BindingNonce
<1>4. CASE Booting
  <2>1. pc' \in {"read_sealed", "seal", "keyring", "ready"}
    BY <1>2, <1>4 DEF Booting, R!AfterKeyring
  <2>2. Booting'
    BY <1>1, <1>2, <1>4, <2>1 DEF Booting, AllIdle
  <2> QED
    BY <2>2 DEF Conversation
<1>5. ASSUME NEW t \in Threads, Handled(t) PROVE Conversation'
  <2>1. request \in Asks
    BY <1>5, OneAwaits DEF Handled
  <2>2. request.op \in {"attest", "compute", "rotate"} /\ request.nonce # BadNonce
    BY <2>1, NonceAssumption DEF Asks, FramesWith, SentNonces
  <2>3. pc \in Handler(request)
    BY <1>5 DEF Handled
  <2>4. pc' \in Handler(request) /\ store' = store
    BY <1>2, <2>2, <2>3 DEF Handler, R!AfterKeyring
  <2>5. request.op = "compute" => NamesCurrent(latest_bundle)'
    BY <1>1, <1>5, <2>4 DEF Handled, NamesCurrent, R!Current, R!Find, R!Positions
  <2>6. request.op = "attest" /\ pc' \in {"cache", "refresh", "reply"} => attest'.nonce = R!BindingNonce
    BY <1>2, <1>5, <2>2, <2>3 DEF Handled, Handler
  <2>7. Handler(request)' = Handler(request)
    BY <1>2 DEF Handler
  <2>8. /\ leg' = "open" /\ phase' = "serving" /\ step'[t] = "awaiting"
        /\ toRuntime' = <<>> /\ toHost' = <<>> /\ request' = pending'[t]
    BY <1>1, <1>2, <1>5 DEF Handled
  <2>9. Handled(t)'
    BY <1>2, <1>3, <2>4, <2>5, <2>6, <2>7, <2>8 DEF Handled
  <2> QED
    BY <2>9 DEF Conversation
<1>6. ~(\E t \in Threads, a \in EnclaveFrames : Announced(t, a))
  BY <1>2 DEF Announced
<1> QED
  BY <1>2, <1>4, <1>5, <1>6, Phases

\* What is left of at most two frames when the leg closes.
LEMMA Prefixes ==
  ASSUME NEW a, NEW g
  PROVE  /\ \A n \in 0..Len(<<>>) : SubSeq(<<>>, 1, n) = <<>>
         /\ \A n \in 0..Len(<<a>>) : SubSeq(<<a>>, 1, n) \in {<<>>, <<a>>}
         /\ \A n \in 0..Len(<<a, g>>) : SubSeq(<<a, g>>, 1, n) \in {<<>>, <<a>>, <<a, g>>}
<1> DEFINE t == <<a, g>>
           s == <<a>>
<1>1. t \in Seq({a, g}) /\ Len(t) = 2 /\ t[1] = a /\ t[2] = g
  OBVIOUS
<1>2. s \in Seq({a, g}) /\ Len(s) = 1 /\ s[1] = a
  OBVIOUS
<1>3. /\ <<>> \in Seq({a, g}) /\ Len(<<>>) = 0
  OBVIOUS
<1> HIDE DEF s, t
<1>4. \A n \in 0..2 : SubSeq(t, 1, n) \in Seq({a, g}) /\ Len(SubSeq(t, 1, n)) = n
        /\ \A i \in 1..n : SubSeq(t, 1, n)[i] = t[i]
  BY <1>1, SubSeqProperties
<1>5. SubSeq(t, 1, 0) = <<>> /\ SubSeq(t, 1, 1) = s /\ SubSeq(t, 1, 2) = t
  <2>1. SubSeq(t, 1, 0) = <<>>
    BY <1>3, <1>4, SeqEqual
  <2>2. SubSeq(t, 1, 1) = s
    BY <1>1, <1>2, <1>4, SeqEqual
  <2>3. SubSeq(t, 1, 2) = t
    BY <1>1, <1>4, SeqEqual
  <2> QED
    BY <2>1, <2>2, <2>3
<1>6. \A n \in 0..1 : SubSeq(s, 1, n) \in Seq({a, g}) /\ Len(SubSeq(s, 1, n)) = n
        /\ \A i \in 1..n : SubSeq(s, 1, n)[i] = s[i]
  BY <1>2, SubSeqProperties
<1>7. SubSeq(s, 1, 0) = <<>> /\ SubSeq(s, 1, 1) = s
  <2>1. SubSeq(s, 1, 0) = <<>>
    BY <1>3, <1>6, SeqEqual
  <2>2. SubSeq(s, 1, 1) = s
    BY <1>2, <1>6, SeqEqual
  <2> QED
    BY <2>1, <2>2
<1>8. \A n \in 0..0 : SubSeq(<<>>, 1, n) = <<>>
  <2>1. SubSeq(<<>>, 1, 0) \in Seq({a, g}) /\ Len(SubSeq(<<>>, 1, 0)) = 0
    BY <1>3, SubSeqProperties
  <2> QED
    BY <2>1, <1>3, SeqEqual
<1>9. \A n \in 0..Len(s) : SubSeq(s, 1, n) \in {<<>>, s}
  BY <1>2, <1>7
<1>10. \A n \in 0..Len(t) : SubSeq(t, 1, n) \in {<<>>, s, t}
  BY <1>1, <1>5
<1>11. \A n \in 0..Len(<<>>) : SubSeq(<<>>, 1, n) = <<>>
  BY <1>3, <1>8
<1> QED
  BY <1>9, <1>10, <1>11 DEF s, t

\* Frames that are lost leave an answer of which less remains.
LEMMA LessRemains ==
  ASSUME NEW r, NEW frames, NEW n \in 0..Len(frames), Remains(r, frames)
  PROVE  Remains(r, SubSeq(frames, 1, n))
<1>1. CASE frames = <<>>
  BY <1>1, Prefixes DEF Remains
<1>2. ASSUME NEW a \in EnclaveFrames, Announcement(r, a), frames = <<a>>
      PROVE  Remains(r, SubSeq(frames, 1, n))
  BY <1>2, Prefixes DEF Remains
<1>3. ASSUME NEW g \in EnclaveFrames, Response(r, g), frames = <<g>>
      PROVE  Remains(r, SubSeq(frames, 1, n))
  BY <1>3, Prefixes DEF Remains
<1>4. ASSUME NEW a \in EnclaveFrames, NEW g \in EnclaveFrames,
             Announcement(r, a), Response(r, g), frames = <<a, g>>
      PROVE  Remains(r, SubSeq(frames, 1, n))
  <2>1. SubSeq(frames, 1, n) \in {<<>>, <<a>>, <<a, g>>}
    BY <1>4, Prefixes
  <2> QED
    BY <1>4, <2>1 DEF Remains
<1> QED
  BY <1>1, <1>2, <1>3, <1>4 DEF Remains

\* The enclave ends, and frames under way are lost.
LEMMA EndsConversation ==
  ASSUME EnclaveInv, [RP!Reacts]_RP!vars, Mutex, Conversation, EnclaveEnds
  PROVE  Conversation'
<1>1. /\ R!Running /\ ~R!Running'
      /\ leg' = "closed" /\ toRuntime' = <<>> /\ UNCHANGED <<phase, step, pending>>
  BY DEF EnclaveEnds, LegCloses, hostInside, R!Crash, R!WriteFails, R!QuoteFails, R!Running
<1>2. PICK n \in 0..Len(toHost) : toHost' = SubSeq(toHost, 1, n)
  BY DEF EnclaveEnds, LegCloses
<1>3. CASE AllIdle /\ phase = "starting"
           /\ (toHost = <<>> \/ \E f \in EnclaveFrames : f.op = "ready" /\ toHost = <<f>>)
  <2>1. toHost' = <<>> \/ \E f \in EnclaveFrames : f.op = "ready" /\ toHost' = <<f>>
    <3>1. CASE toHost = <<>>
      BY <1>2, <3>1, Prefixes
    <3>2. ASSUME NEW f \in EnclaveFrames, f.op = "ready", toHost = <<f>>
          PROVE  toHost' \in {<<>>, <<f>>}
      BY <1>2, <3>2, Prefixes
    <3> QED
      BY <1>3, <3>1, <3>2
  <2>2. AllIdle' /\ phase' = "starting"
    BY <1>1, <1>3 DEF AllIdle
  <2>3. Ended'
    BY <1>1, <2>1, <2>2 DEF Ended
  <2> QED
    BY <2>3 DEF Conversation
<1>4. CASE NobodyAwaits /\ phase = "serving" /\ toHost = <<>>
  <2>1. toHost' = <<>>
    BY <1>2, <1>4, Prefixes
  <2>2. NobodyAwaits' /\ phase' = "serving"
    BY <1>1, <1>4 DEF NobodyAwaits
  <2>3. Ended'
    BY <1>1, <2>1, <2>2 DEF Ended
  <2> QED
    BY <2>3 DEF Conversation
<1>5. ASSUME NEW t \in Threads, step[t] = "awaiting", phase = "serving", Remains(pending[t], toHost)
      PROVE  Conversation'
  <2>1. PICK r, frames : r = pending[t] /\ frames = SubSeq(toHost, 1, n)
    OBVIOUS
  <2>2. r \in Asks /\ pending'[t] = r /\ toHost' = frames /\ step'[t] = "awaiting" /\ phase' = "serving"
    BY <1>1, <1>2, <1>5, <2>1, OneAwaits
  <2>3. Remains(r, frames)
    BY <1>2, <1>5, <2>1, LessRemains
  <2>4. Remains(r, frames)'
    BY <2>2, <2>3, AnswersStay
  <2>5. Remains(pending[t], toHost)'
    BY <2>2, <2>4
  <2>6. Ended'
    BY <1>1, <2>2, <2>5 DEF Ended
  <2> QED
    BY <2>6 DEF Conversation
<1>6. CASE Booting \/ \E f \in EnclaveFrames : Booted(f)
  BY <1>3, <1>6 DEF Booting, Booted
<1>7. CASE Resting
  BY <1>4, <1>7 DEF Resting
<1>8. ASSUME NEW t \in Threads, Asked(t) \/ Handled(t) PROVE Conversation'
  BY <1>5, <1>8 DEF Asked, Handled, Remains
<1>9. ASSUME NEW t \in Threads, NEW a \in EnclaveFrames, Announced(t, a) PROVE Conversation'
  BY <1>5, <1>9 DEF Announced, Remains
<1>10. ASSUME NEW t \in Threads, NEW g \in EnclaveFrames, Replied(t, g) PROVE Conversation'
  BY <1>5, <1>10 DEF Replied, Remains
<1>11. ~Ended
  BY <1>1 DEF Ended
<1> QED
  BY <1>6, <1>7, <1>8, <1>9, <1>10, <1>11 DEF Conversation

\* The host process ends.
LEMMA StopConversation ==
  ASSUME H!ProcessEnds, ~R!Running'
  PROVE  Conversation'
<1>1. Ended'
  BY DEF Ended, H!ProcessEnds, AllIdle, Threads, H!Threads
<1> QED
  BY <1>1 DEF Conversation

\* The host reads that the enclave is ready.
LEMMA ServingConversation ==
  ASSUME RP!IInv, Conversation, H!ReadReady, UNCHANGED enclaveVars
  PROVE  Conversation'
<1>1. /\ phase = "starting" /\ phase' = "serving" /\ toHost # <<>> /\ toHost' = Tail(toHost)
      /\ latest_bundle' = H!Bundle(Head(toHost))
      /\ UNCHANGED <<leg, toRuntime, step, pc, store>>
  BY DEF H!ReadReady, H!threads, enclaveVars
<1>2. ASSUME NEW f \in EnclaveFrames, Booted(f) PROVE Resting'
  <2>1. toHost' = <<>> /\ latest_bundle' = H!Bundle(f)
    BY <1>1, <1>2 DEF Booted
  <2>2. Key(latest_bundle') = Key(f.attest)
    BY <2>1 DEF Key, H!Bundle
  <2> QED
    BY <1>1, <1>2, <2>1, <2>2
       DEF Booted, Resting, AllIdle, NobodyAwaits, NamesCurrent, R!Current, R!Find, R!Positions
<1>3. ASSUME Ended PROVE Ended'
  <2>1. PICK f : toHost = <<f>>
    BY <1>1, <1>3 DEF Ended
  <2>2. toHost' = <<>>
    BY <1>1, <2>1
  <2> QED
    BY <1>1, <1>3, <2>2 DEF Ended, AllIdle, NobodyAwaits, R!Running
<1>4. ~Booting /\ ~Resting /\ \A t \in Threads : ~Asked(t) /\ ~Handled(t)
  BY <1>1 DEF Booting, Resting, Asked, Handled
<1>5. \A t \in Threads, f \in EnclaveFrames : ~Announced(t, f) /\ ~Replied(t, f)
  BY <1>1 DEF Announced, Replied
<1> QED
  BY <1>2, <1>3, <1>4, <1>5 DEF Conversation

\* A thread sends its request.
LEMMA SendConversation ==
  ASSUME RP!IInv, HostTyped, Mutex, Conversation, NEW t \in Threads, H!Send(t), UNCHANGED enclaveVars
  PROVE  Conversation'
<1>1. /\ step[t] = "locked" /\ leg = "open" /\ toRuntime' = Append(toRuntime, pending'[t])
      /\ step' = [step EXCEPT ![t] = "awaiting"]
      /\ UNCHANGED <<leg, toHost, phase, latest_bundle, pc, store>>
  BY DEF H!Send, enclaveVars
<1>2. step \in [Threads -> Steps]
  BY DEF HostTyped
<1>3. ~AllIdle /\ \A u \in Threads : step[u] # "awaiting"
  BY <1>1, OneAwaits DEF AllIdle
<1>4. Resting
  BY <1>1, <1>3 DEF Conversation, Booting, Booted, Asked, Handled, Announced, Replied, Ended
<1>5. toRuntime' = <<pending'[t]>>
  BY <1>1, <1>4 DEF Resting
<1>6. Asked(t)'
  BY <1>1, <1>2, <1>4, <1>5 DEF Asked, Resting, NamesCurrent, R!Current, R!Find, R!Positions
<1> QED
  BY <1>6 DEF Conversation

\* After an exchange nobody awaits.
LEMMA NobodyAfter ==
  ASSUME HostTyped, Mutex, NEW t \in Threads, step[t] = "awaiting",
         step' = [step EXCEPT ![t] = "concluded"]
  PROVE  NobodyAwaits'
<1>1. step \in [Threads -> Steps]
  BY DEF HostTyped
<1> QED
  BY <1>1, OneAwaits DEF NobodyAwaits

\* A frame is told from the other that may come in its place.
LEMMA Recognised ==
  ASSUME HostTyped, NEW t \in Threads, pending[t] \in Asks
  PROVE  /\ \A a : Announcement(pending[t], a) =>
                H!Announces(t, a) /\ ~H!Answers(t, a) /\ a.op # "compute"
         /\ \A g : Response(pending[t], g) => H!Answers(t, g) /\ ~H!Announces(t, g)
<1>1. pending[t].op \in {"attest", "compute", "rotate"}
  BY DEF Asks, FramesWith
<1> QED
  BY <1>1 DEF Announcement, Response, H!Announces, H!Answers, H!ResponseOp

\* A thread reads a frame.
LEMMA ReadConversation ==
  ASSUME EnclaveInv, [RP!Reacts]_RP!vars, HostTyped, Mutex, Conversation,
         NEW t \in Threads, H!Read(t), UNCHANGED enclaveVars
  PROVE  Conversation'
<1>1. /\ step[t] = "awaiting" /\ toHost # <<>> /\ toHost' = Tail(toHost)
      /\ UNCHANGED <<phase, leg, toRuntime, pending, pc, request, attest, store, published, sealed, lost>>
  BY DEF H!Read, enclaveVars
<1>2. PICK r : r = pending[t]
  OBVIOUS
<1>3. r \in Asks /\ \A u \in Threads : step[u] = "awaiting" => u = t
  BY <1>1, <1>2, OneAwaits
<1>3a. LET frame == Head(toHost)
       IN  /\ H!Announces(t, frame) /\ ~H!Answers(t, frame) =>
                latest_bundle' = H!BundleAfter(frame) /\ step' = step
           /\ H!Answers(t, frame) => latest_bundle' = H!BundleAfter(frame)
           /\ H!Answers(t, frame) /\ ~H!Announces(t, frame) =>
                step' = [step EXCEPT ![t] = "concluded"]
  BY DEF H!Read, H!Conclude
<1>4. ASSUME NEW a, toHost # <<>>, Head(toHost) = a, Announcement(r, a)
      PROVE  latest_bundle' = H!Bundle(a) /\ step' = step
  <2>1. H!Announces(t, a) /\ ~H!Answers(t, a) /\ a.op # "compute"
    BY <1>2, <1>3, <1>4, Recognised
  <2> QED
    BY <1>4, <1>3a, <2>1 DEF H!BundleAfter
<1>5. ASSUME NEW g, toHost # <<>>, Head(toHost) = g, Response(r, g)
      PROVE  /\ latest_bundle' = IF g.op = "compute" THEN latest_bundle ELSE H!Bundle(g)
             /\ step' = [step EXCEPT ![t] = "concluded"]
  <2>1. H!Answers(t, g) /\ ~H!Announces(t, g)
    BY <1>2, <1>3, <1>5, Recognised
  <2> QED
    BY <1>5, <1>3a, <2>1 DEF H!BundleAfter
<1>6. \A x : NamesCurrent(x) => NamesCurrent(x)'
  BY <1>1 DEF NamesCurrent, R!Current, R!Find, R!Positions
<1>7. \A f : NamesCurrent(f.attest) => NamesCurrent(H!Bundle(f))
  BY DEF NamesCurrent, Key, H!Bundle
<1>8. \A frames : Remains(r, frames) => Remains(r, frames)'
  BY <1>3, AnswersStay
<1>9. \A g : Response(r, g) => Response(r, g)'
  BY <1>3, AnswersStay
<1>10. ASSUME NEW a \in EnclaveFrames, Announced(t, a) PROVE Handled(t)'
  <2>1. toHost = <<a>> /\ Announcement(r, a) /\ NamesCurrent(a.attest) /\ request = r /\ pc = "reply"
    BY <1>2, <1>10 DEF Announced
  <2>2. Head(toHost) = a /\ toHost' = <<>>
    BY <1>1, <2>1
  <2>3. latest_bundle' = H!Bundle(a) /\ step' = step
    BY <1>1, <1>4, <2>1, <2>2
  <2>4. NamesCurrent(latest_bundle)'
    <3>1. NamesCurrent(H!Bundle(a))'
      BY <1>6, <1>7, <2>1
    <3> QED
      BY <2>3, <3>1 DEF NamesCurrent
  <2> QED
    BY <1>1, <1>10, <2>1, <2>2, <2>3, <2>4 DEF Announced, Announcement, Handled, Handler
<1>11. ASSUME NEW g \in EnclaveFrames, Replied(t, g) PROVE Resting' \/ Replied(t, g)'
  <2>1. Response(r, g) /\ (g.op # "compute" => NamesCurrent(g.attest))
    BY <1>2, <1>11 DEF Replied
  <2>2. CASE toHost = <<g>> /\ (g.op = "compute" => NamesCurrent(latest_bundle))
    <3>1. Head(toHost) = g /\ toHost' = <<>>
      BY <1>1, <2>2
    <3>2. /\ latest_bundle' = IF g.op = "compute" THEN latest_bundle ELSE H!Bundle(g)
          /\ step' = [step EXCEPT ![t] = "concluded"]
      BY <1>1, <1>5, <2>1, <3>1
    <3>3. NobodyAwaits'
      BY <1>1, <3>2, NobodyAfter
    <3>4. NamesCurrent(latest_bundle)'
      <4>1. \E x : NamesCurrent(x) /\ latest_bundle' = x
        BY <1>7, <2>1, <2>2, <3>2
      <4>2. PICK x : NamesCurrent(x) /\ latest_bundle' = x
        BY <4>1
      <4> QED
        BY <1>6, <4>2 DEF NamesCurrent
    <3> QED
      BY <1>1, <1>11, <3>1, <3>3, <3>4 DEF Resting, Replied
  <2>3. ASSUME NEW a \in EnclaveFrames,
               Announcement(r, a), NamesCurrent(a.attest), toHost = <<a, g>>
        PROVE  Replied(t, g)'
    <3>1. Head(toHost) = a /\ toHost' = <<g>>
      BY <1>1, <2>3
    <3>2. latest_bundle' = H!Bundle(a) /\ step' = step
      BY <1>1, <1>4, <2>3, <3>1
    <3>3. NamesCurrent(latest_bundle)'
      <4>1. NamesCurrent(H!Bundle(a))'
        BY <1>6, <1>7, <2>3
      <4> QED
        BY <3>2, <4>1 DEF NamesCurrent
    <3>4. Response(r, g)' /\ pending'[t] = r
      BY <1>1, <1>2, <1>9, <2>1
    <3> QED
      BY <1>1, <1>6, <1>11, <2>1, <3>1, <3>2, <3>3, <3>4 DEF Replied
  <2> QED
    BY <1>2, <1>11, <2>2, <2>3 DEF Replied
<1>12. ASSUME Ended PROVE Ended'
  <2>1. Remains(r, toHost) /\ phase = "serving"
    BY <1>1, <1>2, <1>3, <1>12 DEF Ended, AllIdle, NobodyAwaits
  <2>2. ASSUME NEW frames, toHost' = frames, step' = step, Remains(r, frames) PROVE Ended'
    <3>1. Remains(r, frames)' /\ pending'[t] = r /\ step'[t] = "awaiting"
      BY <1>1, <1>2, <1>8, <2>2
    <3>2. Remains(pending[t], toHost)'
      BY <2>2, <3>1
    <3> QED
      BY <1>1, <1>12, <2>1, <3>1, <3>2 DEF Ended, R!Running
  <2>3. ASSUME NEW a \in EnclaveFrames, Announcement(r, a), toHost = <<a>> PROVE Ended'
    <3>1. Head(toHost) = a /\ toHost' = <<>>
      BY <1>1, <2>3
    <3> QED
      BY <1>1, <1>4, <2>2, <2>3, <3>1 DEF Remains
  <2>4. ASSUME NEW a \in EnclaveFrames, NEW g \in EnclaveFrames,
               Announcement(r, a), Response(r, g), toHost = <<a, g>> PROVE Ended'
    <3>1. Head(toHost) = a /\ toHost' = <<g>>
      BY <1>1, <2>4
    <3>2. Remains(r, <<g>>)
      BY <2>4 DEF Remains
    <3> QED
      BY <1>1, <1>4, <2>2, <2>4, <3>1, <3>2
  <2>5. ASSUME NEW g \in EnclaveFrames, Response(r, g), toHost = <<g>> PROVE Ended'
    <3>1. Head(toHost) = g /\ toHost' = <<>>
      BY <1>1, <2>5
    <3>2. NobodyAwaits'
      BY <1>1, <1>5, <2>5, <3>1, NobodyAfter
    <3> QED
      BY <1>1, <1>12, <2>1, <3>1, <3>2 DEF Ended, R!Running
  <2> QED
    BY <1>1, <2>1, <2>3, <2>4, <2>5 DEF Remains
<1>13. ~Booting /\ ~Resting /\ \A u \in Threads : ~Asked(u) /\ ~Handled(u)
  BY <1>1 DEF Booting, Resting, Asked, Handled
<1>14. \A f \in EnclaveFrames : ~Booted(f)
  BY <1>1 DEF Booted, AllIdle
<1>15. \A u \in Threads, f \in EnclaveFrames : Announced(u, f) \/ Replied(u, f) => u = t
  BY <1>3 DEF Announced, Replied
<1>16. (\E f \in EnclaveFrames : Announced(t, f) \/ Replied(t, f)) \/ Ended
  BY ONLY Conversation, <1>13, <1>14, <1>15 DEF Conversation
<1>17. Handled(t)' \/ Resting' \/ (\E g \in EnclaveFrames : Replied(t, g)') \/ Ended'
  BY ONLY <1>10, <1>11, <1>12, <1>16
<1> QED
  BY <1>17 DEF Conversation

\* An exchange goes on with the conversation.
LEMMA ExchangeConversation ==
  ASSUME EnclaveInv, [RP!Reacts]_RP!vars, HostTyped, Mutex, Conversation,
         NEW t \in Threads, H!Exchange(t), UNCHANGED enclaveVars
  PROVE  Conversation'
<1>1. step \in [Threads -> Steps] /\ UNCHANGED <<pc, request, attest, store>>
  BY DEF HostTyped, enclaveVars
<1>2. ASSUME NEW s \in {"locked", "concluded"},
             step[t] # "awaiting", step[t] # "idle", step' = [step EXCEPT ![t] = s],
             UNCHANGED <<leg, phase, toRuntime, toHost, latest_bundle, pending>>
      PROVE  Conversation'
  <2>1. \A u \in Threads : step'[u] = "awaiting" <=> step[u] = "awaiting"
    BY <1>1, <1>2
  <2>2. phase = "serving"
    BY <1>2 DEF Conversation, Booting, Booted, Resting, Asked, Handled, Announced, Replied, Ended,
       AllIdle
  <2> QED
    BY <1>1, <1>2, <2>1, <2>2, ConversationKept
<1>3. CASE H!Acquire(t)
  BY <1>2, <1>3 DEF H!Acquire, H!channels, H!connection
<1>4. CASE H!Send(t)
  BY <1>4, SendConversation DEF EnclaveInv
<1>5. CASE H!SendFails(t) \/ H!AnswerFromBundle(t)
  BY <1>2, <1>5 DEF H!SendFails, H!AnswerFromBundle, H!Conclude, H!channels, H!connection
<1>6. CASE H!Read(t)
  BY <1>6, ReadConversation
<1>7. CASE H!ReadFails(t)
  <2>1. /\ step[t] = "awaiting" /\ leg = "closed" /\ toHost = <<>>
        /\ step' = [step EXCEPT ![t] = "concluded"]
        /\ UNCHANGED <<leg, phase, toRuntime, toHost>>
    BY <1>7 DEF H!ReadFails, H!StreamEnded, H!Conclude, H!channels
  <2>2. Ended
    BY <2>1, Phases DEF EnclaveInv
  <2>3. phase = "serving"
    BY <2>1, <2>2 DEF Ended, AllIdle
  <2>4. NobodyAwaits'
    BY <2>1, NobodyAfter
  <2>5. Ended'
    BY <1>1, <2>1, <2>2, <2>3, <2>4 DEF Ended, R!Running
  <2> QED
    BY <2>5 DEF Conversation
<1> QED
  BY <1>3, <1>4, <1>5, <1>6, <1>7 DEF H!Exchange

\* Every step goes on with the conversation.
LEMMA ConversationStep ==
  ASSUME EnclaveInv, [RP!Reacts]_RP!vars, HostTyped, Mutex, Sessions, Conversation, [Next]_vars
  PROVE  Conversation'
<1>1. RP!IInv /\ step \in [Threads -> Steps]
  BY DEF EnclaveInv, HostTyped
<1>2. CASE StartServe
  BY <1>1, <1>2, StartConversation
<1>3. CASE EnclaveStep
  BY <1>1, <1>3, ReadyConversation, AnnounceConversation, ReplyConversation, ReceiveConversation,
     InsideConversation DEF EnclaveStep
<1>4. CASE EnclaveEnds
  BY <1>4, EndsConversation
<1>5. ASSUME UNCHANGED <<leg, phase, toRuntime, toHost, latest_bundle, pc, request, attest, store,
                         step, pending>>
      PROVE  Conversation'
  BY <1>5, ConversationKept
<1>6. CASE ClockMoves \/ UNCHANGED vars \/ \E c \in Clients : ClientStep(c)
  <2>1. UNCHANGED <<pc, request, attest, store>>
    BY <1>6 DEF ClockMoves, R!Tick, R!ClockSetBack, R!volatile, vars, ClientStep, enclaveVars
  <2>2. UNCHANGED <<leg, phase, toRuntime, toHost, latest_bundle, step, pending>>
    BY <1>6 DEF ClockMoves, vars, hostVars, hostInside, ClientStep, H!Issue, H!Compute, H!HangsUp,
       H!Connect, H!channels, H!threads, H!connection
  <2> QED
    BY <1>5, <2>1, <2>2
<1>7. CASE StopServe
  <2>1. H!ProcessEnds /\ ~R!Running'
    <3>1. CASE R!Running
      BY <1>7, <3>1 DEF StopServe, R!Crash, R!Running
    <3>2. CASE ~R!Running
      BY <1>7, <3>2 DEF StopServe, R!Running, enclaveVars
    <3> QED
      BY <3>1, <3>2
  <2> QED
    BY <2>1, StopConversation
<1>8. CASE H!StartFails /\ UNCHANGED enclaveVars
  <2>1. H!ProcessEnds /\ leg = "closed" /\ pc' = pc
    BY <1>8 DEF H!StartFails, enclaveVars
  <2>2. ~R!Running'
    BY <1>1, <2>1, Phases DEF R!Running
  <2> QED
    BY <2>1, <2>2, StopConversation
<1>9. CASE H!ReadReady /\ UNCHANGED enclaveVars
  BY <1>1, <1>9, ServingConversation
<1>10. CASE (H!Exchange("serve") \/ H!Exchange("worker")) /\ UNCHANGED enclaveVars
  BY <1>10, ExchangeConversation DEF Threads
<1>11. ASSUME NEW t \in Threads, NEW s,
              step' = [step EXCEPT ![t] = s], step[t] # "awaiting", s # "awaiting",
              phase = "serving" \/ step[t] # "idle",
              \A u \in Threads \ {t} : pending'[u] = pending[u],
              UNCHANGED <<leg, phase, toRuntime, toHost, latest_bundle, pc, request, attest, store>>
       PROVE  Conversation'
  <2>1. \A u \in Threads : /\ step'[u] = "awaiting" <=> step[u] = "awaiting"
                           /\ step[u] = "awaiting" => pending'[u] = pending[u]
    BY <1>1, <1>11
  <2>2. phase = "serving"
    BY <1>11 DEF Conversation, Booting, Booted, Resting, Asked, Handled, Announced, Replied, Ended,
       AllIdle
  <2> QED
    BY <1>11, <2>1, <2>2, ConversationKept
<1>12. CASE (H!Accept \/ H!ReadingEnds \/ H!ReplyToClient) /\ UNCHANGED enclaveVars
  <2>1. UNCHANGED <<leg, phase, toRuntime, toHost, latest_bundle, pc, request, attest, store>>
    BY <1>12 DEF H!Accept, H!ReadingEnds, H!ReplyToClient, H!channels, H!connection, enclaveVars
  <2>2. /\ step["serve"] \in {"idle", "reading", "concluded"}
        /\ phase = "serving" \/ step["serve"] # "idle"
    BY <1>12 DEF H!Accept, H!ReadingEnds, H!ReplyToClient
  <2>3. \E s : s # "awaiting" /\ step' = [step EXCEPT !["serve"] = s]
    BY <1>12 DEF H!Accept, H!AnsweredAt, H!ReadingEnds, H!Conclude, H!ReplyToClient
  <2>4. pending'["worker"] = pending["worker"]
    BY <1>12 DEF H!Accept, H!ReadingEnds, H!ReplyToClient, HostTyped, Threads
  <2> QED
    BY <1>11, <2>1, <2>2, <2>3, <2>4 DEF Threads
<1>13. CASE (H!WorkerWakes \/ H!WorkerSleeps) /\ UNCHANGED enclaveVars
  <2>1. UNCHANGED <<leg, phase, toRuntime, toHost, latest_bundle, pc, request, attest, store>>
    BY <1>13 DEF H!WorkerWakes, H!WorkerSleeps, H!channels, H!connection, enclaveVars
  <2>2. /\ step["worker"] \in {"idle", "concluded"}
        /\ phase = "serving" \/ step["worker"] # "idle"
    BY <1>13 DEF H!WorkerWakes, H!WorkerSleeps
  <2>3. \E s : s # "awaiting" /\ step' = [step EXCEPT !["worker"] = s]
    BY <1>13 DEF H!WorkerWakes, H!WorkerSleeps
  <2>4. pending'["serve"] = pending["serve"]
    BY <1>13 DEF H!WorkerWakes, H!WorkerSleeps, HostTyped, Threads
  <2> QED
    BY <1>11, <2>1, <2>2, <2>3, <2>4 DEF Threads
<1> QED
  BY <1>2, <1>3, <1>4, <1>6, <1>7, <1>8, <1>9, <1>10, <1>12, <1>13
     DEF Next, ServeStep, WorkerStep

-----------------------------------------------------------------------------
(* The sessions, step by step.                                             *)

\* What was true of keys, answers and clients stays true of them.
LEMMA KnowledgeStays ==
  ASSUME EnclaveInv, [RP!Reacts]_RP!vars
  PROVE  /\ \A f : Honest(f) => Honest(f)'
         /\ \A f \in ClientFrames : \A result : Useful(f, result) => Useful(f, result)'
         /\ \A me, e : Awaits(me, e) => Awaits(me, e)'
         /\ \A me \in ClientStates : Knows(me) => Knows(me)'
<1>1. /\ published \subseteq published' /\ (lost => lost')
      /\ \A v \in Nat : Expired(v) /\ ~lost' => Expired(v)'
  BY Growth
<1>2. \A f : Honest(f) => Honest(f)'
  BY <1>1 DEF Honest
<1>3. ASSUME NEW f \in ClientFrames, NEW result, Useful(f, result) PROVE Useful(f, result)'
  <2>1. f.key_version \in Nat
    BY DEF ClientFrames, FramesWith
  <2> QED
    BY <1>1, <1>3, <2>1 DEF Useful, Key
<1>4. \A me, e : Awaits(me, e) => Awaits(me, e)'
  BY <1>2 DEF Awaits
<1>5. ASSUME NEW me \in ClientStates, Knows(me) PROVE Knows(me)'
  <2>1. me.version \in Nat
    BY DEF ClientStates
  <2> QED
    BY <1>1, <1>5, <2>1 DEF Knows, Key
<1> QED
  BY <1>2, <1>3, <1>4, <1>5

\* A connection whose client did not move is still waited on.
LEMMA FitsStays ==
  ASSUME EnclaveInv, [RP!Reacts]_RP!vars, NEW e, client'[e.name] = client[e.name], Fits(e)
  PROVE  Fits(e)'
<1>1. PICK me : me = client[e.name]
  OBVIOUS
<1>2. Awaits(me, e)'
  BY <1>1, KnowledgeStays DEF Fits
<1> QED
  BY <1>1, <1>2 DEF Fits

\* A client that did not move knows what it knew.
LEMMA KnowsStays ==
  ASSUME EnclaveInv, [RP!Reacts]_RP!vars, HostTyped, Informed,
         NEW c \in Clients, client'[c] = client[c]
  PROVE  Knows(client[c])'
<1>1. PICK me : me = client[c]
  OBVIOUS
<1>2. Knows(me) /\ me \in ClientStates
  BY <1>1 DEF Informed, HostTyped
<1>3. Knows(me)'
  BY <1>2, KnowledgeStays
<1> QED
  BY <1>1, <1>3

\* Connections that wait are kept while their clients do not move.
LEMMA BacklogStays ==
  ASSUME EnclaveInv, [RP!Reacts]_RP!vars, HostTyped, OneConnectionEach,
         backlog' = backlog,
         \A i \in DOMAIN backlog : client'[backlog[i].name] = client[backlog[i].name],
         InHand' => InHand /\ serving_client' = serving_client
  PROVE  OneConnectionEach'
<1>1. ASSUME NEW i \in DOMAIN backlog PROVE Fits(backlog[i])'
  <2>1. PICK e : e = backlog[i]
    OBVIOUS
  <2>2. Fits(e)'
    BY <2>1, FitsStays DEF OneConnectionEach
  <2> QED
    BY <2>1, <2>2
<1> QED
  BY <1>1 DEF OneConnectionEach

\* What thread t does does not concern the other.
LEMMA ServingStays ==
  ASSUME EnclaveInv, [RP!Reacts]_RP!vars, HostTyped, Serving,
         UNCHANGED <<serving_client, client>>, step'["serve"] = step["serve"],
         pending'["serve"] = pending["serve"], answer'["serve"] = answer["serve"]
  PROVE  Serving'
<1> SUFFICES ASSUME InHand' PROVE Serving'
  BY DEF Serving
<1>1. InHand
  BY DEF InHand
<1>2. PICK e, result : e = serving_client /\ result = answer["serve"]
  OBVIOUS
<1>3. e \in Connections /\ Fits(e) /\ e.frame \in ClientFrames
  BY <1>1, <1>2 DEF Serving, Connections
<1>4. Fits(e)'
  BY <1>3, FitsStays
<1>5. Useful(e.frame, result) => Useful(e.frame, result)'
  BY <1>3, KnowledgeStays
<1>6. step["serve"] = "concluded" => Useful(e.frame, result)
  BY <1>1, <1>2 DEF Serving
<1>7. step["serve"] \in {"locking", "locked", "awaiting"} =>
        LET asked == H!Forward(e.frame)
        IN  /\ e.frame.op \in {"challenge", "pubkey", "compute", "rotate"}
            /\ pending["serve"].op = asked.op
            /\ pending["serve"].nonce = asked.nonce
            /\ pending["serve"].key_version = asked.key_version
            /\ pending["serve"].ct = asked.ct
  BY <1>1, <1>2 DEF Serving
<1>8. step["serve"] = "reading" => e.frame.op = "silent"
  BY <1>1, <1>2 DEF Serving
<1>9. H!Forward(serving_client.frame)' = H!Forward(e.frame)
  BY <1>2 DEF H!Forward
<1>10. step'["serve"] = "concluded" => Useful(serving_client.frame, answer["serve"])'
  BY <1>2, <1>5, <1>6
<1>11. Fits(serving_client)'
  BY <1>2, <1>4
<1> QED
  BY <1>2, <1>3, <1>7, <1>8, <1>9, <1>10, <1>11 DEF Serving

\* The frame a thread reads is an announcement or the answer.
LEMMA HeadOfAnswer ==
  ASSUME Conversation, Mutex, NEW t \in Threads, step[t] = "awaiting", toHost # <<>>
  PROVE  /\ phase = "serving"
         /\ \E f \in EnclaveFrames :
              Head(toHost) = f /\ (Announcement(pending[t], f) \/ Response(pending[t], f))
<1>1. \A u \in Threads : step[u] = "awaiting" => u = t
  BY OneAwaits
<1>2. ASSUME NEW a \in EnclaveFrames, Announced(t, a)
      PROVE  \E f \in EnclaveFrames :
               Head(toHost) = f /\ (Announcement(pending[t], f) \/ Response(pending[t], f))
  BY <1>2 DEF Announced
<1>3. ASSUME NEW g \in EnclaveFrames, Replied(t, g)
      PROVE  \E f \in EnclaveFrames :
               Head(toHost) = f /\ (Announcement(pending[t], f) \/ Response(pending[t], f))
  <2>1. CASE toHost = <<g>>
    BY <1>3, <2>1 DEF Replied
  <2>2. ASSUME NEW a \in EnclaveFrames, Announcement(pending[t], a), toHost = <<a, g>>
        PROVE  Head(toHost) = a
    BY <2>2
  <2> QED
    BY <1>3, <2>1, <2>2 DEF Replied
<1>4. ASSUME Remains(pending[t], toHost)
      PROVE  \E f \in EnclaveFrames :
               Head(toHost) = f /\ (Announcement(pending[t], f) \/ Response(pending[t], f))
  <2>1. ASSUME NEW f, toHost = <<f>> PROVE Head(toHost) = f
    BY <2>1
  <2>2. ASSUME NEW f, NEW g, toHost = <<f, g>> PROVE Head(toHost) = f
    BY <2>2
  <2> QED
    BY <1>4, <2>1, <2>2 DEF Remains
<1>5. ~Booting /\ ~Resting /\ \A u \in Threads : ~Asked(u) /\ ~Handled(u)
  BY DEF Booting, Resting, Asked, Handled
<1>6. \A f \in EnclaveFrames : ~Booted(f)
  BY DEF Booted, AllIdle
<1>7. Ended => phase = "serving" /\ Remains(pending[t], toHost)
  BY <1>1 DEF Ended, AllIdle, NobodyAwaits
<1>8. \A u \in Threads, f \in EnclaveFrames : Announced(u, f) \/ Replied(u, f) => u = t /\ phase = "serving"
  BY <1>1 DEF Announced, Replied
<1> QED
  BY ONLY Conversation, <1>2, <1>3, <1>4, <1>5, <1>6, <1>7, <1>8 DEF Conversation

\* A failure is a result a client can use, as is any when it asked for nothing.
LEMMA FailureUseful ==
  /\ \A f : Useful(f, H!Failed)
  /\ \A f, result : f.op \notin {"compute", "challenge"} => Useful(f, result)
BY DEF Useful, H!Failed

\* The answer to what was forwarded for a client is one it can use.
LEMMA AnswerUseful ==
  ASSUME HostTyped, Mutex, Conversation, Serving, step["serve"] = "awaiting",
         NEW g, Response(pending["serve"], g)
  PROVE  Useful(serving_client.frame, [outcome |-> g.outcome, bundle |-> H!Bundle(g)])
<1>1. PICK e, r : e = serving_client /\ r = pending["serve"]
  OBVIOUS
<1>2. e \in Connections /\ Fits(e)
      /\ r.op = H!Forward(e.frame).op /\ r.nonce = H!Forward(e.frame).nonce
      /\ r.key_version = H!Forward(e.frame).key_version
  BY <1>1 DEF Serving, InHand
<1>3. e.frame \in ClientFrames
  BY <1>2 DEF Connections
<1>4. CASE e.frame.op = "compute"
  <2>1. H!Forward(e.frame) = e.frame
    BY <1>4 DEF H!Forward
  <2> QED
    BY <1>1, <1>2, <1>4, <2>1 DEF Useful, Response
<1>5. CASE e.frame.op = "challenge"
  <2>1. r.op = "attest" /\ r.nonce = e.frame.nonce
    BY <1>2, <1>3, <1>5 DEF H!Forward, ClientFrames, FramesWith
  <2>2. r.nonce # NoNonce
    BY <1>2, <1>5, <2>1, NonceAssumption DEF Fits, Awaits, Connections
  <2>3. /\ g.op = "attestation" /\ g.outcome = "ok" /\ Key(g.attest) \in published
        /\ g.attest.nonce = r.nonce
    BY <1>1, <2>1, <2>2 DEF Response, H!ResponseOp
  <2>4. H!Bundle(g).quote /\ H!Bundle(g).nonce = r.nonce /\ Key(H!Bundle(g)) \in published
    BY <2>3 DEF H!Bundle, Key
  <2> QED
    BY <1>1, <1>5, <2>1, <2>3, <2>4 DEF Useful
<1> QED
  BY <1>1, <1>4, <1>5, FailureUseful

\* What the serve loop concludes an exchange with is of use to its client.
LEMMA ExchangeUseful ==
  ASSUME HostTyped, Mutex, Conversation, Serving, H!Exchange("serve"), step'["serve"] = "concluded"
  PROVE  Useful(serving_client.frame, answer'["serve"])
<1>1. "serve" \in Threads /\ step \in [Threads -> Steps] /\ answer \in [Threads -> Results]
  BY DEF HostTyped, Threads
<1>2. ASSUME NEW result, H!Conclude("serve", result) PROVE answer'["serve"] = result
  BY <1>1, <1>2 DEF H!Conclude
<1>3. CASE H!Acquire("serve") \/ H!Send("serve")
  BY <1>1, <1>3 DEF H!Acquire, H!Send
<1>4. CASE H!SendFails("serve") \/ H!ReadFails("serve")
  BY <1>2, <1>4, FailureUseful DEF H!SendFails, H!ReadFails
<1>5. CASE H!AnswerFromBundle("serve")
  <2>1. /\ answer'["serve"] = [outcome |-> "ok", bundle |-> latest_bundle]
        /\ step["serve"] = "locked" /\ pending["serve"].nonce = PubkeyNonce
    BY <1>2, <1>5 DEF H!AnswerFromBundle, H!AnsweredFromBundle
  <2>2. serving_client \in Connections /\ Fits(serving_client)
        /\ pending["serve"].nonce = H!Forward(serving_client.frame).nonce
    BY <2>1 DEF Serving, InHand
  <2>3. ASSUME serving_client.frame.op = "challenge" PROVE FALSE
    <3>1. H!Forward(serving_client.frame).nonce = serving_client.frame.nonce
      BY <2>2, <2>3 DEF H!Forward, Connections, ClientFrames, FramesWith
    <3>2. serving_client.frame.nonce \in Clients
      BY <2>2, <2>3 DEF Fits, Awaits, Connections
    <3> QED
      BY <2>1, <2>2, <3>1, <3>2, NonceAssumption
  <2> QED
    BY <2>1, <2>3 DEF Useful
<1>6. CASE H!Read("serve")
  <2>1. step["serve"] = "awaiting" /\ toHost # <<>>
    BY <1>6 DEF H!Read
  <2>2. PICK f \in EnclaveFrames :
          Head(toHost) = f /\ (Announcement(pending["serve"], f) \/ Response(pending["serve"], f))
    BY <1>1, <2>1, HeadOfAnswer
  <2>3. pending["serve"] \in Asks
    BY <1>1, <2>1, OneAwaits
  <2>4. CASE Announcement(pending["serve"], f)
    <3>1. H!Announces("serve", f) /\ ~H!Answers("serve", f)
      BY <1>1, <2>3, <2>4, Recognised
    <3>2. step' = step
      BY <1>6, <2>2, <3>1 DEF H!Read
    <3> QED
      BY <2>1, <3>2
  <2>5. CASE Response(pending["serve"], f)
    <3>1. ~H!Announces("serve", f) /\ H!Answers("serve", f)
      BY <1>1, <2>3, <2>5, Recognised
    <3>2. H!Conclude("serve", [outcome |-> f.outcome, bundle |-> H!Bundle(f)])
      BY <1>6, <2>2, <3>1 DEF H!Read
    <3> QED
      BY <1>2, <2>1, <2>5, <3>2, AnswerUseful
  <2> QED
    BY <2>2, <2>4, <2>5
<1> QED
  BY <1>3, <1>4, <1>5, <1>6 DEF H!Exchange

\* The sessions go on while a thread talks to the enclave.
LEMMA ExchangeSessions ==
  ASSUME EnclaveInv, [RP!Reacts]_RP!vars, HostTyped, Mutex, Conversation, Sessions,
         NEW t \in Threads, H!Exchange(t)
  PROVE  Sessions'
<1>1. /\ step \in [Threads -> Steps] /\ pending \in [Threads -> Asks \cup {H!NoFrame}]
      /\ answer \in [Threads -> Results] /\ "serve" \in Threads /\ "worker" \in Threads
  BY DEF HostTyped, Threads
<1>2. UNCHANGED <<backlog, serving_client, client>>
  BY DEF H!Exchange, H!Acquire, H!Send, H!SendFails, H!AnswerFromBundle, H!Read, H!ReadFails
<1>3. /\ step[t] \in {"locking", "locked", "awaiting"}
      /\ step' = step \/ (\E s \in {"locked", "awaiting", "concluded"} : step' = [step EXCEPT ![t] = s])
      /\ answer' = answer \/ \E result : answer' = [answer EXCEPT ![t] = result]
      /\ pending' = pending \/ \E i : pending' = [pending EXCEPT ![t].id = i]
  BY DEF H!Exchange, H!Acquire, H!Send, H!SendFails, H!AnswerFromBundle, H!Read, H!ReadFails,
     H!Conclude
<1>4. /\ \A u \in Threads \ {t} : step'[u] = step[u] /\ answer'[u] = answer[u] /\ pending'[u] = pending[u]
      /\ step'[t] \in {"locking", "locked", "awaiting", "concluded"}
  BY <1>1, <1>3
<1>5. /\ pending'[t].op = pending[t].op /\ pending'[t].nonce = pending[t].nonce
      /\ pending'[t].key_version = pending[t].key_version /\ pending'[t].ct = pending[t].ct
  <2>1. pending[t] \in Asks
    BY <1>3 DEF Mutex
  <2>2. pending'[t] = pending[t] \/ \E i : pending'[t] = [pending[t] EXCEPT !.id = i]
    BY <1>1, <1>3
  <2> QED
    BY <2>1, <2>2 DEF Asks, FramesWith
<1>6. Working'
  <2>1. step["worker"] # "idle" <=> step'["worker"] # "idle"
    BY <1>1, <1>3, <1>4
  <2>2. pending'["worker"].op = pending["worker"].op
    BY <1>1, <1>4, <1>5
  <2> QED
    BY <2>1, <2>2 DEF Sessions, Working
<1>7. InHand' <=> InHand
  BY <1>1, <1>3, <1>4 DEF InHand
<1>8. OneConnectionEach'
  BY <1>2, <1>7, BacklogStays DEF Sessions
<1>9. Informed'
  <2>1. \A c \in Clients : Knows(client[c])'
    BY <1>2, KnowsStays DEF Sessions
  <2> QED
    BY <2>1 DEF Informed
<1>10. CASE t # "serve"
  BY <1>1, <1>2, <1>4, <1>6, <1>8, <1>9, <1>10, ServingStays DEF Sessions
<1>11. CASE t = "serve"
  <2>1. PICK e, result : e = serving_client /\ result = answer'["serve"]
    OBVIOUS
  <2>2. /\ e \in Connections /\ Fits(e)
        /\ LET asked == H!Forward(e.frame)
           IN  /\ e.frame.op \in {"challenge", "pubkey", "compute", "rotate"}
               /\ pending["serve"].op = asked.op
               /\ pending["serve"].nonce = asked.nonce
               /\ pending["serve"].key_version = asked.key_version
               /\ pending["serve"].ct = asked.ct
    BY <1>3, <1>11, <2>1 DEF Sessions, Serving, InHand
  <2>3. Fits(e)'
    BY <1>2, <2>2, FitsStays
  <2>4. step'["serve"] = "concluded" => Useful(e.frame, result)
    BY <1>11, <2>1, ExchangeUseful DEF Sessions
  <2>5. e.frame \in ClientFrames
    BY <2>2 DEF Connections
  <2>6. step'["serve"] = "concluded" => Useful(e.frame, result)'
    BY <2>4, <2>5, KnowledgeStays
  <2>7. step'["serve"] = "concluded" => Useful(serving_client.frame, answer["serve"])'
    BY <1>2, <2>1, <2>6
  <2>8. Fits(serving_client)'
    BY <1>2, <2>1, <2>3
  <2>9. H!Forward(serving_client.frame)' = H!Forward(e.frame)
    BY <1>2, <2>1 DEF H!Forward
  <2>10. Serving'
    BY <1>2, <1>4, <1>5, <1>11, <2>1, <2>2, <2>7, <2>8, <2>9 DEF Serving
  <2> QED
    BY <1>6, <1>8, <1>9, <2>10 DEF Sessions
<1> QED
  BY <1>10, <1>11

\* A connection is accepted.
LEMMA AcceptSessions ==
  ASSUME EnclaveInv, [RP!Reacts]_RP!vars, HostTyped, Sessions, H!Accept
  PROVE  Sessions'
<1>1. /\ step \in [Threads -> Steps] /\ pending \in [Threads -> Asks \cup {H!NoFrame}]
      /\ answer \in [Threads -> Results] /\ "serve" \in Threads /\ "worker" \in Threads
      /\ backlog \in Seq(Connections)
  BY DEF HostTyped, Threads
<1>2. PICK e : e = Head(backlog)
  OBVIOUS
<1>3. /\ backlog # <<>> /\ serving_client' = e /\ backlog' = Tail(backlog) /\ client' = client
      /\ step' = [step EXCEPT !["serve"] = H!AnsweredAt(e.frame)]
      /\ H!AnsweredAt(e.frame) = "locking" =>
           pending' = [pending EXCEPT !["serve"] = H!Forward(e.frame)]
      /\ H!AnsweredAt(e.frame) # "locking" => pending' = pending
  BY <1>2 DEF H!Accept
<1>4. e \in Connections /\ e = backlog[1] /\ 1 \in DOMAIN backlog
  BY <1>1, <1>2, <1>3
<1>5. Fits(e)
  BY <1>4 DEF Sessions, OneConnectionEach
<1>6. Fits(e)'
  BY <1>3, <1>5, FitsStays
<1>7. Len(backlog) \in Nat /\ DOMAIN backlog = 1..Len(backlog) /\ DOMAIN backlog' = 1..(Len(backlog) - 1)
      /\ \A i \in DOMAIN backlog' : backlog'[i] = backlog[i + 1] /\ i + 1 \in DOMAIN backlog
  BY <1>1, <1>3
<1>8. OneConnectionEach'
  <2>1. ASSUME NEW i \in DOMAIN backlog' PROVE Fits(backlog[i])'
    <3>1. PICK d : d = backlog'[i]
      OBVIOUS
    <3>2. d = backlog[i + 1] /\ i + 1 \in DOMAIN backlog
      BY <1>7, <2>1, <3>1
    <3>3. Fits(d)
      BY <3>2 DEF Sessions, OneConnectionEach
    <3>4. Fits(d)'
      BY <1>3, <3>3, FitsStays
    <3> QED
      BY <3>1, <3>4
  <2>2. \A i, j \in DOMAIN backlog' : backlog'[i].name = backlog'[j].name => i = j
    <3>1. \A i, j \in DOMAIN backlog : backlog[i].name = backlog[j].name => i = j
      BY DEF Sessions, OneConnectionEach
    <3> QED
      BY ONLY <1>7, <3>1
  <2>3. \A i \in DOMAIN backlog' : backlog'[i].name # e.name
    <3>1. \A i, j \in DOMAIN backlog : backlog[i].name = backlog[j].name => i = j
      BY DEF Sessions, OneConnectionEach
    <3> QED
      BY ONLY <1>4, <1>7, <3>1
  <2> QED
    BY <1>3, <2>1, <2>2, <2>3 DEF OneConnectionEach
<1>9. Informed'
  <2>1. \A c \in Clients : Knows(client[c])'
    BY <1>3, KnowsStays DEF Sessions
  <2> QED
    BY <2>1 DEF Informed
<1>10. Working'
  <2>1. step'["worker"] = step["worker"] /\ pending'["worker"] = pending["worker"]
    BY <1>1, <1>3
  <2> QED
    BY <2>1 DEF Sessions, Working
<1>11. step'["serve"] = H!AnsweredAt(e.frame)
  BY <1>1, <1>3
<1>12. e.frame \in ClientFrames
  BY <1>4 DEF Connections
<1>13. /\ H!AnsweredAt(e.frame) = "reading" => e.frame.op = "silent"
       /\ H!AnsweredAt(e.frame) = "concluded" => e.frame.op \in {"unsupported", "malformed"}
       /\ H!AnsweredAt(e.frame) = "locking" =>
            e.frame.op \in {"challenge", "pubkey", "compute", "rotate"}
       /\ H!AnsweredAt(e.frame) \in {"reading", "concluded", "locking"}
  BY <1>12 DEF H!AnsweredAt, ClientFrames, FramesWith
<1>14. step'["serve"] = "concluded" => Useful(serving_client.frame, answer["serve"])'
  BY <1>3, <1>11, <1>13 DEF Useful
<1>15. H!AnsweredAt(e.frame) = "locking" => pending'["serve"] = H!Forward(e.frame)
  BY <1>1, <1>3
<1>16. H!Forward(serving_client.frame)' = H!Forward(e.frame)
  BY <1>3 DEF H!Forward
<1>17. Fits(serving_client)'
  BY <1>3, <1>6
<1>18. Serving'
  BY <1>3, <1>4, <1>11, <1>13, <1>14, <1>15, <1>16, <1>17 DEF Serving
<1> QED
  BY <1>8, <1>9, <1>10, <1>18 DEF Sessions

\* What a client makes of a useful answer.
LEMMA ReceivesKnown ==
  ASSUME NEW e \in Connections, NEW me \in ClientStates, NEW result \in Results,
         Awaits(me, e), Knows(me), Useful(e.frame, result), client[e.name] = me
  PROVE  Knows(H!Receives(e.name, result))
<1>1. /\ me.at \notin {"start", "verified"}
      /\ e.frame.op = "challenge" => e.frame.nonce = e.name
      /\ e.frame.op = "compute" =>
           me.command = "calc" /\ me.at = "computing" /\ e.frame.key_version = me.version
      /\ e.frame.op # "compute" /\ me.command = "calc" =>
           me.at = "challenging" /\ e.frame.op = "challenge"
  BY DEF Awaits
<1>2. e.name \in Clients
  BY DEF Connections
<1>3. CASE me.command # "calc"
  <2>1. me.at # "computing"
    BY <1>3 DEF Knows
  <2>2. /\ H!Receives(e.name, result).command = me.command
        /\ H!Receives(e.name, result).at = "done"
    BY <1>3, <2>1 DEF H!Receives, ClientStates
  <2> QED
    BY <1>3, <2>2 DEF Knows
<1>4. CASE me.command = "calc" /\ e.frame.op = "compute"
  <2>1. /\ H!Receives(e.name, result).command = "calc"
        /\ H!Receives(e.name, result).at = "done"
        /\ H!Receives(e.name, result).outcome = result.outcome
        /\ H!Receives(e.name, result).version = me.version
    BY <1>1, <1>4 DEF H!Receives, ClientStates
  <2>2. ~lost => \/ result.outcome \in {"ok", "failed"}
                 \/ result.outcome = "key_expired" /\ Expired(me.version)
    BY <1>1, <1>4 DEF Useful
  <2> QED
    BY <2>1, <2>2 DEF Knows
<1>5. CASE me.command = "calc" /\ e.frame.op # "compute"
  <2>1. me.at = "challenging" /\ e.frame.op = "challenge" /\ e.frame.nonce = e.name
    BY <1>1, <1>5
  <2>2. CASE result.outcome = "failed"
    <3>1. /\ H!Receives(e.name, result).command = "calc"
          /\ H!Receives(e.name, result).at = "done"
          /\ H!Receives(e.name, result).outcome = "failed"
      BY <1>5, <2>2 DEF H!Receives, ClientStates
    <3> QED
      BY <3>1 DEF Knows
  <2>3. CASE result.outcome # "failed"
    <3>1. /\ result.bundle.quote /\ result.bundle.nonce = e.name
          /\ Key(result.bundle) \in published
      BY <2>1, <2>3 DEF Useful
    <3>2. H!Verified(e.name, result.bundle)
      BY <3>1 DEF H!Verified
    <3>3. /\ H!Receives(e.name, result).command = "calc"
          /\ H!Receives(e.name, result).at = "verified"
          /\ H!Receives(e.name, result).version = result.bundle.version
          /\ H!Receives(e.name, result).public_key = result.bundle.public_key
      BY <1>5, <2>1, <2>3, <3>2 DEF H!Receives, ClientStates
    <3> QED
      BY <3>1, <3>3 DEF Knows, Key
  <2> QED
    BY <2>2, <2>3
<1> QED
  BY <1>3, <1>4, <1>5

\* The client reads its answer.
LEMMA ReplySessions ==
  ASSUME EnclaveInv, [RP!Reacts]_RP!vars, HostTyped, HostTyped', Sessions, H!ReplyToClient
  PROVE  Sessions'
<1>1. /\ step \in [Threads -> Steps] /\ pending \in [Threads -> Asks \cup {H!NoFrame}]
      /\ "serve" \in Threads /\ "worker" \in Threads
      /\ client \in [Clients -> ClientStates] /\ answer["serve"] \in Results
  BY DEF HostTyped, Threads
<1>2. PICK e, result : e = serving_client /\ result = answer["serve"]
  OBVIOUS
<1>3. /\ step["serve"] = "concluded" /\ step' = [step EXCEPT !["serve"] = "idle"]
      /\ client' = [client EXCEPT ![e.name] = H!Receives(e.name, result)]
      /\ pending' = [pending EXCEPT !["serve"] = H!NoFrame] /\ backlog' = backlog
  BY <1>2 DEF H!ReplyToClient
<1>4. e \in Connections /\ e.name \in Clients /\ Fits(e) /\ Useful(e.frame, result)
  BY <1>2, <1>3 DEF Sessions, Serving, InHand, Connections
<1>5. \A i \in DOMAIN backlog : backlog[i].name # e.name
  BY <1>2, <1>3 DEF Sessions, OneConnectionEach, InHand
<1>6. step'["serve"] = "idle" /\ step'["worker"] = step["worker"]
      /\ pending'["worker"] = pending["worker"]
  BY <1>1, <1>3
<1>7. ~InHand'
  BY <1>6 DEF InHand
<1>8. Serving' /\ Working'
  BY <1>6, <1>7 DEF Sessions, Serving, Working
<1>9. OneConnectionEach'
  <2>1. \A i \in DOMAIN backlog : client'[backlog[i].name] = client[backlog[i].name]
    <3>1. \A c : c # e.name => client'[c] = client[c]
      BY <1>1, <1>3
    <3> QED
      BY <1>5, <3>1
  <2> QED
    BY <1>3, <1>7, <2>1, BacklogStays DEF Sessions
<1>10. \A c \in Clients : Knows(client[c])'
  <2>1. ASSUME NEW c \in Clients, c # e.name PROVE Knows(client[c])'
    BY <1>1, <1>3, <2>1, KnowsStays DEF Sessions
  <2>2. Knows(client[e.name])'
    <3>1. PICK me : me = H!Receives(e.name, result)
      OBVIOUS
    <3>2. Knows(me)
      BY <1>1, <1>2, <1>4, <3>1, ReceivesKnown DEF Sessions, Informed, Fits
    <3>3. me = client'[e.name]
      BY <1>1, <1>3, <1>4, <3>1
    <3>4. me \in ClientStates
      BY <1>4, <3>3 DEF HostTyped
    <3>5. Knows(me)'
      BY <3>2, <3>4, KnowledgeStays
    <3> QED
      BY <3>3, <3>5
  <2> QED
    BY <2>1, <2>2
<1> QED
  BY <1>8, <1>9, <1>10 DEF Sessions, Informed

\* The wait for a frame of a client ends.
LEMMA ReadingSessions ==
  ASSUME EnclaveInv, [RP!Reacts]_RP!vars, HostTyped, Sessions, H!ReadingEnds
  PROVE  Sessions'
<1>1. /\ step \in [Threads -> Steps] /\ "serve" \in Threads /\ "worker" \in Threads
  BY DEF HostTyped, Threads
<1>2. /\ step["serve"] = "reading" /\ step' = [step EXCEPT !["serve"] = "concluded"]
      /\ UNCHANGED <<pending, backlog, serving_client, client>>
  BY DEF H!ReadingEnds, H!Conclude
<1>3. step'["serve"] = "concluded" /\ step'["worker"] = step["worker"]
  BY <1>1, <1>2
<1>4. PICK e : e = serving_client
  OBVIOUS
<1>5. e \in Connections /\ Fits(e) /\ e.frame.op = "silent"
  BY <1>2, <1>4 DEF Sessions, Serving, InHand
<1>6. Fits(e)'
  BY <1>2, <1>5, FitsStays
<1>7. Fits(serving_client)' /\ Useful(serving_client.frame, answer["serve"])'
  BY <1>2, <1>4, <1>5, <1>6 DEF Useful
<1>8. Serving'
  BY <1>2, <1>3, <1>4, <1>5, <1>7 DEF Serving
<1>9. Working'
  BY <1>2, <1>3 DEF Sessions, Working
<1>10. OneConnectionEach'
  BY <1>2, BacklogStays DEF Sessions, InHand
<1>11. \A c \in Clients : Knows(client[c])'
  BY <1>2, KnowsStays DEF Sessions
<1> QED
  BY <1>8, <1>9, <1>10, <1>11 DEF Sessions, Informed

\* The worker starts a round or ends one.
LEMMA WorkerSessions ==
  ASSUME EnclaveInv, [RP!Reacts]_RP!vars, HostTyped, Sessions, H!WorkerWakes \/ H!WorkerSleeps
  PROVE  Sessions'
<1>1. /\ step \in [Threads -> Steps] /\ pending \in [Threads -> Asks \cup {H!NoFrame}]
      /\ answer \in [Threads -> Results] /\ "serve" \in Threads /\ "worker" \in Threads
  BY DEF HostTyped, Threads
<1>2. /\ UNCHANGED <<backlog, serving_client, client>>
      /\ \/ /\ step' = [step EXCEPT !["worker"] = "locking"] /\ answer' = answer
            /\ \E f : f.op = "attest" /\ pending' = [pending EXCEPT !["worker"] = f]
         \/ /\ step' = [step EXCEPT !["worker"] = "idle"]
            /\ pending' = [pending EXCEPT !["worker"] = H!NoFrame]
            /\ answer' = [answer EXCEPT !["worker"] = H!Failed]
  BY DEF H!WorkerWakes, H!WorkerSleeps, H!Frame
<1>3. /\ step'["serve"] = step["serve"] /\ pending'["serve"] = pending["serve"]
      /\ answer'["serve"] = answer["serve"]
      /\ step'["worker"] # "idle" => pending'["worker"].op = "attest"
  BY <1>1, <1>2
<1>4. Serving'
  BY <1>2, <1>3, ServingStays DEF Sessions
<1>5. Working'
  BY <1>3 DEF Working
<1>6. OneConnectionEach'
  BY <1>2, <1>3, BacklogStays DEF Sessions, InHand
<1>7. \A c \in Clients : Knows(client[c])'
  BY <1>2, KnowsStays DEF Sessions
<1> QED
  BY <1>4, <1>5, <1>6, <1>7 DEF Sessions, Informed

\* A client whose connection closed has its command fail.
LEMMA HangUpKnown ==
  ASSUME EnclaveInv, [RP!Reacts]_RP!vars, HostTyped, Informed, NEW cs, H!HangUp(cs)
  PROVE  Informed'
<1>1. ASSUME NEW c \in Clients PROVE Knows(client[c])'
  <2>1. CASE client'[c] = client[c]
    BY <2>1, KnowsStays
  <2>2. CASE client'[c] = [client[c] EXCEPT !.at = "done", !.outcome = "failed"]
    <3>1. client[c] \in ClientStates
      BY DEF HostTyped
    <3>2. client'[c].at = "done" /\ client'[c].outcome = "failed"
      BY <2>2, <3>1 DEF ClientStates
    <3> QED
      BY <3>2 DEF Knows
  <2> QED
    BY <2>1, <2>2 DEF H!HangUp
<1> QED
  BY <1>1 DEF Informed

\* The host process ends, and with it every connection.
LEMMA StopSessions ==
  ASSUME EnclaveInv, [RP!Reacts]_RP!vars, HostTyped, Informed, H!ProcessEnds
  PROVE  Sessions'
<1>1. \A t \in Threads : step'[t] = "idle"
  BY DEF H!ProcessEnds, Threads, H!Threads
<1>2. backlog' = <<>> /\ ~InHand' /\ step'["worker"] = "idle"
  BY <1>1 DEF H!ProcessEnds, InHand, Threads
<1>3. Serving' /\ Working' /\ OneConnectionEach'
  BY <1>2 DEF Serving, Working, OneConnectionEach
<1>4. Informed'
  BY HangUpKnown DEF H!ProcessEnds
<1> QED
  BY <1>3, <1>4 DEF Sessions

\* A client connects.
LEMMA ConnectSessions ==
  ASSUME EnclaveInv, [RP!Reacts]_RP!vars, HostTyped, Sessions,
         NEW c \in Clients, NEW f \in ClientFrames, NEW me \in ClientStates,
         client[c].at \in {"start", "verified"}, H!Connect(c, f, me),
         Awaits(me, [name |-> c, frame |-> f]), Knows(me)
  PROVE  Sessions'
<1>1. /\ client \in [Clients -> ClientStates] /\ backlog \in Seq(Connections)
      /\ UNCHANGED <<step, pending, answer, serving_client>>
  BY DEF HostTyped, H!Connect, H!threads
<1>2. PICK e : e = [name |-> c, frame |-> f]
  OBVIOUS
<1>3. e \in Connections /\ e.name = c
  BY <1>2 DEF Connections
<1>4. \A d \in Connections : Fits(d) => d.name # c
  BY DEF Fits, Awaits
<1>5. \A d \in Clients : d # c => client'[d] = client[d]
  BY <1>1 DEF H!Connect
<1>6. PICK after : after = client'[c]
  OBVIOUS
<1>7. Knows(after) /\ after \in ClientStates
  <2>1. CASE phase = "serving"
    BY <1>1, <1>6, <2>1 DEF H!Connect
  <2>2. CASE phase # "serving"
    <3>1. after = [me EXCEPT !.at = "done", !.outcome = "failed"]
      BY <1>1, <1>6, <2>2 DEF H!Connect
    <3>2. after.at = "done" /\ after.outcome = "failed" /\ after \in ClientStates
      BY <3>1 DEF ClientStates, Outcomes
    <3> QED
      BY <3>2 DEF Knows
  <2> QED
    BY <2>1, <2>2
<1>8. Informed'
  <2>1. ASSUME NEW d \in Clients, d # c PROVE Knows(client[d])'
    BY <1>5, <2>1, KnowsStays DEF Sessions
  <2>2. Knows(client[c])'
    <3>1. Knows(after)'
      BY <1>7, KnowledgeStays
    <3> QED
      BY <1>6, <3>1
  <2> QED
    BY <2>1, <2>2 DEF Informed
<1>9. Working'
  BY <1>1 DEF Sessions, Working
<1>10. InHand => /\ serving_client \in Connections /\ serving_client.name # c
                 /\ client'[serving_client.name] = client[serving_client.name]
  BY <1>4, <1>5 DEF Sessions, Serving, Connections
<1>11. Serving'
  <2> SUFFICES ASSUME InHand' PROVE Serving'
    BY DEF Serving
  <2>1. InHand
    BY <1>1 DEF InHand
  <2>2. PICK d, result : d = serving_client /\ result = answer["serve"]
    OBVIOUS
  <2>3. d \in Connections /\ Fits(d) /\ d.frame \in ClientFrames
    BY <2>1, <2>2 DEF Sessions, Serving, Connections
  <2>4. Fits(d)'
    BY <1>10, <2>1, <2>2, <2>3, FitsStays
  <2>5. Useful(d.frame, result) => Useful(d.frame, result)'
    BY <2>3, KnowledgeStays
  <2>6. step'["serve"] = "concluded" => Useful(serving_client.frame, answer["serve"])'
    BY <1>1, <2>1, <2>2, <2>5 DEF Sessions, Serving
  <2>7. Fits(serving_client)'
    BY <1>1, <2>2, <2>4
  <2>8. H!Forward(serving_client.frame)' = H!Forward(serving_client.frame)
    BY <1>1 DEF H!Forward
  <2> QED
    BY <1>1, <2>1, <2>6, <2>7, <2>8 DEF Sessions, Serving
<1>12. \A i \in DOMAIN backlog : backlog[i].name \in Clients /\ backlog[i].name # c
  <2>1. \A i \in DOMAIN backlog : backlog[i] \in Connections
    BY <1>1
  <2> QED
    BY <1>4, <2>1 DEF Sessions, OneConnectionEach, Connections
<1>13. OneConnectionEach'
  <2>1. CASE phase # "serving"
    <3>1. backlog' = backlog
      BY <2>1 DEF H!Connect
    <3>2. \A i \in DOMAIN backlog : client'[backlog[i].name] = client[backlog[i].name]
      BY <1>5, <1>12
    <3> QED
      BY <1>1, <3>1, <3>2, BacklogStays DEF Sessions, InHand
  <2>2. CASE phase = "serving"
    <3>1. backlog' = Append(backlog, e)
      BY <1>2, <2>2 DEF H!Connect
    <3>2. /\ Len(backlog) \in Nat /\ DOMAIN backlog = 1..Len(backlog)
          /\ DOMAIN backlog' = 1..(Len(backlog) + 1)
          /\ \A i \in DOMAIN backlog : backlog'[i] = backlog[i]
          /\ backlog'[Len(backlog) + 1] = e
      BY <1>1, <1>3, <3>1
    <3>3. \A i \in DOMAIN backlog' : i \in DOMAIN backlog \/ (backlog'[i] = e /\ i = Len(backlog) + 1)
      BY ONLY <3>2
    <3>4. ASSUME NEW i \in DOMAIN backlog PROVE Fits(backlog[i])'
      <4>1. PICK d : d = backlog[i]
        OBVIOUS
      <4>2. Fits(d)'
        BY <1>5, <1>12, <4>1, FitsStays DEF Sessions, OneConnectionEach
      <4> QED
        BY <3>2, <4>1, <4>2
    <3>5. Fits(e)'
      <4>1. client'[c] = me
        BY <1>1, <2>2 DEF H!Connect
      <4>2. Awaits(me, e)'
        BY <1>2, KnowledgeStays
      <4> QED
        BY <1>3, <4>1, <4>2 DEF Fits
    <3>6. \A i \in DOMAIN backlog' : Fits(backlog[i])'
      BY <3>3, <3>4, <3>5
    <3>7. \A i, j \in DOMAIN backlog' : backlog'[i].name = backlog'[j].name => i = j
      <4>1. \A i, j \in DOMAIN backlog : backlog[i].name = backlog[j].name => i = j
        BY DEF Sessions, OneConnectionEach
      <4> QED
        BY ONLY <1>3, <1>12, <3>2, <3>3, <4>1
    <3>8. InHand' => \A i \in DOMAIN backlog' : backlog'[i].name # serving_client'.name
      <4>1. InHand => \A i \in DOMAIN backlog : backlog[i].name # serving_client.name
        BY DEF Sessions, OneConnectionEach
      <4> QED
        BY <1>1, <1>3, <1>10, <3>2, <3>3, <4>1 DEF InHand
    <3> QED
      BY <3>6, <3>7, <3>8 DEF OneConnectionEach
  <2> QED
    BY <2>1, <2>2
<1> QED
  BY <1>8, <1>9, <1>11, <1>13 DEF Sessions

\* A client takes a step.
LEMMA ClientSessions ==
  ASSUME EnclaveInv, [RP!Reacts]_RP!vars, HostTyped, Sessions, NEW c \in Clients, ClientStep(c)
  PROVE  Sessions'
<1>1. client[c] \in ClientStates /\ Knows(client[c])
  BY DEF HostTyped, Sessions, Informed
<1>2. CASE H!Issue(c)
  <2>1. PICK command \in Command[c] :
          H!Connect(c, H!Opening(c, command).frame,
                    [client[c] EXCEPT !.command = command, !.at = H!Opening(c, command).at])
    BY <1>2 DEF H!Issue
  <2>2. PICK f, me : /\ f = H!Opening(c, command).frame
                     /\ me = [client[c] EXCEPT !.command = command, !.at = H!Opening(c, command).at]
    OBVIOUS
  <2>3. /\ f \in ClientFrames /\ me \in ClientStates
        /\ me.command = command /\ me.at = H!Opening(c, command).at
        /\ me.at \in {"challenging", "silent", "asking"}
    BY <1>1, <2>2, OpeningTyped DEF ClientStates
  <2>4. \/ /\ command \in {"calc", "challenge"} /\ me.at = "challenging"
           /\ f.op = "challenge" /\ f.nonce = c
        \/ command \notin {"calc", "challenge"} /\ f.op = command
    BY <2>2, <2>3 DEF H!Opening, H!Frame
  <2>5. f.op # "compute"
    BY <2>4, OpeningTyped
  <2>6. Awaits(me, [name |-> c, frame |-> f])
    BY <2>3, <2>4, <2>5 DEF Awaits, Honest
  <2>7. Knows(me)
    BY <2>3, <2>4 DEF Knows
  <2>8. client[c].at = "start" /\ H!Connect(c, f, me)
    BY <1>2, <2>1, <2>2 DEF H!Issue
  <2> QED
    BY <2>3, <2>6, <2>7, <2>8, ConnectSessions
<1>3. CASE H!Compute(c)
  <2>1. PICK f, me : /\ f = H!Frame("compute", NoNonce, client[c].version,
                                    [form |-> "xy", key |-> client[c].public_key])
                     /\ me = [client[c] EXCEPT !.at = "computing"]
    OBVIOUS
  <2>2. H!Connect(c, f, me) /\ client[c].at = "verified"
    BY <1>3, <2>1 DEF H!Compute
  <2>3. f \in ClientFrames
    BY <1>1, <2>1 DEF ClientStates, H!Frame, ClientFrames, FramesWith, SentNonces, RP!Ciphertexts
  <2>4. /\ me \in ClientStates /\ me.at = "computing" /\ me.command = client[c].command
        /\ me.version = client[c].version /\ me.public_key = client[c].public_key
    BY <1>1, <2>1 DEF ClientStates
  <2>5. client[c].command = "calc" /\ Key(client[c]) \in published
    BY <1>1, <2>2 DEF Knows
  <2>6. /\ f.op = "compute" /\ f.key_version = me.version
        /\ f.ct.form = "xy" /\ f.ct.key = me.public_key
    BY <2>1, <2>4 DEF H!Frame
  <2>7. Awaits(me, [name |-> c, frame |-> f])
    BY <2>4, <2>5, <2>6 DEF Awaits, Honest, Key
  <2>8. Knows(me)
    BY <2>4, <2>5 DEF Knows, Key
  <2> QED
    BY <2>2, <2>3, <2>4, <2>7, <2>8, ConnectSessions
<1>4. CASE H!HangsUp(c)
  <2>1. /\ client[c].at = "silent" /\ H!HangUp({c})
        /\ UNCHANGED <<step, pending, answer, backlog, serving_client>>
    BY <1>4 DEF H!HangsUp, H!threads
  <2>2. /\ client'[c] = [client[c] EXCEPT !.at = "done", !.outcome = "failed"]
        /\ \A d \in Clients : d # c => client'[d] = client[d]
    BY <2>1 DEF H!HangUp
  <2>3. client[c].command # "calc"
    BY <1>1, <2>1 DEF Knows
  <2>4. client'[c].at = "done" /\ client'[c].command # "calc"
    BY <1>1, <2>2, <2>3 DEF ClientStates
  <2>5. ASSUME NEW e \in Connections, Fits(e) PROVE Fits(e)'
    <3>1. CASE e.name # c
      BY <2>2, <2>5, <3>1, FitsStays DEF Connections
    <3>2. CASE e.name = c
      <4>1. PICK me : me = client'[c]
        OBVIOUS
      <4>2. Awaits(me, e)
        BY <2>1, <2>3, <2>4, <2>5, <3>2, <4>1 DEF Fits, Awaits
      <4>3. Awaits(me, e)'
        BY <4>2, KnowledgeStays
      <4> QED
        BY <3>2, <4>1, <4>3 DEF Fits
    <3> QED
      BY <3>1, <3>2
  <2>6. Informed'
    BY <2>1, HangUpKnown DEF Sessions
  <2>7. OneConnectionEach'
    <3>1. \A i \in DOMAIN backlog : backlog[i] \in Connections
      BY DEF HostTyped
    <3>2. ASSUME NEW i \in DOMAIN backlog PROVE Fits(backlog[i])'
      <4>1. PICK e : e = backlog[i]
        OBVIOUS
      <4>2. Fits(e)'
        BY <2>5, <3>1, <4>1 DEF Sessions, OneConnectionEach
      <4> QED
        BY <2>1, <4>1, <4>2
    <3> QED
      BY <2>1, <3>2 DEF Sessions, OneConnectionEach, InHand
  <2>8. Serving'
    <3> SUFFICES ASSUME InHand' PROVE Serving'
      BY DEF Serving
    <3>1. InHand
      BY <2>1 DEF InHand
    <3>2. PICK e, result : e = serving_client /\ result = answer["serve"]
      OBVIOUS
    <3>3. e \in Connections /\ Fits(e) /\ e.frame \in ClientFrames
      BY <3>1, <3>2 DEF Sessions, Serving, Connections
    <3>4. Fits(serving_client)'
      BY <2>1, <2>5, <3>2, <3>3
    <3>5. Useful(e.frame, result) => Useful(e.frame, result)'
      BY <3>3, KnowledgeStays
    <3>6. step'["serve"] = "concluded" => Useful(serving_client.frame, answer["serve"])'
      BY <2>1, <3>1, <3>2, <3>5 DEF Sessions, Serving
    <3>7. H!Forward(serving_client.frame)' = H!Forward(serving_client.frame)
      BY <2>1 DEF H!Forward
    <3> QED
      BY <2>1, <3>1, <3>4, <3>6, <3>7 DEF Sessions, Serving
  <2>9. Working'
    BY <2>1 DEF Sessions, Working
  <2> QED
    BY <2>6, <2>7, <2>8, <2>9 DEF Sessions
<1> QED
  BY <1>2, <1>3, <1>4 DEF ClientStep

\* Every step goes on with the sessions.
LEMMA SessionsStep ==
  ASSUME EnclaveInv, [RP!Reacts]_RP!vars, HostTyped, HostTyped', Mutex, Conversation, Sessions,
         [Next]_vars
  PROVE  Sessions'
<1>1. ASSUME UNCHANGED <<step, pending, answer, backlog, serving_client, client>> PROVE Sessions'
  <2>1. Serving'
    BY <1>1, ServingStays DEF Sessions
  <2>2. OneConnectionEach'
    BY <1>1, BacklogStays DEF Sessions, InHand
  <2>3. \A c \in Clients : Knows(client[c])'
    BY <1>1, KnowsStays DEF Sessions
  <2>4. Working'
    BY <1>1 DEF Sessions, Working
  <2> QED
    BY <2>1, <2>2, <2>3, <2>4 DEF Sessions, Informed
<1>2. CASE StartServe \/ EnclaveStep \/ EnclaveEnds \/ ClockMoves \/ UNCHANGED vars \/ H!ReadReady
  <2>1. UNCHANGED <<step, pending, answer, backlog, serving_client, client>>
    BY <1>2 DEF StartServe, H!Start, EnclaveStep, EmitReady, EmitAnnounce, EmitReply, Emit,
       ReceiveFrame, InsideEnclave, EnclaveEnds, LegCloses, ClockMoves, H!ReadReady, vars, hostVars,
       hostInside, H!threads
  <2> QED
    BY <1>1, <2>1
<1>3. CASE StopServe \/ H!StartFails
  BY <1>3, StopSessions DEF StopServe, H!StartFails, Sessions
<1>4. CASE H!Exchange("serve") \/ H!Exchange("worker")
  BY <1>4, ExchangeSessions DEF Threads
<1>5. CASE H!Accept
  BY <1>5, AcceptSessions
<1>6. CASE H!ReadingEnds
  BY <1>6, ReadingSessions
<1>7. CASE H!ReplyToClient
  BY <1>7, ReplySessions
<1>8. CASE H!WorkerWakes \/ H!WorkerSleeps
  BY <1>8, WorkerSessions
<1>9. CASE \E c \in Clients : ClientStep(c)
  BY <1>9, ClientSessions
<1> QED
  BY <1>2, <1>3, <1>4, <1>5, <1>6, <1>7, <1>8, <1>9 DEF Next, ServeStep, WorkerStep

-----------------------------------------------------------------------------
(* The invariant and what follows from it.                                 *)

\* The service starts with it.
LEMMA TInvInit == Init => TInv
<1> SUFFICES ASSUME Init PROVE TInv
  OBVIOUS
<1>1. RP!Init
  BY DEF Init, R!Init, RP!Init, R!BootRequest, RP!BootRequest, R!NoCiphertext, RP!NoCiphertext,
     R!EmptyStore, RP!EmptyStore, R!NoAttestation, RP!NoAttestation
<1>2. sealed.store.current_version = 0 /\ pc = "down"
  BY <1>1 DEF RP!Init, RP!EmptyStore
<1>3. EnclaveInv
  BY <1>1, <1>2, EnclaveInit DEF EnclaveInv, NothingForgotten
<1>4. HostTyped
  BY DataTyped DEF Init, H!HostInit, H!Threads, Threads, Steps, HostTyped
<1>5. \A t \in Threads : step[t] = "idle"
  BY DEF Init, H!HostInit, H!Threads, Threads
<1>6. Mutex
  BY <1>5 DEF Init, H!HostInit, Mutex, Threads
<1>7. Conversation
  BY <1>2, <1>5 DEF Init, H!HostInit, Conversation, Ended, AllIdle, R!Running
<1>8. Sessions
  BY <1>5 DEF Init, H!HostInit, H!NewClient, Sessions, Serving, Working, OneConnectionEach, Informed,
     InHand, Knows, Threads
<1> QED
  BY <1>3, <1>4, <1>6, <1>7, <1>8 DEF TInv

\* Every step keeps it.
LEMMA TInvStep == TInv /\ [Next]_vars => TInv'
<1> SUFFICES ASSUME TInv, [Next]_vars PROVE TInv'
  OBVIOUS
<1>1. EnclaveInv /\ RP!IInv /\ HostTyped /\ Mutex /\ Conversation /\ Sessions
  BY DEF TInv, EnclaveInv
<1>2. [RP!Reacts]_RP!vars
  BY <1>1, EnclaveReacts DEF HostTyped
<1>3. EnclaveInv'
  BY <1>1, <1>2, EnclaveStepInv, Growth DEF EnclaveInv
<1>4. HostTyped'
  BY <1>1, TypesStep
<1>5. Mutex'
  BY <1>1, <1>4, MutexStep
<1>6. Conversation'
  BY <1>1, <1>2, ConversationStep
<1>7. Sessions'
  BY <1>1, <1>2, <1>4, SessionsStep
<1> QED
  BY <1>3, <1>4, <1>5, <1>6, <1>7 DEF TInv

\* It holds throughout.
LEMMA TInvAlways == Spec => []TInv
BY TInvInit, TInvStep, PTL DEF Spec

\* The control state of the host has its type, the mutex is held by a thread
\* that is inside an exchange, and at most one request is under way
\* (host/src/main.rs:427-430, 213).
THEOREM HostTypes == Spec => []HostTypeOK
<1>1. ASSUME TInv PROVE HostTypeOK
  <2>1. HostTyped /\ Mutex /\ Conversation
    BY <1>1 DEF TInv
  <2>2. toRuntime = <<>> \/ \E t \in Threads : toRuntime = <<pending[t]>>
    BY <2>1 DEF Conversation, Booting, Booted, Resting, Asked, Handled, Announced, Replied, Ended
  <2>3. Len(toRuntime) <= 1
    <3>1. CASE toRuntime = <<>>
      BY <3>1
    <3>2. ASSUME NEW r, toRuntime = <<r>> PROVE Len(toRuntime) <= 1
      BY <3>2
    <3> QED
      BY <2>2, <3>1, <3>2
  <2>4. \A c \in Clients :
          client[c].at \in {"start", "verified", "silent", "done"} \cup H!Hanging
    BY <2>1 DEF HostTyped, ClientStates, H!Hanging
  <2> QED
    BY <2>1, <2>3, <2>4 DEF HostTypeOK, HostTyped, Mutex, Threads, H!Threads
<1> QED
  BY <1>1, TInvAlways, PTL

\* The frame a thread reads is the one it waits for, whatever the worker and
\* the serve loop ask at the same time: "unexpected op", "id mismatch" and
\* "expected host.Ready" never happen (host/src/main.rs:182-184, 216-221,
\* 294-303, 319-341).
THEOREM NoMismatch == Spec => []NeverMismatched
<1>1. ASSUME TInv PROVE NeverMismatched
  <2>1. HostTyped /\ Mutex /\ Conversation
    BY <1>1 DEF TInv
  <2>2. ASSUME NEW t \in Threads, step[t] = "awaiting", toHost # <<>>
        PROVE  H!Announces(t, Head(toHost)) \/ H!Answers(t, Head(toHost))
    <3>1. pending[t] \in Asks
      BY <2>1, <2>2, OneAwaits
    <3> QED
      BY <2>1, <2>2, <3>1, HeadOfAnswer, Recognised
  <2>3. ASSUME phase = "starting", toHost # <<>> PROVE Head(toHost).op = "ready"
    <3>1. \E f \in EnclaveFrames : f.op = "ready" /\ toHost = <<f>>
      BY <2>1, <2>3 DEF Conversation, Booting, Booted, Resting, Asked, Handled, Announced, Replied,
         Ended
    <3> QED
      BY <3>1
  <2> QED
    BY <2>2, <2>3 DEF NeverMismatched, Threads, H!Threads
<1> QED
  BY <1>1, TInvAlways, PTL

\* No request of the host arrives while the enclave drops whatever is not the
\* loader's answer (runtime/src/main.rs:52-62, 76-86, 96-106, 116-124).
THEOREM NothingDropped == Spec => []FramesAreNotDiscarded
<1>1. ASSUME TInv PROVE FramesAreNotDiscarded
  <2>1. Conversation
    BY <1>1 DEF TInv
  <2> QED
    BY <2>1 DEF FramesAreNotDiscarded, Conversation, Booting, Booted, Resting, Asked, Handled,
       Announced, Replied, Ended
<1> QED
  BY <1>1, TInvAlways, PTL

\* Between two exchanges the host's latest_bundle names the key the enclave
\* would decrypt with now (host/src/main.rs:225, 296, 327-339).
THEOREM BundleFollowsStore == Spec => []BundleIsCurrent
<1>1. ASSUME TInv, phase = "serving", lock = "free", leg = "open", R!Running
      PROVE  /\ latest_bundle.version = store.current_version
             /\ latest_bundle.public_key = R!Current(store).public_key
  <2>1. RP!IInv /\ Mutex /\ Conversation
    BY <1>1 DEF TInv, EnclaveInv
  <2>2. \A t \in Threads : step[t] # "awaiting"
    BY <1>1, <2>1 DEF Mutex, Threads
  <2>3. Resting
    BY <1>1, <2>1, <2>2
       DEF Conversation, Booting, Booted, Asked, Handled, Announced, Replied, Ended
  <2>4. R!Current(store).version = store.current_version
    BY <2>1, <2>3, EnclaveFacts DEF Resting
  <2>5. [version |-> latest_bundle.version, public_key |-> latest_bundle.public_key]
          = R!Current(store)
    BY <2>3 DEF Resting, NamesCurrent, Key
  <2> QED
    BY <2>4, <2>5
<1>2. ASSUME TInv PROVE BundleIsCurrent
  BY <1>1, <1>2 DEF BundleIsCurrent
<1> QED
  BY <1>2, TInvAlways, PTL

\* A calculation whose challenge was answered is computed, or refused because
\* its key was rotated out in between, or its connection ends, unless the
\* sealed store was destroyed (host/src/main.rs:781-814,
\* runtime/src/main.rs:296-348).
THEOREM CalculationsEnd == Spec => []CalcOutcome
<1>1. ASSUME TInv PROVE CalcOutcome
  BY <1>1 DEF TInv, Sessions, Informed, Knows, Expired, CalcOutcome
<1> QED
  BY <1>1, TInvAlways, PTL
=============================================================================
