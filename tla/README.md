# A formal model of tee-demo

tee-demo computes `x^3 + 5*y` in an SGX enclave. A client encrypts its input to
a key that the enclave generated and attested; the enclave seals its keys in a
file so that they survive a restart, and rotates them on request. This
directory holds TLA+ modules of the service, TLC configurations that
model-check them, and proofs that TLAPS checks.

The questions the models answer are those a unit test hardly reaches: what is
on disk when the process is killed at any point, whether two threads that share
one stream can read each other's answers, what a client's ciphertext meets when
keys rotate between its two requests, whether anybody can be left waiting.

## 1. Inventory

| part | code | state it keeps | operations |
|---|---|---|---|
| key store | `runtime/src/key_store.rs` | current version, key pairs of the last `RETENTION` versions | `new`, `rotate`, `current`, `lookup`, `decrypt`, `encode`/`decode`, `keyring_json` |
| runtime (enclave program) | `runtime/src/main.rs` | the store, `last_attested_at`, `attest_sequence`, the frame in hand | `bootstrap_store`, `handle_attestation_request`, `handle_compute_request`, `handle_rotate_request`, `maybe_stale_attest` |
| sealing | `runtime/src/sealing.rs` | none | `seal`, `unseal` under a key derived from MRENCLAVE |
| files | written by `loader/src/main.rs` for the runtime | `sealed_keys.bin`, `keyring.json`, `attestation.json` | `loader.read_blob`, `loader.write_blob` |
| loader | `loader/src/main.rs` | two stream legs, data directory | `run` (build and enter the enclave), `run_multiplexer`, `handle_loader_op`, aesmd calls |
| host, serve | `host/src/main.rs` | `RuntimeConnection` (stream, child, `next_id`, `latest_bundle`) behind a mutex; pid and socket files | `start`, `request_attestation`, `request_compute_ct`, `request_rotate`, `handle_client`, attest worker |
| host, client commands | `host/src/main.rs` | what one command has learned | `calc`, `challenge`, `pubkey`, `rotate`, `attest`, `stop` |
| protocol | `protocol/src/lib.rs`, `aead.rs` | none | frames, REPORTDATA binding, HPKE, DCAP verification |
| scripts | `daemon.sh`, `client.sh`, `test.sh`, `build-*.sh` | pid and socket files | start, stop, restart, tests |

How they interact:

```
client command --socket--> serve loop  \                         (one client at a time)
                           attest worker > mutex -> RuntimeConnection
                                                        | host leg, frames
                                                  loader: run_multiplexer -- files, aesmd
                                                        | enclave leg, frames
                                                  runtime: run_loop
```

A request of the host travels to the enclave and its answer back. While the
enclave handles it, it calls the loader over the same leg (`loader.*` frames,
answered with `*_result`) and drops any other frame that arrives in between.
A computation on a stale attestation and a rotation make the enclave send an
attestation frame (no id) before the reply.

What is hard, and where the properties aim:

* **crash and restart**: three files written by separate, non-atomic calls;
  all memory is lost, keys must not be;
* **partial failure**: a read, a write, a quote or a nonce that fails half-way
  through a handler that has already changed something;
* **interleaving**: serve loop, attest worker, clients, loader and enclave; two
  host processes that unlink and bind the same paths;
* **what is left behind**: pid file, sockets, an enclave whose host was killed,
  and the next start that finds them;
* **ordering**: unsolicited attestations on a stream read by request/response code;
* **stale state**: `latest_bundle`, `last_attested_at`, the key a client was
  told a moment ago;
* **boundaries**: retention, the literal `2` in `lookup`, the stale threshold,
  length fields narrower than the lengths they hold, slices of damaged bytes,
  `i64` overflow;
* **liveness**: chains of waiting client -> serve loop -> mutex -> enclave.

What makes each component correct:

* key store: versions are consecutive, the last `RETENTION` are held, an older
  one is *expired* and never *unknown*;
* runtime: no key is seen outside before it is sealed; a version names one key
  for ever; files agree with memory whenever the enclave is idle; no
  computation without a sufficiently fresh attestation of this boot;
* loader: frames are relayed in order, once each, and calls of the enclave are
  answered;
* host: the answer a thread reads is its own; the cached bundle is current;
  every command ends, also behind a client that sends nothing; the worker goes
  on attesting meanwhile;
* host processes and scripts: one enclave works on the data directory at a
  time; pid file and sockets name the process that serves; a start settles;
  an enclave ends with its host; stop stops and leaves no path behind;
* verification: what a client encrypts to is a key an enclave reported for this
  nonce, and an honest answer is accepted;
* layouts: damaged bytes are refused, never indexed past their end;
* the whole: a calculation yields its result, or `key_expired` because of
  rotations, or a closed connection.

`PROJECT.json` lists every hazard at its line with the properties that cover it.

## 2. Modules

| module | what it is |
|---|---|
| `KeyStore` | operators of the key store: `Rotate`, `KeepNewest`, `Find`, `Current`, `LookupError`, `Decrypt`, and `WellFormed` |
| `Runtime` | the enclave program with its files and its faults (EXTENDS `KeyStore`) |
| `KeyLedger` | abstract specification: what the sealed file promises over time |
| `KeyStoreProofs`, `RuntimeProofs`, `RuntimeRefinement` | the theorems about them |
| `Mux` | the loader's `select!` loop with frames that arrive in pieces |
| `MuxProofs` | its invariants, and that it implements `Relay` |
| `Relay` | abstract specification of the loader: two FIFO channels |
| `Host` | serve loop, attest worker, mutex, client commands |
| `TeeDemo` | composition of `Runtime` and `Host` over the channels of `Relay` |
| `TeeDemoProofs` | its invariants, with those of `RuntimeProofs` for the enclave's part |
| `Lifecycle` | host processes, loaders, pid file, sockets and `daemon.sh`, over many starts and stops |
| `LifecycleProofs` | its invariants, for every operator and for one who gives commands at rest |
| `Attestation` | REPORTDATA binding and `verify_attestation` |
| `AttestationProofs` | that the binding is injective, and that clients encrypt to attested keys only |
| `Layouts` | bytes of the key store, the sealed blob and the ciphertext, damaged and read back |
| `LayoutsProofs` | round trip, refusal of torn bytes, and that no reader panics or makes anything up |
| `MCRuntime`, `MCMux`, `MCTeeDemo`, `MCLifecycle`, `MCAttestation`, `MCLayouts` | the instances TLC checks |

### How state and actions correspond to the code

**Keys.** A key pair is the number of its generation; `generated` counts calls
of `generate_keypair`, which never repeats. The number stands for both halves.
A ciphertext is the key it was encrypted to and what decrypting it would tell.
JSON, base64, AES-GCM and HPKE are abstracted to whether they succeed.

**Runtime.** The enclave is single-threaded, so between two calls that leave it
nothing else can observe its memory. `pc` names the next such call, and each
action is one call with the code up to the next one:

| `pc` | call | code |
|---|---|---|
| `read_sealed` | `loader_read_blob` | `bootstrap_store` |
| `seal`, `keyring` | the two writes of `persist_store` | also the `keyring.json` write after an unseal |
| `ready` | `send_ready` | |
| `idle` | `read_frame` of `run_loop` | |
| `init_quote`, `get_quote` | aesmd through the loader | `do_attestation` |
| `cache`, `refresh` | writes of `attestation.json`, `keyring.json` | `do_attestation_and_cache` |
| `announce` | the attestation frame without id | `maybe_stale_attest`, `handle_rotate_request` |
| `reply` | the answer | each handler |
| `down`, `exited` | the loader is gone / `run_loop` returned an error | |

`request`, `store`, `last_attested_at`, `attest_sequence` are the variables of
`run_loop`; `attest` is the response under construction. `published`, `lost`
and `taken_at` are history variables that no action reads. `Crash` may hit at
any point and leaves the file being written old, new or torn; `WriteFails` is
an `ok=false` of the loader, `QuoteFails` one of aesmd; with the fault `read` a
read fails although the file is there; with `rebuild` another build (another
MRENCLAVE) is started; with `clock` the clock is set back, down to the 0 that `now_secs` returns
for a clock before the epoch and that `last_attested_at` has before the first attestation; with `frame` a
nonce is not base64.

**Host.** The two threads each go through `idle -> locking -> locked ->
awaiting -> concluded`; `lock` is the mutex. `Send` and `Read` are the write
and one turn of the read loop of `request_attestation`, `request_compute_ct`
and `request_rotate`, with their error paths. `AnswerFromBundle` is the pubkey
command served from `latest_bundle`. The serve loop handles one connection to
the end (`Accept` .. `ReplyToClient`). `Accept` reads the client's frame and
dispatches on its op as `handle_client` does (`AnsweredAt`): most ops need an
exchange, an unsupported op is answered `refused`, a frame without `ct` or that
does not parse is an error, and a connection on which nothing arrives keeps the
loop `reading`, without the mutex, until the client hangs up. A `calc` client
makes two connections, `Issue` (challenge and verification) and `Compute`.

**TeeDemo.** A frame the runtime writes is appended to `toHost` in the same
step; `Receive` takes the head of `toRuntime`. When enclave or loader end, a
suffix of what is under way is lost; when the host ends, the enclave ends at
its next read.

**Lifecycle.** Host process `p` spawns loader `p`; a number is used once. The
pid file and the two socket paths hold the number of the process that wrote or
bound them last, or `None` if the path does not exist; a bound path whose
process is dead stays, as it does in the file system. A pid file that is truncated and not yet
written is `Empty`: a start takes it for no running process, a stop ends with an error. `host[p]` walks through
`cmd_serve` or `cmd_attest` and `RuntimeConnection::start`:

| `host[p]` | at | code |
|---|---|---|
| `check` | the test for the client (serve) or runtime (attest) socket | `cmd_serve`, `cmd_attest` |
| `unlink`, `bind` | `remove_file`, `UnixListener::bind` and the spawn of the loader, which may fail (`SpawnFails`) and leaves the path | `start` |
| `accept` | the loop over `accept`, `try_wait` and the deadline | `start` |
| `ready` | the read of `host.Ready` | `start` |
| `write_pid`, `fill_pid`, `bind_client`, `up` | truncation and write of the pid file, the rest of serve | `write_pid`, `cmd_serve` |
| `attest`, `remove` | request and verification, then shutdown, then the socket | `cmd_attest` |

`loader[l]` is `loading` (building the enclave), `boot` and `fresh`
(`bootstrap_store`), `up`, `rotating`, and `failed` or `ended`. A loader connects
to whoever listens behind the runtime path at that moment (`backlog`), and
bootstraps without waiting to be accepted, because its calls to the loader need
no host. `script` is the next line of `daemon.sh start` or `stop`; the four steps of `cmd_stop`
are separate. Time is left out: the deadline of `start` and the `sleep 1`
of the script may pass at any point. The scripts wait for nothing: `restart` goes
from the last line of its stop to the first of its start. `Careful` restricts the operator alone,
who then gives a command only when every host process serves or is gone, none is still to end, and
no enclave is on its own.

**Attestation.** SHA-256 is its input, so a report is the sequence that is
hashed; a field of fixed width is one element, the length fields wrap at `W16`
and `W8`. The host may answer with any quote that exists and any other fields, with bytes of
any length in the place of the key (`AnsweredKeys`). Whether a quote verifies is whether an enclave
made it. `Encrypt` is what a client does with an answer it accepted: `PublicKey::from_bytes` refuses
what is no key. It belongs to the argument: `verify_attestation` checks no length and the binding
keeps only two bytes of it, so that acceptance alone does not say that an enclave reported these
bytes as its key.

**Layouts.** A byte has `Base` values and a `u16` two bytes; fields that are
copied whole (`version`, `keyid`, ...) are one byte. `Decode`, `Unseal` and
`Decrypt` return the value, an error or a panic; slicing past the end is the
panic, at the place where Rust would slice or index, in all three of them. AES-GCM refuses altered
blobs, so that `decode` behind it only sees what was sealed; its own contract
is checked on arbitrary damage all the same.

**Mux.** Each leg carries the pieces (length prefix, body) of frames;
`partial` is what the pending read of a leg has taken. `ReadOn` completes a
read and, as `select!` does, drops the other one. The two ends are reduced to
the order of their frames; `gotRequests` and `gotAnswers` record what enclave and host have
read, and only their own reads (`EnclaveReads`, `HostReads`) append to them. `Relay` has the same
two histories and appends to them what it takes off a channel, so that a frame the loader
swallows or tears is no step of `Relay`.

## 3. Runs

| run | checks | shows | distinct states |
|---|---|---|---|
| `MCRuntimeFaults` | `TypeOK`, `SealedBeforeExposed`, `VersionNamesOneKey`, `ExposedKeysDecrypt`, `DiskAgreesWhenIdle`, `ComputeAfterAttestation`, `IInv`, `ImplementsLedger` | the enclave and its files under crashes, torn and failing writes, failing reads and quotes, bad nonces, two builds, a clock that advances or is set back at any point, down to 0 | 1 345 000 |
| `MCMux` | `MuxTypeOK`, `OneLegAtATime`, `ImplementsRelay`, `ExchangeEnds` | the loader relays in order, each frame once, and drops nothing | 1 951 |
| `MCTeeDemo` | `HostTypeOK`, `NeverMismatched`, `FramesAreNotDiscarded`, `BundleIsCurrent`, `CalcOutcome` | a calculation, two rotations, the worker, two starts of the service | 2 000 000 |
| `MCTeeDemoLive` | `EveryCommandEnds`, `AttestationGoesOn` | a calculation beside any one other command, a silent client or a malformed frame, with fair processes, under crashes, failing writes and quotes and a clock that is set back | 125 000 |
| `MCLifecycleCareful` | `OneEnclave`, `ServiceIsWhole`, `ServedKeysAreSealed`, `StopLeavesNothing`, `StoppedMeansStopped` | four host processes, two kills, start, stop and attest given at rest | 630 000 |
| `MCLifecycleHasty` | `LifecycleTypeOK`, `StartSettles`, `OrphansEnd` | two host processes, one kill, all commands at any time | 285 000 |
| `MCAttestation` | `EncryptedIsAttested`, `HonestIsAccepted` | two attestations by two enclaves, nonces whose length wraps, answers whose key's length wraps | 4 000 000 |
| `MCLayouts` | `NeverPanics`, `WholeOrNothing`, `DecodedIsWritten` | store, blob and ciphertext under two damages | 216 000 |
| `MCRuntimeReadFault` | `NewStoreOnlyWithoutBlob` **violated** | see Findings | |
| `MCRuntimeTornWrite` | `KeysSurviveRestart` **violated** | see Findings | |
| `MCLifecycleStopped` | `StoppedMeansStopped` **violated** | see Findings | |
| `MCLifecycleRestart` | `ServedKeysAreSealed` **violated** | see Findings | |

Every property of a passing run has a mutant in `PROJECT.json`: a plausible bug
in one definition under which TLC finds the property violated.

### Bounds, and why they suffice

* `RETENTION = 2`, the constant of the code. `MaxKeys = 4` is the first bound
  at which a version expires (3 versions) and another rotation follows, and it leaves a key
  for a new store after a rotation. Two measurements are two builds.
* `MaxBoots = 2`: a boot and a recovery, each of which may be cut off at any point; also
  in `TeeDemo`, for safety. That a recovery may follow a recovery is left to the theorems, which
  hold for every bound. The liveness run uses one start and ends with it.
* `MaxAttests`: 2 attestations in one boot, the second because the first is stale, or for a
  rotation; in `TeeDemo` 9 is more than all
  requests together, so that it never blocks the enclave (a bound that did would
  show as a violation of `EveryCommandEnds`).
* `STALE_THRESHOLD_SECS = 0` with `MaxTime = 2`: the clock is at 0, 1 or 2. An attestation of the
  same tick is at the threshold and fresh, one tick later it is stale; an
  attestation that counts as fresh one second too long (the mutant of
  `ComputeAfterAttestation`) is found with it, and the clock can go back behind an attestation
  and to 0. `MCTeeDemoLive`, whose properties do not speak of time, has the clock at 0 or 1.
* Clients: one calculation and two rotations are the least with which a key
  expires between challenge and computation. In the liveness run a second client chooses
  among the other commands, so that each of them meets the calculation at every step. `MaxWorkerRounds = 1`: one attest
  of the worker at any point suffices to meet every step of an exchange.
* `MaxRequests = 4`, `MaxCalls = 4` in `Mux`; an attestation makes 4 calls.

* `Lifecycle`: four host processes and two kills in the careful run (a serve
  that is killed, what it leaves, a start that is refused, the stop that clears it,
  a start that works); two in the hasty run, which lets both cross each
  other at every line. `MaxKeys = 3` makes an enclave rotate after the boot.
* `Careful = TRUE` is about commands, not about scripts. It does not make restart harmless:
  `ServedKeysAreSealed` and `OneEnclave` fail with it, because its start does not wait
  for the end of what its stop signalled (run `MCLifecycleRestart`); this is why
  `MCLifecycleCareful` has no restart among its commands. Without `Careful`, `OneEnclave` fails
  when two starts are given in a row, and `StoppedMeansStopped` when stop is given during a start
  (run `MCLifecycleStopped`).
* `Attestation`: `W8 = 2` and `W16 = 3` with nonces of 0 to 3 elements and answers with up to four
  elements in the place of the key wrap both lengths; the keys enclaves report (one or two elements;
  65 bytes in the code) do not wrap, and can end where another key's length and nonce begin.
* `Layouts`: `Base = 3` lets every length use its low byte, its high byte or both;
  two damages are the least with which a cut and a changed length meet.

`CHECK_DEADLOCK FALSE` in all runs but `MCAttestation`: the bounded instances stop when boots,
keys and clients are used up, and an idle service waits for clients.

### Fairness

`FairSpec` of `TeeDemo` assumes weak fairness of the enclave's own steps, of the
serve thread, of the worker thread and of a client that has verified its quote.
The code justifies it: these are threads and processes that run until they
block, each step of theirs is one blocking call, and aesmd and the file system
answer (with success or failure). The mutex of the standard library is not fair, but the worker
sleeps between two rounds, so the serve loop is not overtaken for ever; the
bounded rounds of the model stand for that. Nothing is assumed about faults,
the clock, or users who start, stop or issue commands. `Mux` assumes that
its three processes run and not that a leg ever closes.

In `MCTeeDemoLive` nothing forces a silent client to hang up, so
`EveryCommandEnds` is stated under `[]<>(step["serve"] # "reading")`: the code has no
timeout there, and a client that keeps its connection open keeps the serve loop.
`AttestationGoesOn` needs no such premise. Where no silent client
is chosen the premise always holds.

`FairSpec` of `Lifecycle` assumes that a script runs to its end and that each host
process and each enclave which can move does; killing and commanding are never
forced. That a loader ends or connects stands for the deadline of 30 s,
after which the host kills it.

## 4. Proofs

`tlapm` checks every leaf of the eight proof modules. The theorems hold for every
value of the constants that the modules' assumptions admit: every `RETENTION >= 2`,
every set of clients, commands, nonces, measurements and faults, every number of
processes and failures, every bound.

* `KeyStoreProofs`: what `Rotate` does to a well-formed store (`RotateKeys`,
  `RotateWellFormed`, `RotateKeepsKeys`), where a version is found
  (`FindInWellFormed`, `CurrentInWellFormed`, `KeysOfWellFormed`), and which outcome
  `Decrypt` has for a version (`DecryptOutcome`).
* `RuntimeProofs`: `Invariance` shows `Spec => []IInv`. `SealedBeforeExposed`
  and `VersionNamesOneKey` are not inductive alone. `IInv` adds that the store
  in memory is the sealed one or one fresh key ahead of it, and only while the
  seal is being written (`MemoryFollowsSealed`); that stores are well-formed;
  that no exposed or sealed key is the one about to be sealed (`KeysGenerated`);
  and that an attestation under way names the current key
  (`AttestNamesCurrent`). The proof has a lemma per conjunct group (`TypeStep`,
  `MemoryStep`, `AttestStep`, `ExposureStep`, `WriteSealedStep`, `KeysStep`), each with one
  step per action. `TypeCorrect`, `ExposedKeysAreSealed`,
  `VersionsAreUnambiguous` and `ExposedKeysKeepDecrypting` follow from it.
  Its second part is about the files: `FilesAgreeWhenIdle` and `ComputationsAreAttested`. Beside `IInv` they need
  what the files hold between the calls (`FilesFollowMemory`: `keyring.json` shows the store
  from its write to the next rotation, `attestation.json` the attestation in hand or the last
  one), that a remembered time of attestation belongs to an attestation of this boot
  (`AttestedOnlyAfterBoot`), and that the current key has been sent
  (`CurrentIsPublished`). No assumption about the clock is made.
  Its third part is about `lost`, which the theorems on keys assume to be false.
  `KeysAreLostInKnownWays` says which steps can raise it: an end of the loader or a failing
  write in the middle of the write of `sealed_keys.bin`, and a bootstrap that was not shown
  the file or is that of another build. `KeysAreLostOnlyByFaults` follows: without these
  faults `KeysSurviveRestart` holds, so that findings 1 and 2 and a new build are all there
  is to it. The invariant is `BlobIsKept`: a bootstrap about to seal a new store found none it
  could open, unless reads fail. It was checked by TLC with the sets of faults it
  distinguishes first.
* `RuntimeRefinement`: `RuntimeImplementsLedger`, the safety refinement
  `Runtime => KeyLedger`, from `IInv`: writing the sealed file is `Advance`
  or `Destroy`, sending a frame is `Publish`, tearing the file is `Destroy`, all
  else stutters.

* `AttestationProofs`: `BindingInjective` shows that, for keys as HPKE takes them, the sequence
  hashed into REPORTDATA determines version, key and nonce: the length of such a key does not
  wrap (`KeyAssumption`, about `PublicKeys`: 65 bytes), so it delimits the key,
  and the nonce is the rest, whatever its length byte says. Nothing is assumed of `AnsweredKeys`,
  what a host may put in the place of the key. `EncryptedKeysAreAttested` is
  `Spec => []EncryptedIsAttested`: enclaves report keys, and a client encrypts to nothing that is
  none. `HonestAnswersAreAccepted` is
  `Spec => []HonestIsAccepted`, from the reason an answer was refused for (`Refuses`).

* `MuxProofs`: `OneConversation` is `Spec => []MuxInv`. `OneLegAtATime` is not inductive: that
  a read is dropped only when it took nothing rests on who may speak when. `MuxInv` (`Phase`)
  therefore lists the turns of a conversation: nothing under way, a request on its way, the
  enclave at work, a call or its result on its way, an announcement or a reply on its way, a
  leg closed; in each the pieces on both legs, the half-read frame and the frame the loop holds
  are determined. There is a lemma for each turn (`FromQuiet`, `FromRequested`, ...). `OneFrameForTheEnclave` (`MuxTypeOK`) and
  `DroppedReadsTookNothing` (`OneLegAtATime`) follow, and `MuxRelays` shows that every step is one of
  `Relay` or a stutter, which is why `TeeDemo` may use two channels for the loader. Its refinement
  mapping computes what is under way from the pieces on the legs and in the loop, and maps the
  histories of what the two ends have read to themselves; so each turn must show that what left the
  channel is what the other end read.
* `TeeDemoProofs`: the composition, by `TInvAlways` (`Spec => []TInv`). `TInv` is
  - `EnclaveInv`: `IInv` of `RuntimeProofs`, taken over through `INSTANCE`. The lemmas there are
    stated for a host that sends any frame (`Sendable`, `Reacts`), so that a step of `TeeDemo` is
    either one of those or leaves the enclave alone. `NothingForgotten` adds that a file that
    does not open never held a store, unless one was destroyed;
  - `Mutex`: a thread holds the lock from `lock()` to the end of its exchange, and knows by
    then what it asks;
  - `Conversation`: whose turn it is on the host leg (`Booting`, `Booted`, `Resting`, `Asked`,
    `Handled`, `Announced`, `Replied`, `Ended`), with the frames in both channels, the call the
    enclave is in and what the bundle names in each. `NeverMismatched`,
    `FramesAreNotDiscarded` and `BundleIsCurrent` are about single moments of it and are not
    inductive alone;
  - `Sessions`: what a client was told is still published, and what the serve loop has in
    hand is that client's. `CalcOutcome` needs it over the two connections of a calculation.

  The theorems are `HostTypes`, `NoMismatch`, `NothingDropped`, `BundleFollowsStore`, `CalculationsEnd`. The proof has
  a lemma for each kind of step and part. TLC checked `TInv` on two instances, with every fault
  and two measurements, before it was proved.
* `LifecycleProofs`: `LifecycleInvariant` is `Spec => []LInv`, with `LInv == Types /\ (Patient => Order)`
  and `Patient == Careful /\ "restart" \notin Commands`.
  `Types` holds for every operator; beside the types it says that processes are numbered
  in the order they were started, so that a new process has a free number. `Order` is what
  commands given at rest guarantee, and each part is needed for another: a process past its check of the
  paths is alone and no enclave but its own is left (`Alone`), because one that has its check before
  it would find the paths of whatever enclave there is (`Watched`); those were not removed,
  because no command of the scripts falls into a start (`Undisturbed`), and are there, because
  a serving process holds all three (`Whole`), got one by one (`Stages`) and over its own leg
  (`OwnLegs`). `InStep` says that the enclave at work has in memory what is in the file; with
  one enclave nobody else writes it. `LifecycleTypes` is a theorem for every operator;
  `EnclavesAreNeverTwo`, `ServicesAreWhole`, `ServedStoresAreSealed` and `StopsLeaveNothing` assume
  `Patient`. `EnclavesAreNeverTwo` and `ServedStoresAreSealed` are false with restart (finding 3);
  `ServiceIsWhole` and `StopLeavesNothing` hold with it as far as TLC can tell (the
  configuration of `MCLifecycleCareful` with restart and three host processes), but are not proved
  for it. A lemma per action shows what it keeps. TLC checked `LInv` on the instances of `MCLifecycleCareful` and
  `MCLifecycleHasty` first.

* `LayoutsProofs`: the loop of `decode` and `FlattenSeq` are recursive functions, and what
  they compute is found by induction. The library's induction theorems take an operator as a
  parameter; `SetInduction` states the same for a set of numbers, from the well-foundedness of
  `Nat`, and each induction below is an instance of it with the set of the numbers for which
  the claim holds. `FlattenExists` and `TurnsExist` show that the recursive functions exist,
  `FlattenMore` that a store's bytes grow key by key. `KeyIsRead` and `KeyIsThere` are the two
  directions for one key (a key in place is read, one without its end is refused; what is read
  stands there as `encode` writes it), over the arithmetic of the two bytes of a length
  (`LengthOfBytes`, `BytesOfLength`). `WholeOrCut` and `DecodedStands` carry them through the
  loop, `DecodeReads` sums up `decode`, for all stores of fewer keys than a byte counts and not
  only the one or two keys `new` and `rotate` make, and `UnsealReads` and `DecryptReads`
  do so for the layouts around it. `LayoutsInvariant` is `Spec => []LayoutsInv`: without
  damage the bytes are the written ones, with cuts alone a proper beginning of them.
  `ReadersNeverPanic`, `ReadersReadWholeOrNothing` and `DecodeMakesNothingUp` follow, for every
  `Base > 2`, keys of every length a `u16` holds, and every number of damages. TLC checked
  `LayoutsInv` on the instance of `MCLayouts` first.

The assumptions are those the modules declare: `RETENTION >= 2` (the literal
of `lookup`), the threshold and bounds are naturals, `Faults` is a set of the known
faults, nonces differ from the two special values, the nonce of a challenge (32 random
bytes) is not the shorter one the host uses for `pubkey`, the commands are those that exist, a byte
has more than two values, and the length of a key that HPKE takes fits a `u16` (the length of
what a host puts in its place need not).

Only model-checked is liveness under fairness (`EveryCommandEnds`, `AttestationGoesOn`,
`ExchangeEnds`, `StartSettles`, `OrphansEnd`, `StoppedMeansStopped`): `tlapm` has no support
for `ENABLED`. Every safety property of the passing runs is a theorem.

## 5. Findings

1. **A failing read looks like a first start** (`loader/src/main.rs:134`,
   `runtime/src/main.rs:205-210`). Run `MCRuntimeReadFault`.
2. **The sealed file is written in place** (`loader/src/main.rs:167`): a crash
   in the middle of the write loses all keys. Run `MCRuntimeTornWrite`.
3. **restart does not wait** (`daemon.sh:83-86`, `host/src/main.rs:904-919`): the next enclave may
   read the sealed file before the old one has sealed a rotation, and then serves clients with a key
   that no start after it will find. `test.sh:53`, which tests recovery, waits for the old process.
   Run `MCLifecycleRestart`.
4. **stop misses a service that is starting** (`host/src/main.rs:904`): without
   a pid file nobody is signalled, and the service comes up after "stopped". Run
   `MCLifecycleStopped`.

Seen while modelling, and without a run of their own:

* One failed quote ends the enclave (`runtime/src/main.rs:230, 275`), where the repository's `README.md:3, 67`
  say that it stays and waits for requests; nothing starts another one.
* Two starts are not told apart (`host/src/main.rs:646-651, 664-673`, `daemon.sh:35-38`): the
  pid file and the client socket that a start looks for are written after the bootstrap; a second
  start in between is not refused, removes the runtime socket of the first, and two enclaves work
  on one file. TLC finds it in `MCLifecycleRestart` with `Careful = FALSE`, `Commands = {"start"}` and
  `OneEnclave` as the invariant.
* `daemon.sh start` prints "started" whenever the pid file exists a second later
  (`daemon.sh:55`). After a serve was killed its pid file and client socket are left,
  the next start passes the pid check, the new serve refuses because of the socket
  (`host/src/main.rs:647`), and the dead process is reported as started.
* It prints "start failed" when the pid file is not there after that second
  (`daemon.sh:54`), while serve may take up to 30 s and a bootstrap to write it and
  comes up afterwards.
* A release build wraps in `x.pow(3) + 5 * y` (`runtime/src/main.rs:31`), from
  `x = 2097152` on, and the client prints an equation that does not hold; nothing refuses
  large inputs.

The safety properties about keys are stated for runs in which no sealed store
was destroyed (`~lost`). In `Runtime`, where one enclave runs at a time (two are the matter of
finding 3), 1 and 2 and starting another build are the only ways in which one is (`KeysAreLostInKnownWays`, `KeysAreLostOnlyByFaults`). `ComputeAfterAttestation` speaks of an attestation's age
by the enclave's clock, which is the host's: once it is set back, an attestation of any age
passes for fresh, and the enclave cannot tell.

## 6. Not modelled, and why

* Cryptography (AES-GCM, EGETKEY, HPKE, ECDSA quotes, collateral): external;
  modelled by outcome. `verify_mrenclave` and `enclave-runner`: a check before
  the start, without state afterwards.
* JSON and base64 formatting, logging, argument parsing, build scripts and the tests.
* `compute` and `parse_xy_json`: a formula and a scan of a plaintext that is `calc`'s own;
  abstracted to their outcome.
* `daemon.sh status` and `client.sh` read or pass on and change nothing; `pubkey`
  and `rotate` print what they got, and the local comparison `rotate` makes is left out.
* The end of `cmd_serve` after its accept loop: `incoming()` never ends, so the
  lines are not reached; a serve process ends by a signal.
* The reuse of a pid by the system (listed as a hazard).
* The 16 MiB limit of a frame: no frame of this program comes near it.
* `attest_sequence` restarts with every boot and `attestation.json` shows it; nothing in the
  repository reads it back or says what it should promise.

## 7. Plan

Done, in this order: `KeyStore`, `Runtime`, `KeyLedger`, the invariance and
refinement proofs, `Host`, `TeeDemo`, `Mux` with `Relay`, `Lifecycle`, `Attestation`
with its proofs, `Layouts`, silent and malformed clients in `Host`; then the proofs about
`Mux`, `TeeDemo`, `Lifecycle` and `Layouts`.

Left to TLC: liveness, and the runs that expect a violation.
