------------------------------ MODULE Lifecycle ------------------------------
(***************************************************************************)
(* The service as its operator handles it: daemon.sh runs host processes   *)
(* (serve, stop, attest), each host process spawns a loader with an        *)
(* enclave, and all of them meet in a pid file, two socket paths and the   *)
(* sealed key file.  A path names the process that bound it last, alive or *)
(* not.  Loader l is the child of host process l; its host leg goes to     *)
(* whichever process listens behind the runtime socket path.               *)
(***************************************************************************)
EXTENDS Integers, Sequences, FiniteSets, Functions

CONSTANTS
  MaxProcs,    \* bound: host processes started over a behaviour
  MaxFailures, \* bound: processes killed from outside
  MaxKeys,     \* bound: no rotation is asked for once there are so many keys
  Commands,    \* the operator's commands
  Careful      \* the operator gives a command at rest only

ASSUME LifecycleAssumption ==
  /\ MaxProcs \in Nat \ {0} /\ MaxFailures \in Nat /\ MaxKeys \in Nat \ {0}
  /\ Commands \subseteq {"start", "stop", "restart", "attest"}
  /\ Careful \in BOOLEAN

None == 0
Empty == -1   \* what the pid file names between truncation and write
Procs == 1..MaxProcs

VARIABLES
  pidFile,     \* the process the pid file names
  clientSock,  \* the process that bound the client socket path
  runtimeSock, \* the process that bound the runtime socket path
  sealed,      \* the newest key in sealed_keys.bin
  made,        \* keys generated so far
  host, job,   \* control state and command of each host process
  peer,        \* the loader at the other end of the host leg
  backlog,     \* connections waiting at the runtime listener
  signalled,   \* processes sent SIGTERM
  loader,      \* control state of each loader and its enclave
  store,       \* the current key of each enclave
  script,      \* what daemon.sh does next
  again,       \* the stop under way is the first half of a restart
  said,        \* what daemon.sh printed last
  failures     \* processes killed from outside so far

files == <<pidFile, clientSock, runtimeSock>>
keyVars == <<sealed, made, store>>
hostVars == <<host, job, peer, backlog>>
shellVars == <<signalled, script, again, said>>
vars == <<files, keyVars, hostVars, shellVars, loader, failures>>

Alive(p) == p \in Procs /\ host[p] \notin {"unborn", "dead"}
Working == {"boot", "fresh", "up", "rotating"}
Gone == {"unborn", "failed", "ended"}

(* The listener behind the runtime socket is a local of start(). *)
Listening(q) == q \in Procs /\ host[q] \in {"accept", "ready"}
Connected(l) == \E q \in Procs : peer[q] = l \/ l \in Range(backlog[q])

AtRest ==
  /\ \A p \in Procs : host[p] \in {"unborn", "up", "dead"} /\ ~(p \in signalled /\ Alive(p))
  /\ \A l \in Procs : loader[l] \in Gone \/ (loader[l] = "up" /\ Connected(l))

Init ==
  /\ pidFile = None /\ clientSock = None /\ runtimeSock = None
  /\ sealed = None /\ made = 0 /\ store = [l \in Procs |-> None]
  /\ host = [p \in Procs |-> "unborn"] /\ job = [p \in Procs |-> "serve"]
  /\ peer = [p \in Procs |-> None] /\ backlog = [p \in Procs |-> <<>>]
  /\ signalled = {} /\ loader = [l \in Procs |-> "unborn"]
  /\ script = "idle" /\ again = FALSE /\ said = "nothing" /\ failures = 0

-----------------------------------------------------------------------------
(* A host process: cmd_serve and cmd_attest around RuntimeConnection::start *)

Goto(p, pc) == host' = [host EXCEPT ![p] = pc]

(* The process is gone: its listener, its queue and its leg are closed, its
   child and every file stay. *)
Exit(p) ==
  /\ Goto(p, "dead")
  /\ peer' = [peer EXCEPT ![p] = None]
  /\ backlog' = [backlog EXCEPT ![p] = <<>>]
  /\ UNCHANGED job

(* Mutant: attest ignores the socket of a running serve. *)
AttestUnchecked(p) == job[p] = "serve" => clientSock = None

MayStart(p) == IF job[p] = "serve" THEN clientSock = None ELSE runtimeSock = None

Check(p) ==
  /\ host[p] = "check"
  /\ IF MayStart(p) THEN Goto(p, "unlink") /\ UNCHANGED <<job, peer, backlog>> ELSE Exit(p)
  /\ UNCHANGED <<files, keyVars, shellVars, loader, failures>>

Unlink(p) ==
  /\ host[p] = "unlink"
  /\ runtimeSock' = None
  /\ Goto(p, "bind")
  /\ UNCHANGED <<pidFile, clientSock, keyVars, job, peer, backlog, shellVars, loader, failures>>

(* bind fails on a path that exists; the loader, or its wrapper, is spawned
   next. *)
BindRuntime(p) ==
  /\ host[p] = "bind"
  /\ IF runtimeSock = None
     THEN /\ runtimeSock' = p
          /\ Goto(p, "accept")
          /\ loader' = [loader EXCEPT ![p] = "loading"]
          /\ UNCHANGED <<job, peer, backlog>>
     ELSE Exit(p) /\ UNCHANGED <<runtimeSock, loader>>
  /\ UNCHANGED <<pidFile, clientSock, keyVars, shellVars, failures>>

(* The loader or its wrapper cannot be spawned: the path stays bound. *)
SpawnFails(p) ==
  /\ host[p] = "bind" /\ runtimeSock = None
  /\ runtimeSock' = p
  /\ Exit(p)
  /\ UNCHANGED <<pidFile, clientSock, keyVars, shellVars, loader, failures>>

(* Whoever connects first is taken for the child. *)
AcceptLeg(p) ==
  /\ host[p] = "accept" /\ backlog[p] # <<>>
  /\ peer' = [peer EXCEPT ![p] = Head(backlog[p])]
  /\ backlog' = [backlog EXCEPT ![p] = Tail(@)]
  /\ Goto(p, "ready")
  /\ UNCHANGED <<job, files, keyVars, shellVars, loader, failures>>

LoaderExitedEarly(p) ==
  /\ host[p] = "accept" /\ backlog[p] = <<>> /\ loader[p] \in Gone
  /\ Exit(p)
  /\ UNCHANGED <<files, keyVars, shellVars, loader, failures>>

Killed(l) == [loader EXCEPT ![l] = CASE @ \in {"loading", "boot", "fresh"} -> "failed"
                                     [] @ \in {"up", "rotating"} -> "ended"
                                     [] OTHER -> @]

(* Mutant: the accept loop has no deadline. *)
NoDeadline(p) == FALSE

DeadlinePassed(p) == host[p] = "accept" /\ backlog[p] = <<>> /\ loader[p] \notin Gone

ConnectTimeout(p) ==
  /\ DeadlinePassed(p)
  /\ loader' = Killed(p)
  /\ Exit(p)
  /\ UNCHANGED <<files, keyVars, shellVars, failures>>

(* Mutant: the listener outlives start. *)
ListenerKept(p) == backlog

ListenerDropped(p) == [backlog EXCEPT ![p] = <<>>]

(* host.Ready arrives, perhaps from an enclave that ended meanwhile; start
   returns and drops the listener with the connections queued at it. *)
ReadReady(p) ==
  /\ host[p] = "ready" /\ loader[peer[p]] \in {"up", "rotating", "ended"}
  /\ Goto(p, IF job[p] = "serve" THEN "write_pid" ELSE "attest")
  /\ backlog' = ListenerDropped(p)
  /\ UNCHANGED <<job, peer, files, keyVars, shellVars, loader, failures>>

NoReady(p) ==
  /\ host[p] = "ready" /\ loader[peer[p]] \in Gone
  /\ Exit(p)
  /\ UNCHANGED <<files, keyVars, shellVars, loader, failures>>

(* fs::write truncates the file and then writes it. *)
TruncatePid(p) ==
  /\ host[p] = "write_pid"
  /\ pidFile' = Empty
  /\ Goto(p, "fill_pid")
  /\ UNCHANGED <<clientSock, runtimeSock, keyVars, job, peer, backlog, shellVars, loader, failures>>

WritePid(p) ==
  /\ host[p] = "fill_pid"
  /\ pidFile' = p
  /\ Goto(p, "bind_client")
  /\ UNCHANGED <<clientSock, runtimeSock, keyVars, job, peer, backlog, shellVars, loader, failures>>

BindClient(p) ==
  /\ host[p] = "bind_client"
  /\ IF clientSock = None
     THEN clientSock' = p /\ Goto(p, "up") /\ UNCHANGED <<job, peer, backlog>>
     ELSE Exit(p) /\ UNCHANGED clientSock
  /\ UNCHANGED <<pidFile, runtimeSock, keyVars, shellVars, loader, failures>>

(* The attestation succeeds: shutdown kills the own child and reaps it. *)
Attested(p) ==
  /\ host[p] = "attest" /\ loader[peer[p]] = "up"
  /\ loader' = Killed(p)
  /\ Goto(p, "remove")
  /\ UNCHANGED <<files, keyVars, job, peer, backlog, shellVars, failures>>

(* The exchange or the verification fails: child and socket path stay. *)
AttestFails(p) ==
  /\ host[p] = "attest"
  /\ Exit(p)
  /\ UNCHANGED <<files, keyVars, shellVars, loader, failures>>

RemoveRuntimeSock(p) ==
  /\ host[p] = "remove"
  /\ runtimeSock' = None
  /\ Exit(p)
  /\ UNCHANGED <<pidFile, clientSock, keyVars, shellVars, loader, failures>>

Terminate(p) ==
  /\ p \in signalled /\ Alive(p)
  /\ Exit(p)
  /\ UNCHANGED <<files, keyVars, shellVars, loader, failures>>

HostStep(p) ==
  \/ Check(p) \/ Unlink(p) \/ BindRuntime(p) \/ SpawnFails(p) \/ AcceptLeg(p)
  \/ LoaderExitedEarly(p)
  \/ ConnectTimeout(p) \/ ReadReady(p) \/ NoReady(p) \/ TruncatePid(p) \/ WritePid(p) \/ BindClient(p)
  \/ Attested(p) \/ AttestFails(p) \/ RemoveRuntimeSock(p) \/ Terminate(p)

-----------------------------------------------------------------------------
(* A loader and its enclave *)

(* The enclave connects to "worker-host": the loader connects to the path,
   whoever is behind it; without a listener the enclave ends. *)
ConnectStream(l) ==
  /\ loader[l] = "loading"
  /\ IF Listening(runtimeSock)
     THEN /\ backlog' = [backlog EXCEPT ![runtimeSock] = Append(@, l)]
          /\ loader' = [loader EXCEPT ![l] = "boot"]
     ELSE loader' = [loader EXCEPT ![l] = "failed"] /\ UNCHANGED backlog
  /\ UNCHANGED <<files, keyVars, host, job, peer, shellVars, failures>>

(* bootstrap_store reads the sealed file through the loader, which needs no
   host for it, so that a queued or an abandoned enclave gets this far too. *)
BootRead(l) ==
  /\ loader[l] = "boot"
  /\ store' = [store EXCEPT ![l] = sealed]
  /\ loader' = [loader EXCEPT ![l] = IF sealed = None THEN "fresh" ELSE "up"]
  /\ UNCHANGED <<files, sealed, made, hostVars, shellVars, failures>>

Generate(l) ==
  /\ made' = made + 1
  /\ sealed' = made + 1
  /\ store' = [store EXCEPT ![l] = made + 1]
  /\ loader' = [loader EXCEPT ![l] = "up"]
  /\ UNCHANGED <<files, hostVars, shellVars, failures>>

BootNewStore(l) == loader[l] = "fresh" /\ Generate(l)

(* A client reached a serving host and asks its enclave to rotate. *)
RotateRequest(l) ==
  /\ loader[l] = "up" /\ made < MaxKeys
  /\ \E p \in Procs : host[p] = "up" /\ peer[p] = l /\ clientSock = p
  /\ loader' = [loader EXCEPT ![l] = "rotating"]
  /\ UNCHANGED <<files, keyVars, hostVars, shellVars, failures>>

RotateAndSeal(l) == loader[l] = "rotating" /\ Generate(l)

(* Mutant: an enclave outlives its host leg. *)
LegOutlivesHost(l) == FALSE

LegGone(l) == ~Connected(l)

(* The multiplexer reads the end of the host leg and takes the enclave with
   it; what the enclave was about to do may still come first. *)
EnclaveEnds(l) ==
  /\ loader[l] \in Working /\ LegGone(l)
  /\ loader' = Killed(l)
  /\ UNCHANGED <<files, keyVars, hostVars, shellVars, failures>>

LoaderStep(l) ==
  \/ ConnectStream(l) \/ BootRead(l) \/ BootNewStore(l)
  \/ RotateAndSeal(l) \/ EnclaveEnds(l)

-----------------------------------------------------------------------------
(* daemon.sh, one command at a time, and the operator *)

Say(next, words) == script' = next /\ said' = words

NextProc == 1 + Cardinality({p \in Procs : host[p] # "unborn"})

Spawn(command) ==
  /\ NextProc \in Procs
  /\ host' = [host EXCEPT ![NextProc] = "check"]
  /\ job' = [job EXCEPT ![NextProc] = command]
  /\ UNCHANGED <<peer, backlog>>

StartCheck ==
  /\ script = "check"
  /\ IF Alive(pidFile) THEN Say("idle", "running") ELSE Say("spawn", "nothing")
  /\ UNCHANGED <<files, keyVars, hostVars, signalled, again, loader, failures>>

(* The builds run before the process is started. *)
StartSpawn ==
  /\ script = "spawn"
  /\ Spawn("serve")
  /\ Say("sleep", "nothing")
  /\ UNCHANGED <<files, keyVars, signalled, again, loader, failures>>

StartReport ==
  /\ script = "sleep"
  /\ Say("idle", IF pidFile # None THEN "started" ELSE "failed")
  /\ UNCHANGED <<files, keyVars, hostVars, signalled, again, loader, failures>>

(* Mutant: stop takes every process for dead. *)
NeverRunning(p) == FALSE

IsRunning(p) == Alive(p)

StopKill ==
  /\ script = "kill" /\ pidFile # Empty
  /\ signalled' = IF IsRunning(pidFile) THEN signalled \cup {pidFile} ELSE signalled
  /\ Say(IF pidFile = None THEN "rm_client" ELSE "rm_pid", "nothing")
  /\ UNCHANGED <<files, keyVars, hostVars, again, loader, failures>>

(* Mutant: stop removes a socket path only of a process it signalled. *)
OwnPathsOnly(sock) == IF sock \in signalled THEN None ELSE sock

PathRemoved(sock) == None

(* read_pid fails: the command ends with an error and nothing is removed; a
   restart goes on to the start. *)
StopFails ==
  /\ script = "kill" /\ pidFile = Empty
  /\ Say(IF again THEN "check" ELSE "idle", "nothing")
  /\ again' = FALSE
  /\ UNCHANGED <<files, keyVars, hostVars, signalled, loader, failures>>

StopRemovePid ==
  /\ script = "rm_pid"
  /\ pidFile' = None
  /\ Say("rm_client", "nothing")
  /\ UNCHANGED <<clientSock, runtimeSock, keyVars, hostVars, signalled, again, loader, failures>>

StopRemoveClient ==
  /\ script = "rm_client"
  /\ clientSock' = PathRemoved(clientSock)
  /\ Say("rm_runtime", "nothing")
  /\ UNCHANGED <<pidFile, runtimeSock, keyVars, hostVars, signalled, again, loader, failures>>

StopRemoveRuntime ==
  /\ script = "rm_runtime"
  /\ runtimeSock' = PathRemoved(runtimeSock)
  /\ Say(IF again THEN "check" ELSE "idle", "stopped")
  /\ again' = FALSE
  /\ UNCHANGED <<pidFile, clientSock, keyVars, hostVars, signalled, loader, failures>>

ScriptStep ==
  \/ StartCheck \/ StartSpawn \/ StartReport
  \/ StopKill \/ StopFails \/ StopRemovePid \/ StopRemoveClient \/ StopRemoveRuntime

Command(c) ==
  /\ script = "idle" /\ c \in Commands /\ (Careful => AtRest)
  /\ c # "stop" => NextProc \in Procs
  /\ Say(IF c = "start" THEN "check" ELSE "kill", "nothing")
  /\ again' = (c = "restart")
  /\ UNCHANGED <<files, keyVars, hostVars, signalled, loader, failures>>

(* host attest runs beside the scripts, from a terminal of its own. *)
AttestCommand ==
  /\ script = "idle" /\ "attest" \in Commands /\ (Careful => AtRest)
  /\ Spawn("attest")
  /\ said' = "nothing"
  /\ UNCHANGED <<files, keyVars, signalled, script, again, loader, failures>>

Operate == AttestCommand \/ \E c \in {"start", "stop", "restart"} : Command(c)

HostKilled(p) ==
  /\ failures < MaxFailures /\ Alive(p)
  /\ failures' = failures + 1
  /\ Exit(p)
  /\ UNCHANGED <<files, keyVars, shellVars, loader>>

LoaderKilled(l) ==
  /\ failures < MaxFailures /\ loader[l] \notin Gone
  /\ failures' = failures + 1
  /\ loader' = Killed(l)
  /\ UNCHANGED <<files, keyVars, hostVars, shellVars>>

Next ==
  \/ Operate \/ ScriptStep
  \/ \E p \in Procs :
       HostStep(p) \/ LoaderStep(p) \/ RotateRequest(p) \/ HostKilled(p) \/ LoaderKilled(p)

Spec == Init /\ [][Next]_vars

(* A script runs to its end, processes and enclaves that can move do; what
   comes from outside, commands and kills, is never forced. *)
Fairness ==
  /\ WF_vars(ScriptStep)
  /\ \A p \in Procs : WF_vars(HostStep(p)) /\ WF_vars(LoaderStep(p))

FairSpec == Spec /\ Fairness
-----------------------------------------------------------------------------
(* Every variable has its type: paths name processes that exist, a host leg
   leads to a loader that was spawned. *)
LifecycleTypeOK ==
  /\ \A f \in {pidFile, clientSock, runtimeSock} :
       f = None \/ (f = Empty /\ f = pidFile) \/ host[f] # "unborn"
  /\ host \in [Procs -> {"unborn", "check", "unlink", "bind", "accept", "ready", "write_pid",
                       "fill_pid", "bind_client", "up", "attest", "remove", "dead"}]
  /\ job \in [Procs -> {"serve", "attest"}]
  /\ \A p \in Procs : /\ peer[p] = None \/ loader[peer[p]] # "unborn"
                      /\ \A l \in Range(backlog[p]) : l \in Procs /\ Listening(p)
  /\ signalled \subseteq Procs
  /\ loader \in [Procs -> {"unborn", "loading"} \cup Working \cup Gone]
  /\ {sealed} \cup {store[l] : l \in Procs} \subseteq 0..made
  /\ script \in {"idle", "check", "spawn", "sleep", "kill", "rm_pid", "rm_client", "rm_runtime"}
  /\ again \in BOOLEAN
  /\ said \in {"nothing", "running", "started", "failed", "stopped"}
  /\ failures \in 0..MaxFailures

(* No two enclaves ever work on the data directory at the same time, whatever
   was killed and left behind before: the checks of the two socket paths in
   serve and attest, the pid check of daemon.sh and the end of an enclave with
   its host are there for that (host/src/main.rs:646-651, 874-881,
   daemon.sh:35-38).  They do it as long as commands are given at rest and none
   of them is restart. *)
OneEnclave == \A k, l \in Procs : loader[k] \in Working /\ loader[l] \in Working => k = l

(* While no script runs, a serving process that was not told to end is the
   one the pid file names and the one behind both sockets, and it talks to the
   enclave it spawned: stop can end it, clients reach it, attest is refused. *)
ServiceIsWhole ==
  script = "idle" => \A p \in Procs \ signalled : host[p] = "up" =>
    pidFile = p /\ clientSock = p /\ runtimeSock = p /\ peer[p] = p

(* The enclave of a serving process that was not told to end holds the key in
   sealed_keys.bin, so that what is encrypted to it can be opened after the
   next start: no second enclave wrote the file behind its back.  A restart
   starts the next enclave while the old one may still be about to seal
   (daemon.sh:83-86). *)
ServedKeysAreSealed ==
  \A p \in Procs \ signalled :
    host[p] = "up" /\ loader[peer[p]] = "up" => store[peer[p]] = sealed

(* When stop has said so no path is left that could refuse the next start,
   of whatever serve, attest or crash it was, and every process that still
   runs is on its way out: none was missed because the pid file named
   another. *)
StopLeavesNothing ==
  said = "stopped" =>
    /\ pidFile = None /\ clientSock = None /\ runtimeSock = None
    /\ \A p \in Procs : Alive(p) => p \in signalled

(* A start comes to an end: the process serves or it is gone, also when its
   loader ended, never connected, or connected to another process. *)
StartSettles ==
  \A p \in Procs : (host[p] = "check") ~> (host[p] \in {"up", "dead"})

(* An enclave without a living host ends, and one that is queued behind a
   leg another enclave got does too. *)
OrphansEnd ==
  \A l \in Procs : (loader[l] \in Working /\ ~\E p \in Procs : peer[p] = l /\ Alive(p))
    ~> (loader[l] \in Gone \/ \E p \in Procs : peer[p] = l /\ Alive(p))

(* When stop has said so, the service is stopped: unless another command is
   given, every host process and every enclave is gone in the end. *)
StoppedMeansStopped ==
  (said = "stopped") ~> (said # "stopped" \/ \A p \in Procs : ~Alive(p) /\ loader[p] \in Gone)
=============================================================================
