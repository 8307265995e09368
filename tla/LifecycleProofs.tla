--------------------------- MODULE LifecycleProofs ---------------------------
(***************************************************************************)
(* What is proved about the service as its operator handles it: for every  *)
(* operator that the paths name processes that were started; for one who   *)
(* starts, stops and attests, each command at rest, that enclaves never    *)
(* work side by side, that the service is whole, that what it serves with  *)
(* is what was sealed and that stop leaves nothing.  The operator waits,   *)
(* the scripts do not; restart is two commands without a rest between      *)
(* them, and with it the first and the third of these fail.                *)
(***************************************************************************)
EXTENDS Lifecycle, FiniteSetTheorems, TLAPS

(* The control states a host process goes through once its check of the
   paths has passed. *)
Entering == {"unlink", "bind", "accept", "ready", "write_pid", "fill_pid", "bind_client"}
Inside == Entering \cup {"up", "attest", "remove"}

(* What becomes of a loader whose enclave is made to end: a start that fails
   or a service that ends. *)
EndOf(state) == IF state \in {"loading", "boot", "fresh"} THEN "failed"
                ELSE IF state \in {"up", "rotating"} THEN "ended" ELSE state

(* The host leg is up in these. *)
Joined == {"ready", "write_pid", "fill_pid", "bind_client", "up", "attest", "remove"}

Started == {p \in Procs : host[p] # "unborn"}

(* The processes are numbered in the order they were started. *)
InOrder == \E n \in 0..MaxProcs : Started = 1..n

-----------------------------------------------------------------------------
(* The types, with what LifecycleTypeOK leaves to the reader *)

PathsTyped ==
  /\ pidFile \in {None, Empty} \cup Started
  /\ {clientSock, runtimeSock} \subseteq {None} \cup Started
  /\ signalled \subseteq Started

HostsTyped ==
  /\ host \in [Procs -> {"unborn", "check"} \cup Inside \cup {"dead"}]
  /\ job \in [Procs -> {"serve", "attest"}]

(* Legs and queues hold loaders that were spawned. *)
Spawned == {l \in Procs : loader[l] # "unborn"}

LegsTyped ==
  /\ peer \in [Procs -> {None} \cup Spawned]
  /\ backlog \in [Procs -> Seq(Spawned)]
  /\ \A p \in Procs : /\ backlog[p] # <<>> => Listening(p)
                      /\ host[p] \in Joined => peer[p] # None

LoadersTyped == loader \in [Procs -> {"unborn", "loading"} \cup Working \cup Gone]

KeysTyped ==
  /\ made \in Nat /\ sealed \in 0..made /\ store \in [Procs -> 0..made]

ShellTyped ==
  /\ script \in {"idle", "check", "spawn", "sleep", "kill", "rm_pid", "rm_client", "rm_runtime"}
  /\ again \in BOOLEAN
  /\ said \in {"nothing", "running", "started", "failed", "stopped"}
  /\ failures \in 0..MaxFailures

Types ==
  PathsTyped /\ HostsTyped /\ InOrder /\ LegsTyped /\ LoadersTyped /\ KeysTyped /\ ShellTyped

-----------------------------------------------------------------------------
(* What the operator makes sure of who gives every command at rest, and stops
   and starts the service instead of restarting it *)

Patient == Careful /\ "restart" \notin Commands

(* A process past its check is alone, and no enclave but its own is left. *)
Alone ==
  /\ \A p \in Procs : host[p] \in Inside =>
       \A q \in Procs \ {p} : host[q] \notin Inside /\ loader[q] \in Gone
  /\ \A k, l \in Procs : loader[k] \notin Gone /\ loader[l] \notin Gone => k = l

(* A process that still has its check before it finds the paths of whatever
   enclave there is, served or abandoned. *)
Watched ==
  \A p \in Procs : host[p] = "check" =>
    /\ \A q \in Procs \ {p} :
         host[q] \in {"unborn", "dead"} \/ (host[q] = "up" /\ q \notin signalled)
    /\ \A l \in Procs : loader[l] \notin Gone => clientSock = l /\ runtimeSock = l

(* No command of the scripts falls into a start. *)
Undisturbed ==
  \A p \in Procs : host[p] \in {"check", "attest", "remove"} \cup Entering =>
    script \in {"sleep", "idle"} /\ p \notin signalled

(* How far a starting process has come with the paths and its own loader. *)
Stages ==
  \A p \in Procs :
    /\ host[p] \in {"unborn", "check", "unlink", "bind"} => loader[p] = "unborn"
    /\ host[p] \in Entering /\ job[p] = "serve" => clientSock = None
    /\ host[p] \in {"ready", "write_pid", "fill_pid", "bind_client"} => runtimeSock = p
    /\ host[p] = "accept" => runtimeSock = p
    /\ host[p] \in {"write_pid", "fill_pid", "bind_client"} => job[p] = "serve"
    /\ host[p] = "bind_client" => pidFile = p

(* Every leg is the one between a process and its own loader. *)
OwnLegs ==
  \A p \in Procs :
    /\ peer[p] # None => peer[p] = p /\ host[p] \in Joined /\ loader[p] # "loading"
    /\ backlog[p] # <<>> => backlog[p] = <<p>> /\ host[p] = "accept" /\ loader[p] # "loading"

(* A serving process that was not told to end holds all three paths. *)
Whole ==
  \A p \in Procs : host[p] = "up" /\ p \notin signalled =>
    /\ pidFile = p /\ clientSock = p /\ runtimeSock = p
    /\ script \notin {"rm_pid", "rm_client", "rm_runtime"}

(* The enclave at work has in memory what is in the file. *)
InStep == \A l \in Procs : loader[l] \in {"up", "rotating"} => store[l] = sealed

(* From the command to the start of the process nothing is under way but a
   service that is whole. *)
Quiet ==
  script \in {"check", "spawn"} =>
    /\ \A q \in Procs : host[q] \in {"unborn", "dead"} \/ (host[q] = "up" /\ q \notin signalled)
    /\ \A l \in Procs : loader[l] \notin Gone => clientSock = l /\ runtimeSock = l

(* What stop has removed stays removed. *)
Cleared ==
  /\ script \in {"rm_client", "rm_runtime"} => pidFile = None
  /\ script = "rm_runtime" => clientSock = None
  /\ said = "stopped" =>
       /\ script = "idle" /\ pidFile = None /\ clientSock = None /\ runtimeSock = None
       /\ \A p \in Procs : host[p] \in {"unborn", "up", "dead"}

Calm == again = FALSE /\ Quiet /\ Cleared

Order ==
  Alone /\ Watched /\ Undisturbed /\ Stages /\ OwnLegs /\ Whole /\ InStep /\ Calm

LInv == Types /\ (Patient => Order)

(* A queue of some loaders is a queue of more of them. *)
LEMMA QueuesGrow ==
  ASSUME NEW S, NEW T, S \subseteq T, NEW Q, NEW f \in [Q -> Seq(S)]
  PROVE  f \in [Q -> Seq(T)]
<1>1. \A q \in Q : f[q] \in Seq(S)
  OBVIOUS
<1>2. \A s \in Seq(S) : s \in Seq(T)
  OBVIOUS
<1> QED  BY <1>1, <1>2

(* A process that is gone leaves its paths and its enclave as they are. *)
LEMMA ExitKeeps ==
  ASSUME LInv, NEW p \in Procs, Alive(p), Exit(p), failures' \in 0..MaxFailures,
         UNCHANGED <<files, keyVars, loader, signalled, script, again, said>>
  PROVE  LInv'
<1> USE LifecycleAssumption DEF None, Empty, Procs, LInv, Types, Order
<1>1. /\ host[p] \notin {"unborn", "dead"}
      /\ failures' \in 0..MaxFailures
      /\ \A q \in Procs : host'[q] = IF q = p THEN "dead" ELSE host[q]
      /\ \A q \in Procs : peer'[q] = IF q = p THEN None ELSE peer[q]
      /\ \A q \in Procs : backlog'[q] = IF q = p THEN <<>> ELSE backlog[q]
  BY DEF Alive, Exit, Goto, HostsTyped, LegsTyped, LoadersTyped, KeysTyped
<1>2. UNCHANGED <<pidFile, clientSock, runtimeSock, sealed, made, job, signalled, loader, store,
                  script, again, said>>
  BY DEF Alive, Exit, Goto, files, keyVars, hostVars, shellVars
<1>3. Started' = Started
  BY <1>1 DEF Started
<1>4. PathsTyped'
  BY <1>1, <1>2, <1>3 DEF PathsTyped, Started
<1>5. HostsTyped'
  BY <1>1, <1>2 DEF HostsTyped, Inside, Entering, Alive, Exit, Goto, Working, Gone
<1>6. InOrder'
  BY <1>3 DEF InOrder
<1>7. LegsTyped'
  <2>1. Spawned' = Spawned
    BY <1>2 DEF Spawned
  <2>2. peer' \in [Procs -> {None} \cup Spawned']
    BY <1>1, <1>2, <2>1 DEF LegsTyped, Alive, Exit, Goto, Spawned
  <2>3. backlog' \in [Procs -> Seq(Spawned)]
    BY <1>1, <1>2 DEF LegsTyped, Alive, Exit, Goto, Spawned
  <2>4. \A q \in Procs : /\ backlog'[q] # <<>> => Listening(q)'
                         /\ host'[q] \in Joined => peer'[q] # None
    BY <1>1, <1>2 DEF LegsTyped, Listening, Joined
  <2> QED  BY <2>1, <2>2, <2>3, <2>4 DEF LegsTyped, Listening
<1>8. ShellTyped'
  BY <1>1, <1>2 DEF ShellTyped
<1>9. LoadersTyped' /\ KeysTyped'
  BY <1>2 DEF LoadersTyped, KeysTyped, Working, Gone
<1>10. ASSUME Patient PROVE Order'
  <2>1. Alone'
    BY <1>1, <1>2, <1>10 DEF Alone, Watched, Stages, Entering, Inside, Gone
  <2>2. Watched'
    BY <1>1, <1>2, <1>10 DEF Watched, Alone, Entering, Inside, Gone
  <2>3. Undisturbed'
    BY <1>1, <1>2, <1>10 DEF Undisturbed, Entering
  <2>4. Stages'
    BY <1>1, <1>2, <1>10 DEF Stages, Alone, Watched, Entering, Inside, Gone
  <2>5. OwnLegs'
    BY <1>1, <1>2, <1>10 DEF OwnLegs, Joined
  <2>6. Whole'
    BY <1>1, <1>2, <1>10 DEF Whole, Alone, Watched, Stages, Entering, Inside, Gone
  <2>7. InStep'
    BY <1>2, <1>10 DEF InStep
  <2>8. Calm'
    BY <1>1, <1>2, <1>10 DEF Calm, Quiet, Cleared, Watched, Undisturbed, Entering, Inside, Gone
  <2> QED  BY <2>1, <2>2, <2>3, <2>4, <2>5, <2>6, <2>7, <2>8
<1> QED  BY <1>3, <1>4, <1>5, <1>6, <1>7, <1>8, <1>9, <1>10

(* An enclave that ends leaves everything else as it is. *)
LEMMA KilledKeeps ==
  ASSUME LInv, NEW p \in Procs, loader' = Killed(p), failures' \in 0..MaxFailures,
         UNCHANGED <<files, keyVars, hostVars, shellVars>>
  PROVE  LInv'
<1> USE LifecycleAssumption DEF None, Empty, Procs, LInv, Types, Order, EndOf
<1>1. /\ failures' \in 0..MaxFailures
      /\ \A q \in Procs : loader'[q] = IF q = p THEN EndOf(loader[p]) ELSE loader[q]
  BY DEF Killed, HostsTyped, LegsTyped, LoadersTyped, KeysTyped
<1>2. UNCHANGED <<pidFile, clientSock, runtimeSock, sealed, made, host, job, peer, backlog,
                  signalled, store, script, again, said>>
  BY DEF Killed, files, keyVars, hostVars, shellVars
<1>3. LegsTyped'
  <2>1. Spawned \subseteq Spawned'
    BY <1>1, <1>2 DEF Spawned
  <2>2. peer' \in [Procs -> {None} \cup Spawned']
    BY <1>2, <2>1 DEF LegsTyped
  <2>3. backlog' \in [Procs -> Seq(Spawned)]
    BY <1>2 DEF LegsTyped
  <2>4. backlog' \in [Procs -> Seq(Spawned')]
    BY <2>1, <2>3, QueuesGrow
  <2>5. \A q \in Procs : /\ backlog'[q] # <<>> => Listening(q)'
                         /\ host'[q] \in Joined => peer'[q] # None
    BY <1>2 DEF LegsTyped, Listening, Joined
  <2> QED  BY <2>1, <2>2, <2>3, <2>4, <2>5 DEF LegsTyped, Listening
<1>4. LoadersTyped'
  BY <1>1, <1>2 DEF LoadersTyped, Working, Gone, Killed, Inside, Entering
<1>5. ShellTyped'
  BY <1>1, <1>2 DEF ShellTyped
<1>6. PathsTyped' /\ HostsTyped' /\ InOrder' /\ KeysTyped'
  BY <1>2 DEF PathsTyped, HostsTyped, InOrder, KeysTyped, Started, Inside, Entering
<1>7. ASSUME Patient PROVE Order'
  <2>1. Alone'
    BY <1>1, <1>2, <1>7 DEF Alone, Watched, Stages, Entering, Inside, Gone
  <2>2. Watched'
    BY <1>1, <1>2, <1>7 DEF Watched, Alone, Entering, Inside, Gone
  <2>3. Stages'
    BY <1>1, <1>2, <1>7 DEF Stages, Alone, Watched, Entering, Inside, Gone
  <2>4. OwnLegs'
    BY <1>1, <1>2, <1>7 DEF OwnLegs, Joined
  <2>5. InStep'
    BY <1>1, <1>2, <1>7 DEF InStep
  <2>6. Undisturbed' /\ Whole'
    BY <1>2, <1>7 DEF Undisturbed, Whole, Entering
  <2>7. Calm'
    BY <1>1, <1>2, <1>7 DEF Calm, Quiet, Cleared, Watched, Undisturbed, Entering, Inside, Gone
  <2> QED  BY <2>1, <2>2, <2>3, <2>4, <2>5, <2>6, <2>7
<1> QED  BY <1>3, <1>4, <1>5, <1>6, <1>7

(* A check that passes finds no service and no enclave. *)
LEMMA CheckKeeps ==
  ASSUME LInv, NEW p \in Procs, host[p] = "check", MayStart(p), Goto(p, "unlink"),
         UNCHANGED <<files, keyVars, job, peer, backlog, shellVars, loader, failures>>
  PROVE  LInv'
<1> USE LifecycleAssumption DEF None, Empty, Procs, LInv, Types, Order
<1>1. /\ host[p] = "check"
      /\ clientSock = None \/ runtimeSock = None
      /\ job[p] = "serve" => clientSock = None
      /\ \A q \in Procs : host'[q] = IF q = p THEN "unlink" ELSE host[q]
  BY DEF MayStart, Goto, HostsTyped, LegsTyped, LoadersTyped, KeysTyped
<1>2. UNCHANGED <<pidFile, clientSock, runtimeSock, sealed, made, job, peer, backlog, signalled,
                  loader, store, script, again, said, failures>>
  BY DEF MayStart, Goto, files, keyVars, hostVars, shellVars
<1>3. Started' = Started
  BY <1>1 DEF Started
<1>4. PathsTyped'
  BY <1>1, <1>2, <1>3 DEF PathsTyped, Started
<1>5. HostsTyped'
  BY <1>1, <1>2 DEF HostsTyped, Inside, Entering, MayStart, Goto, Working, Gone
<1>6. InOrder'
  BY <1>3 DEF InOrder
<1>7. LegsTyped'
  <2>1. Spawned' = Spawned
    BY <1>2 DEF Spawned
  <2>2. peer' \in [Procs -> {None} \cup Spawned']
    BY <1>2, <2>1 DEF LegsTyped
  <2>3. backlog' \in [Procs -> Seq(Spawned)]
    BY <1>2 DEF LegsTyped
  <2>4. \A q \in Procs : /\ backlog'[q] # <<>> => Listening(q)'
                         /\ host'[q] \in Joined => peer'[q] # None
    BY <1>1, <1>2 DEF LegsTyped, Listening, Joined
  <2> QED  BY <2>1, <2>2, <2>3, <2>4 DEF LegsTyped, Listening
<1>8. LoadersTyped' /\ KeysTyped' /\ ShellTyped'
  BY <1>2 DEF LoadersTyped, KeysTyped, ShellTyped, Working, Gone
<1>9. ASSUME Patient PROVE Order'
  <2>1. Alone'
    BY <1>1, <1>2, <1>9 DEF Alone, Watched, Whole, Entering, Inside, Gone
  <2>2. Watched'
    BY <1>1, <1>2, <1>9 DEF Watched, Alone, Entering, Inside, Gone
  <2>3. Undisturbed'
    BY <1>1, <1>2, <1>9 DEF Undisturbed, Entering
  <2>4. Stages'
    BY <1>1, <1>2, <1>9 DEF Stages, Alone, Watched, Entering, Inside, Gone
  <2>5. OwnLegs'
    BY <1>1, <1>2, <1>9 DEF OwnLegs, Joined
  <2>6. Whole'
    BY <1>1, <1>2, <1>9 DEF Whole, Alone, Watched, Stages, Entering, Inside, Gone
  <2>7. InStep'
    BY <1>2, <1>9 DEF InStep
  <2>8. Calm'
    BY <1>1, <1>2, <1>9 DEF Calm, Quiet, Cleared, Watched, Undisturbed, Entering, Inside, Gone
  <2> QED  BY <2>1, <2>2, <2>3, <2>4, <2>5, <2>6, <2>7, <2>8
<1> QED  BY <1>3, <1>4, <1>5, <1>6, <1>7, <1>8, <1>9

(* No one else listens when the runtime path is cleared. *)
LEMMA UnlinkKeeps ==
  ASSUME LInv, NEW p \in Procs, Unlink(p)
  PROVE  LInv'
<1> USE LifecycleAssumption DEF None, Empty, Procs, LInv, Types, Order
<1>1. /\ host[p] = "unlink"
      /\ runtimeSock' = None
      /\ \A q \in Procs : host'[q] = IF q = p THEN "bind" ELSE host[q]
  BY DEF Unlink, Goto, HostsTyped, LegsTyped, LoadersTyped, KeysTyped
<1>2. UNCHANGED <<pidFile, clientSock, sealed, made, job, peer, backlog, signalled, loader,
                  store, script, again, said, failures>>
  BY DEF Unlink, Goto, files, keyVars, hostVars, shellVars
<1>3. Started' = Started
  BY <1>1 DEF Started
<1>4. PathsTyped'
  BY <1>1, <1>2, <1>3 DEF PathsTyped, Started
<1>5. HostsTyped'
  BY <1>1, <1>2 DEF HostsTyped, Inside, Entering, Unlink, Goto, Working, Gone
<1>6. InOrder'
  BY <1>3 DEF InOrder
<1>7. LegsTyped'
  <2>1. Spawned' = Spawned
    BY <1>2 DEF Spawned
  <2>2. peer' \in [Procs -> {None} \cup Spawned']
    BY <1>2, <2>1 DEF LegsTyped
  <2>3. backlog' \in [Procs -> Seq(Spawned)]
    BY <1>2 DEF LegsTyped
  <2>4. \A q \in Procs : /\ backlog'[q] # <<>> => Listening(q)'
                         /\ host'[q] \in Joined => peer'[q] # None
    BY <1>1, <1>2 DEF LegsTyped, Listening, Joined
  <2> QED  BY <2>1, <2>2, <2>3, <2>4 DEF LegsTyped, Listening
<1>8. LoadersTyped' /\ KeysTyped' /\ ShellTyped'
  BY <1>2 DEF LoadersTyped, KeysTyped, ShellTyped, Working, Gone
<1>9. ASSUME Patient PROVE Order'
  <2>1. Alone'
    BY <1>1, <1>2, <1>9 DEF Alone, Watched, Stages, Entering, Inside, Gone
  <2>2. Watched'
    BY <1>1, <1>2, <1>9 DEF Watched, Alone, Entering, Inside, Gone
  <2>3. Undisturbed'
    BY <1>1, <1>2, <1>9 DEF Undisturbed, Entering
  <2>4. Stages'
    BY <1>1, <1>2, <1>9 DEF Stages, Alone, Watched, Entering, Inside, Gone
  <2>5. OwnLegs'
    BY <1>1, <1>2, <1>9 DEF OwnLegs, Joined
  <2>6. Whole'
    BY <1>1, <1>2, <1>9 DEF Whole, Alone, Watched, Stages, Entering, Inside, Gone
  <2>7. InStep'
    BY <1>2, <1>9 DEF InStep
  <2>8. Calm'
    BY <1>1, <1>2, <1>9 DEF Calm, Quiet, Cleared, Watched, Undisturbed, Entering, Inside, Gone
  <2> QED  BY <2>1, <2>2, <2>3, <2>4, <2>5, <2>6, <2>7, <2>8
<1> QED  BY <1>3, <1>4, <1>5, <1>6, <1>7, <1>8, <1>9

(* A process that binds spawns its enclave where none is left. *)
LEMMA BindRuntimeKeeps ==
  ASSUME LInv, NEW p \in Procs, host[p] = "bind", runtimeSock' = p, Goto(p, "accept"),
         loader' = [loader EXCEPT ![p] = "loading"],
         UNCHANGED <<pidFile, clientSock, keyVars, job, peer, backlog, shellVars, failures>>
  PROVE  LInv'
<1> USE LifecycleAssumption DEF None, Empty, Procs, LInv, Types, Order
<1>1. /\ host[p] = "bind"
      /\ runtimeSock' = p
      /\ \A q \in Procs : host'[q] = IF q = p THEN "accept" ELSE host[q]
      /\ \A q \in Procs : loader'[q] = IF q = p THEN "loading" ELSE loader[q]
  BY DEF Goto, HostsTyped, LegsTyped, LoadersTyped, KeysTyped
<1>2. UNCHANGED <<pidFile, clientSock, sealed, made, job, peer, backlog, signalled, store,
                  script, again, said, failures>>
  BY DEF Goto, files, keyVars, hostVars, shellVars
<1>3. Started' = Started
  BY <1>1 DEF Started
<1>4. PathsTyped'
  BY <1>1, <1>2, <1>3 DEF PathsTyped, Started
<1>5. HostsTyped'
  BY <1>1, <1>2 DEF HostsTyped, Inside, Entering, Goto, Working, Gone
<1>6. InOrder'
  BY <1>3 DEF InOrder
<1>7. LegsTyped'
  <2>1. Spawned \subseteq Spawned'
    BY <1>1, <1>2 DEF Spawned
  <2>2. peer' \in [Procs -> {None} \cup Spawned']
    BY <1>2, <2>1 DEF LegsTyped
  <2>3. backlog' \in [Procs -> Seq(Spawned)]
    BY <1>2 DEF LegsTyped
  <2>4. backlog' \in [Procs -> Seq(Spawned')]
    BY <2>1, <2>3, QueuesGrow
  <2>5. \A q \in Procs : /\ backlog'[q] # <<>> => Listening(q)'
                         /\ host'[q] \in Joined => peer'[q] # None
    BY <1>1, <1>2 DEF LegsTyped, Listening, Joined
  <2> QED  BY <2>1, <2>2, <2>3, <2>4, <2>5 DEF LegsTyped, Listening
<1>8. LoadersTyped'
  BY <1>1, <1>2 DEF LoadersTyped, Working, Gone, Goto, Inside, Entering
<1>9. KeysTyped' /\ ShellTyped'
  BY <1>2 DEF KeysTyped, ShellTyped
<1>10. ASSUME Patient PROVE Order'
  <2>1. Alone'
    BY <1>1, <1>2, <1>10 DEF Alone, Watched, Stages, Entering, Inside, Gone
  <2>2. Watched'
    BY <1>1, <1>2, <1>10 DEF Watched, Alone, Entering, Inside, Gone
  <2>3. Undisturbed'
    BY <1>1, <1>2, <1>10 DEF Undisturbed, Entering
  <2>4. Stages'
    BY <1>1, <1>2, <1>10 DEF Stages, Alone, Watched, Entering, Inside, Gone
  <2>5. OwnLegs'
    BY <1>1, <1>2, <1>10 DEF OwnLegs, Joined
  <2>6. Whole'
    BY <1>1, <1>2, <1>10 DEF Whole, Alone, Watched, Stages, Entering, Inside, Gone
  <2>7. InStep'
    BY <1>1, <1>2, <1>10 DEF InStep
  <2>8. Calm'
    BY <1>1, <1>2, <1>10 DEF Calm, Quiet, Cleared, Watched, Undisturbed, Entering, Inside, Gone
  <2> QED  BY <2>1, <2>2, <2>3, <2>4, <2>5, <2>6, <2>7, <2>8
<1> QED  BY <1>3, <1>4, <1>5, <1>6, <1>7, <1>8, <1>9, <1>10

(* At the deadline the process takes its enclave with it. *)
LEMMA ConnectTimeoutKeeps ==
  ASSUME LInv, NEW p \in Procs, ConnectTimeout(p)
  PROVE  LInv'
<1> USE LifecycleAssumption DEF None, Empty, Procs, LInv, Types, Order, EndOf
<1>1. /\ host[p] = "accept"
      /\ \A q \in Procs : host'[q] = IF q = p THEN "dead" ELSE host[q]
      /\ \A q \in Procs : peer'[q] = IF q = p THEN None ELSE peer[q]
      /\ \A q \in Procs : backlog'[q] = IF q = p THEN <<>> ELSE backlog[q]
      /\ \A q \in Procs : loader'[q] = IF q = p THEN EndOf(loader[p]) ELSE loader[q]
  BY DEF ConnectTimeout, DeadlinePassed, Exit, Goto, Killed, HostsTyped, LegsTyped, LoadersTyped,
     KeysTyped
<1>2. UNCHANGED <<pidFile, clientSock, runtimeSock, sealed, made, job, signalled, store, script,
                  again, said, failures>>
  BY DEF ConnectTimeout, DeadlinePassed, Exit, Goto, Killed, files, keyVars, hostVars, shellVars
<1>3. Started' = Started
  BY <1>1 DEF Started
<1>4. PathsTyped'
  BY <1>1, <1>2, <1>3 DEF PathsTyped, Started
<1>5. HostsTyped'
  BY <1>1, <1>2 DEF HostsTyped, Inside, Entering, ConnectTimeout, DeadlinePassed, Exit, Goto,
     Killed, Working, Gone
<1>6. InOrder'
  BY <1>3 DEF InOrder
<1>7. LegsTyped'
  <2>1. Spawned \subseteq Spawned'
    BY <1>1, <1>2 DEF Spawned
  <2>2. peer' \in [Procs -> {None} \cup Spawned']
    BY <1>1, <1>2, <2>1 DEF LegsTyped, ConnectTimeout, DeadlinePassed, Exit, Goto, Killed, Spawned
  <2>3. backlog' \in [Procs -> Seq(Spawned)]
    BY <1>1, <1>2 DEF LegsTyped, ConnectTimeout, DeadlinePassed, Exit, Goto, Killed, Spawned
  <2>4. backlog' \in [Procs -> Seq(Spawned')]
    BY <2>1, <2>3, QueuesGrow
  <2>5. \A q \in Procs : /\ backlog'[q] # <<>> => Listening(q)'
                         /\ host'[q] \in Joined => peer'[q] # None
    BY <1>1, <1>2 DEF LegsTyped, Listening, Joined
  <2> QED  BY <2>1, <2>2, <2>3, <2>4, <2>5 DEF LegsTyped, Listening
<1>8. LoadersTyped'
  BY <1>1, <1>2 DEF LoadersTyped, Working, Gone, ConnectTimeout, DeadlinePassed, Exit, Goto,
     Killed, Inside, Entering
<1>9. KeysTyped' /\ ShellTyped'
  BY <1>2 DEF KeysTyped, ShellTyped
<1>10. ASSUME Patient PROVE Order'
  <2>1. Alone'
    BY <1>1, <1>2, <1>10 DEF Alone, Watched, Stages, Entering, Inside, Gone
  <2>2. Watched'
    BY <1>1, <1>2, <1>10 DEF Watched, Alone, Entering, Inside, Gone
  <2>3. Undisturbed'
    BY <1>1, <1>2, <1>10 DEF Undisturbed, Entering
  <2>4. Stages'
    BY <1>1, <1>2, <1>10 DEF Stages, Alone, Watched, Entering, Inside, Gone
  <2>5. OwnLegs'
    BY <1>1, <1>2, <1>10 DEF OwnLegs, Joined
  <2>6. Whole'
    BY <1>1, <1>2, <1>10 DEF Whole, Alone, Watched, Stages, Entering, Inside, Gone
  <2>7. InStep'
    BY <1>1, <1>2, <1>10 DEF InStep
  <2>8. Calm'
    BY <1>1, <1>2, <1>10 DEF Calm, Quiet, Cleared, Watched, Undisturbed, Entering, Inside, Gone
  <2> QED  BY <2>1, <2>2, <2>3, <2>4, <2>5, <2>6, <2>7, <2>8
<1> QED  BY <1>3, <1>4, <1>5, <1>6, <1>7, <1>8, <1>9, <1>10

(* The leg of a process that is ready leads to its own enclave. *)
LEMMA ReadReadyKeeps ==
  ASSUME LInv, NEW p \in Procs, ReadReady(p)
  PROVE  LInv'
<1> USE LifecycleAssumption DEF None, Empty, Procs, LInv, Types, Order
<1>1. /\ host[p] = "ready"
      /\ host'[p] \in {"write_pid", "attest"}
      /\ host'[p] = "write_pid" => job[p] = "serve"
      /\ \A q \in Procs \ {p} : host'[q] = host[q]
      /\ \A q \in Procs : backlog'[q] = IF q = p THEN <<>> ELSE backlog[q]
  BY DEF ReadReady, ListenerDropped, Goto, HostsTyped, LegsTyped, LoadersTyped, KeysTyped
<1>2. UNCHANGED <<pidFile, clientSock, runtimeSock, sealed, made, job, peer, signalled, loader,
                  store, script, again, said, failures>>
  BY DEF ReadReady, ListenerDropped, Goto, files, keyVars, hostVars, shellVars
<1>3. Started' = Started
  BY <1>1 DEF Started
<1>4. PathsTyped'
  BY <1>1, <1>2, <1>3 DEF PathsTyped, Started
<1>5. HostsTyped'
  BY <1>1, <1>2 DEF HostsTyped, Inside, Entering, ReadReady, ListenerDropped, Goto, Working, Gone
<1>6. InOrder'
  BY <1>3 DEF InOrder
<1>7. LegsTyped'
  <2>1. Spawned' = Spawned
    BY <1>2 DEF Spawned
  <2>2. peer' \in [Procs -> {None} \cup Spawned']
    BY <1>2, <2>1 DEF LegsTyped
  <2>3. backlog' \in [Procs -> Seq(Spawned)]
    BY <1>1, <1>2 DEF LegsTyped, ReadReady, ListenerDropped, Goto, Spawned
  <2>4. \A q \in Procs : /\ backlog'[q] # <<>> => Listening(q)'
                         /\ host'[q] \in Joined => peer'[q] # None
    BY <1>1, <1>2 DEF LegsTyped, Listening, Joined
  <2> QED  BY <2>1, <2>2, <2>3, <2>4 DEF LegsTyped, Listening
<1>8. LoadersTyped' /\ KeysTyped' /\ ShellTyped'
  BY <1>2 DEF LoadersTyped, KeysTyped, ShellTyped, Working, Gone
<1>9. ASSUME Patient PROVE Order'
  <2>1. Alone'
    BY <1>1, <1>2, <1>9 DEF Alone, Watched, Stages, Entering, Inside, Gone
  <2>2. Watched'
    BY <1>1, <1>2, <1>9 DEF Watched, Alone, Entering, Inside, Gone
  <2>3. Undisturbed'
    BY <1>1, <1>2, <1>9 DEF Undisturbed, Entering
  <2>4. Stages'
    BY <1>1, <1>2, <1>9 DEF Stages, Alone, Watched, Entering, Inside, Gone
  <2>5. OwnLegs'
    BY <1>1, <1>2, <1>9 DEF OwnLegs, Joined
  <2>6. Whole'
    BY <1>1, <1>2, <1>9 DEF Whole, Alone, Watched, Stages, Entering, Inside, Gone
  <2>7. InStep'
    BY <1>2, <1>9 DEF InStep
  <2>8. Calm'
    BY <1>1, <1>2, <1>9 DEF Calm, Quiet, Cleared, Watched, Undisturbed, Entering, Inside, Gone
  <2> QED  BY <2>1, <2>2, <2>3, <2>4, <2>5, <2>6, <2>7, <2>8
<1> QED  BY <1>3, <1>4, <1>5, <1>6, <1>7, <1>8, <1>9

(* No serving process is named by the pid file that is emptied. *)
LEMMA TruncatePidKeeps ==
  ASSUME LInv, NEW p \in Procs, TruncatePid(p)
  PROVE  LInv'
<1> USE LifecycleAssumption DEF None, Empty, Procs, LInv, Types, Order
<1>1. /\ host[p] = "write_pid"
      /\ pidFile' = Empty
      /\ \A q \in Procs : host'[q] = IF q = p THEN "fill_pid" ELSE host[q]
  BY DEF TruncatePid, Goto, HostsTyped, LegsTyped, LoadersTyped, KeysTyped
<1>2. UNCHANGED <<clientSock, runtimeSock, sealed, made, job, peer, backlog, signalled, loader,
                  store, script, again, said, failures>>
  BY DEF TruncatePid, Goto, files, keyVars, hostVars, shellVars
<1>3. Started' = Started
  BY <1>1 DEF Started
<1>4. PathsTyped'
  BY <1>1, <1>2, <1>3 DEF PathsTyped, Started
<1>5. HostsTyped'
  BY <1>1, <1>2 DEF HostsTyped, Inside, Entering, TruncatePid, Goto, Working, Gone
<1>6. InOrder'
  BY <1>3 DEF InOrder
<1>7. LegsTyped'
  <2>1. Spawned' = Spawned
    BY <1>2 DEF Spawned
  <2>2. peer' \in [Procs -> {None} \cup Spawned']
    BY <1>2, <2>1 DEF LegsTyped
  <2>3. backlog' \in [Procs -> Seq(Spawned)]
    BY <1>2 DEF LegsTyped
  <2>4. \A q \in Procs : /\ backlog'[q] # <<>> => Listening(q)'
                         /\ host'[q] \in Joined => peer'[q] # None
    BY <1>1, <1>2 DEF LegsTyped, Listening, Joined
  <2> QED  BY <2>1, <2>2, <2>3, <2>4 DEF LegsTyped, Listening
<1>8. LoadersTyped' /\ KeysTyped' /\ ShellTyped'
  BY <1>2 DEF LoadersTyped, KeysTyped, ShellTyped, Working, Gone
<1>9. ASSUME Patient PROVE Order'
  <2>1. Alone'
    BY <1>1, <1>2, <1>9 DEF Alone, Watched, Stages, Entering, Inside, Gone
  <2>2. Watched'
    BY <1>1, <1>2, <1>9 DEF Watched, Alone, Entering, Inside, Gone
  <2>3. Undisturbed'
    BY <1>1, <1>2, <1>9 DEF Undisturbed, Entering
  <2>4. Stages'
    BY <1>1, <1>2, <1>9 DEF Stages, Alone, Watched, Entering, Inside, Gone
  <2>5. OwnLegs'
    BY <1>1, <1>2, <1>9 DEF OwnLegs, Joined
  <2>6. Whole'
    BY <1>1, <1>2, <1>9 DEF Whole, Alone, Watched, Stages, Entering, Inside, Gone
  <2>7. InStep'
    BY <1>2, <1>9 DEF InStep
  <2>8. Calm'
    BY <1>1, <1>2, <1>9 DEF Calm, Quiet, Cleared, Watched, Undisturbed, Entering, Inside, Gone
  <2> QED  BY <2>1, <2>2, <2>3, <2>4, <2>5, <2>6, <2>7, <2>8
<1> QED  BY <1>3, <1>4, <1>5, <1>6, <1>7, <1>8, <1>9

(* The pid file names the process that goes on to bind the client path. *)
LEMMA WritePidKeeps ==
  ASSUME LInv, NEW p \in Procs, WritePid(p)
  PROVE  LInv'
<1> USE LifecycleAssumption DEF None, Empty, Procs, LInv, Types, Order
<1>1. /\ host[p] = "fill_pid"
      /\ pidFile' = p
      /\ \A q \in Procs : host'[q] = IF q = p THEN "bind_client" ELSE host[q]
  BY DEF WritePid, Goto, HostsTyped, LegsTyped, LoadersTyped, KeysTyped
<1>2. UNCHANGED <<clientSock, runtimeSock, sealed, made, job, peer, backlog, signalled, loader,
                  store, script, again, said, failures>>
  BY DEF WritePid, Goto, files, keyVars, hostVars, shellVars
<1>3. Started' = Started
  BY <1>1 DEF Started
<1>4. PathsTyped'
  BY <1>1, <1>2, <1>3 DEF PathsTyped, Started
<1>5. HostsTyped'
  BY <1>1, <1>2 DEF HostsTyped, Inside, Entering, WritePid, Goto, Working, Gone
<1>6. InOrder'
  BY <1>3 DEF InOrder
<1>7. LegsTyped'
  <2>1. Spawned' = Spawned
    BY <1>2 DEF Spawned
  <2>2. peer' \in [Procs -> {None} \cup Spawned']
    BY <1>2, <2>1 DEF LegsTyped
  <2>3. backlog' \in [Procs -> Seq(Spawned)]
    BY <1>2 DEF LegsTyped
  <2>4. \A q \in Procs : /\ backlog'[q] # <<>> => Listening(q)'
                         /\ host'[q] \in Joined => peer'[q] # None
    BY <1>1, <1>2 DEF LegsTyped, Listening, Joined
  <2> QED  BY <2>1, <2>2, <2>3, <2>4 DEF LegsTyped, Listening
<1>8. LoadersTyped' /\ KeysTyped' /\ ShellTyped'
  BY <1>2 DEF LoadersTyped, KeysTyped, ShellTyped, Working, Gone
<1>9. ASSUME Patient PROVE Order'
  <2>1. Alone'
    BY <1>1, <1>2, <1>9 DEF Alone, Watched, Stages, Entering, Inside, Gone
  <2>2. Watched'
    BY <1>1, <1>2, <1>9 DEF Watched, Alone, Entering, Inside, Gone
  <2>3. Undisturbed'
    BY <1>1, <1>2, <1>9 DEF Undisturbed, Entering
  <2>4. Stages'
    BY <1>1, <1>2, <1>9 DEF Stages, Alone, Watched, Entering, Inside, Gone
  <2>5. OwnLegs'
    BY <1>1, <1>2, <1>9 DEF OwnLegs, Joined
  <2>6. Whole'
    BY <1>1, <1>2, <1>9 DEF Whole, Alone, Watched, Stages, Entering, Inside, Gone
  <2>7. InStep'
    BY <1>2, <1>9 DEF InStep
  <2>8. Calm'
    BY <1>1, <1>2, <1>9 DEF Calm, Quiet, Cleared, Watched, Undisturbed, Entering, Inside, Gone
  <2> QED  BY <2>1, <2>2, <2>3, <2>4, <2>5, <2>6, <2>7, <2>8
<1> QED  BY <1>3, <1>4, <1>5, <1>6, <1>7, <1>8, <1>9

(* A process that binds the client path is whole from then on. *)
LEMMA BindClientKeeps ==
  ASSUME LInv, NEW p \in Procs, host[p] = "bind_client", clientSock' = p, Goto(p, "up"),
         UNCHANGED <<pidFile, runtimeSock, keyVars, job, peer, backlog, shellVars, loader,
             failures>>
  PROVE  LInv'
<1> USE LifecycleAssumption DEF None, Empty, Procs, LInv, Types, Order
<1>1. /\ host[p] = "bind_client"
      /\ clientSock' = p
      /\ \A q \in Procs : host'[q] = IF q = p THEN "up" ELSE host[q]
  BY DEF Goto, HostsTyped, LegsTyped, LoadersTyped, KeysTyped
<1>2. UNCHANGED <<pidFile, runtimeSock, sealed, made, job, peer, backlog, signalled, loader,
                  store, script, again, said, failures>>
  BY DEF Goto, files, keyVars, hostVars, shellVars
<1>3. Started' = Started
  BY <1>1 DEF Started
<1>4. PathsTyped'
  BY <1>1, <1>2, <1>3 DEF PathsTyped, Started
<1>5. HostsTyped'
  BY <1>1, <1>2 DEF HostsTyped, Inside, Entering, Goto, Working, Gone
<1>6. InOrder'
  BY <1>3 DEF InOrder
<1>7. LegsTyped'
  <2>1. Spawned' = Spawned
    BY <1>2 DEF Spawned
  <2>2. peer' \in [Procs -> {None} \cup Spawned']
    BY <1>2, <2>1 DEF LegsTyped
  <2>3. backlog' \in [Procs -> Seq(Spawned)]
    BY <1>2 DEF LegsTyped
  <2>4. \A q \in Procs : /\ backlog'[q] # <<>> => Listening(q)'
                         /\ host'[q] \in Joined => peer'[q] # None
    BY <1>1, <1>2 DEF LegsTyped, Listening, Joined
  <2> QED  BY <2>1, <2>2, <2>3, <2>4 DEF LegsTyped, Listening
<1>8. LoadersTyped' /\ KeysTyped' /\ ShellTyped'
  BY <1>2 DEF LoadersTyped, KeysTyped, ShellTyped, Working, Gone
<1>9. ASSUME Patient PROVE Order'
  <2>1. Alone'
    BY <1>1, <1>2, <1>9 DEF Alone, Watched, Stages, Entering, Inside, Gone
  <2>2. Watched'
    BY <1>1, <1>2, <1>9 DEF Watched, Alone, Entering, Inside, Gone
  <2>3. Undisturbed'
    BY <1>1, <1>2, <1>9 DEF Undisturbed, Entering
  <2>4. Stages'
    BY <1>1, <1>2, <1>9 DEF Stages, Alone, Watched, Entering, Inside, Gone
  <2>5. OwnLegs'
    BY <1>1, <1>2, <1>9 DEF OwnLegs, Joined
  <2>6. Whole'
    BY <1>1, <1>2, <1>9 DEF Whole, Alone, Watched, Stages, Undisturbed, Entering, Inside, Gone
  <2>7. InStep'
    BY <1>2, <1>9 DEF InStep
  <2>8. Calm'
    BY <1>1, <1>2, <1>9 DEF Calm, Quiet, Cleared, Watched, Undisturbed, Entering, Inside, Gone
  <2> QED  BY <2>1, <2>2, <2>3, <2>4, <2>5, <2>6, <2>7, <2>8
<1> QED  BY <1>3, <1>4, <1>5, <1>6, <1>7, <1>8, <1>9

(* An attestation ends with its own enclave. *)
LEMMA AttestedKeeps ==
  ASSUME LInv, NEW p \in Procs, Attested(p)
  PROVE  LInv'
<1> USE LifecycleAssumption DEF None, Empty, Procs, LInv, Types, Order, EndOf
<1>1. /\ host[p] = "attest"
      /\ \A q \in Procs : host'[q] = IF q = p THEN "remove" ELSE host[q]
      /\ \A q \in Procs : loader'[q] = IF q = p THEN EndOf(loader[p]) ELSE loader[q]
  BY DEF Attested, Goto, Killed, HostsTyped, LegsTyped, LoadersTyped, KeysTyped
<1>2. UNCHANGED <<pidFile, clientSock, runtimeSock, sealed, made, job, peer, backlog, signalled,
                  store, script, again, said, failures>>
  BY DEF Attested, Goto, Killed, files, keyVars, hostVars, shellVars
<1>3. Started' = Started
  BY <1>1 DEF Started
<1>4. PathsTyped'
  BY <1>1, <1>2, <1>3 DEF PathsTyped, Started
<1>5. HostsTyped'
  BY <1>1, <1>2 DEF HostsTyped, Inside, Entering, Attested, Goto, Killed, Working, Gone
<1>6. InOrder'
  BY <1>3 DEF InOrder
<1>7. LegsTyped'
  <2>1. Spawned \subseteq Spawned'
    BY <1>1, <1>2 DEF Spawned
  <2>2. peer' \in [Procs -> {None} \cup Spawned']
    BY <1>2, <2>1 DEF LegsTyped
  <2>3. backlog' \in [Procs -> Seq(Spawned)]
    BY <1>2 DEF LegsTyped
  <2>4. backlog' \in [Procs -> Seq(Spawned')]
    BY <2>1, <2>3, QueuesGrow
  <2>5. \A q \in Procs : /\ backlog'[q] # <<>> => Listening(q)'
                         /\ host'[q] \in Joined => peer'[q] # None
    BY <1>1, <1>2 DEF LegsTyped, Listening, Joined
  <2> QED  BY <2>1, <2>2, <2>3, <2>4, <2>5 DEF LegsTyped, Listening
<1>8. LoadersTyped'
  BY <1>1, <1>2 DEF LoadersTyped, Working, Gone, Attested, Goto, Killed, Inside, Entering
<1>9. KeysTyped' /\ ShellTyped'
  BY <1>2 DEF KeysTyped, ShellTyped
<1>10. ASSUME Patient PROVE Order'
  <2>1. Alone'
    BY <1>1, <1>2, <1>10 DEF Alone, Watched, Stages, Entering, Inside, Gone
  <2>2. Watched'
    BY <1>1, <1>2, <1>10 DEF Watched, Alone, Entering, Inside, Gone
  <2>3. Undisturbed'
    BY <1>1, <1>2, <1>10 DEF Undisturbed, Entering
  <2>4. Stages'
    BY <1>1, <1>2, <1>10 DEF Stages, Alone, Watched, Entering, Inside, Gone
  <2>5. OwnLegs'
    BY <1>1, <1>2, <1>10 DEF OwnLegs, Joined
  <2>6. Whole'
    BY <1>1, <1>2, <1>10 DEF Whole, Alone, Watched, Stages, Entering, Inside, Gone
  <2>7. InStep'
    BY <1>1, <1>2, <1>10 DEF InStep
  <2>8. Calm'
    BY <1>1, <1>2, <1>10 DEF Calm, Quiet, Cleared, Watched, Undisturbed, Entering, Inside, Gone
  <2> QED  BY <2>1, <2>2, <2>3, <2>4, <2>5, <2>6, <2>7, <2>8
<1> QED  BY <1>3, <1>4, <1>5, <1>6, <1>7, <1>8, <1>9, <1>10

(* The runtime path a process that leaves removes, or leaves bound when its
   loader cannot be spawned, is not that of a service. *)
LEMMA LeavingWithPathKeeps ==
  ASSUME LInv, NEW p \in Procs, host[p] \in {"bind", "remove"}, runtimeSock' \in {None, p}, Exit(p),
         UNCHANGED <<pidFile, clientSock, keyVars, shellVars, loader, failures>>
  PROVE  LInv'
<1> USE LifecycleAssumption DEF None, Empty, Procs, LInv, Types, Order
<1>1. /\ host[p] \in {"bind", "remove"}
      /\ runtimeSock' \in {None, p}
      /\ \A q \in Procs : host'[q] = IF q = p THEN "dead" ELSE host[q]
      /\ \A q \in Procs : peer'[q] = IF q = p THEN None ELSE peer[q]
      /\ \A q \in Procs : backlog'[q] = IF q = p THEN <<>> ELSE backlog[q]
  BY DEF Exit, Goto, HostsTyped, LegsTyped, LoadersTyped, KeysTyped
<1>2. UNCHANGED <<pidFile, clientSock, sealed, made, job, signalled, loader, store, script,
                  again, said, failures>>
  BY DEF Exit, Goto, files, keyVars, hostVars, shellVars
<1>3. Started' = Started
  BY <1>1 DEF Started
<1>4. PathsTyped'
  BY <1>1, <1>2, <1>3 DEF PathsTyped, Started
<1>5. HostsTyped'
  BY <1>1, <1>2 DEF HostsTyped, Inside, Entering, Exit, Goto, Working, Gone
<1>6. InOrder'
  BY <1>3 DEF InOrder
<1>7. LegsTyped'
  <2>1. Spawned' = Spawned
    BY <1>2 DEF Spawned
  <2>2. peer' \in [Procs -> {None} \cup Spawned']
    BY <1>1, <1>2, <2>1 DEF LegsTyped, Exit, Goto, Spawned
  <2>3. backlog' \in [Procs -> Seq(Spawned)]
    BY <1>1, <1>2 DEF LegsTyped, Exit, Goto, Spawned
  <2>4. \A q \in Procs : /\ backlog'[q] # <<>> => Listening(q)'
                         /\ host'[q] \in Joined => peer'[q] # None
    BY <1>1, <1>2 DEF LegsTyped, Listening, Joined
  <2> QED  BY <2>1, <2>2, <2>3, <2>4 DEF LegsTyped, Listening
<1>8. LoadersTyped' /\ KeysTyped' /\ ShellTyped'
  BY <1>2 DEF LoadersTyped, KeysTyped, ShellTyped, Working, Gone
<1>9. ASSUME Patient PROVE Order'
  <2>1. Alone'
    BY <1>1, <1>2, <1>9 DEF Alone, Watched, Stages, Entering, Inside, Gone
  <2>2. Watched'
    BY <1>1, <1>2, <1>9 DEF Watched, Alone, Entering, Inside, Gone
  <2>3. Undisturbed'
    BY <1>1, <1>2, <1>9 DEF Undisturbed, Entering
  <2>4. Stages'
    BY <1>1, <1>2, <1>9 DEF Stages, Alone, Watched, Entering, Inside, Gone
  <2>5. OwnLegs'
    BY <1>1, <1>2, <1>9 DEF OwnLegs, Joined
  <2>6. Whole'
    BY <1>1, <1>2, <1>9 DEF Whole, Alone, Watched, Stages, Entering, Inside, Gone
  <2>7. InStep'
    BY <1>2, <1>9 DEF InStep
  <2>8. Calm'
    BY <1>1, <1>2, <1>9 DEF Calm, Quiet, Cleared, Watched, Undisturbed, Entering, Inside, Gone
  <2> QED  BY <2>1, <2>2, <2>3, <2>4, <2>5, <2>6, <2>7, <2>8
<1> QED  BY <1>3, <1>4, <1>5, <1>6, <1>7, <1>8, <1>9

(* An enclave boots with what is in the file. *)
LEMMA BootReadKeeps ==
  ASSUME LInv, NEW p \in Procs, BootRead(p)
  PROVE  LInv'
<1> USE LifecycleAssumption DEF None, Empty, Procs, LInv, Types, Order
<1>1. /\ loader[p] = "boot"
      /\ loader'[p] \in {"fresh", "up"}
      /\ \A q \in Procs \ {p} : loader'[q] = loader[q]
      /\ \A q \in Procs : store'[q] = IF q = p THEN sealed ELSE store[q]
  BY DEF BootRead, HostsTyped, LegsTyped, LoadersTyped, KeysTyped
<1>2. UNCHANGED <<pidFile, clientSock, runtimeSock, sealed, made, host, job, peer, backlog,
                  signalled, script, again, said, failures>>
  BY DEF BootRead, files, keyVars, hostVars, shellVars
<1>3. LegsTyped'
  <2>1. Spawned \subseteq Spawned'
    BY <1>1, <1>2 DEF Spawned
  <2>2. peer' \in [Procs -> {None} \cup Spawned']
    BY <1>2, <2>1 DEF LegsTyped
  <2>3. backlog' \in [Procs -> Seq(Spawned)]
    BY <1>2 DEF LegsTyped
  <2>4. backlog' \in [Procs -> Seq(Spawned')]
    BY <2>1, <2>3, QueuesGrow
  <2>5. \A q \in Procs : /\ backlog'[q] # <<>> => Listening(q)'
                         /\ host'[q] \in Joined => peer'[q] # None
    BY <1>2 DEF LegsTyped, Listening, Joined
  <2> QED  BY <2>1, <2>2, <2>3, <2>4, <2>5 DEF LegsTyped, Listening
<1>4. LoadersTyped'
  BY <1>1, <1>2 DEF LoadersTyped, Working, Gone, BootRead, Inside, Entering
<1>5. KeysTyped'
  BY <1>1, <1>2 DEF KeysTyped, BootRead, Inside, Entering, Working, Gone
<1>6. PathsTyped' /\ HostsTyped' /\ InOrder' /\ ShellTyped'
  BY <1>2 DEF PathsTyped, HostsTyped, InOrder, ShellTyped, Started, Inside, Entering
<1>7. ASSUME Patient PROVE Order'
  <2>1. Alone'
    BY <1>1, <1>2, <1>7 DEF Alone, Watched, Stages, Entering, Inside, Gone
  <2>2. Watched'
    BY <1>1, <1>2, <1>7 DEF Watched, Alone, Entering, Inside, Gone
  <2>3. Stages'
    BY <1>1, <1>2, <1>7 DEF Stages, Alone, Watched, Entering, Inside, Gone
  <2>4. OwnLegs'
    BY <1>1, <1>2, <1>7 DEF OwnLegs, Joined
  <2>5. InStep'
    BY <1>1, <1>2, <1>7 DEF InStep, Alone, Gone, Entering, Inside
  <2>6. Undisturbed' /\ Whole'
    BY <1>2, <1>7 DEF Undisturbed, Whole, Entering
  <2>7. Calm'
    BY <1>1, <1>2, <1>7 DEF Calm, Quiet, Cleared, Watched, Undisturbed, Entering, Inside, Gone
  <2> QED  BY <2>1, <2>2, <2>3, <2>4, <2>5, <2>6, <2>7
<1> QED  BY <1>3, <1>4, <1>5, <1>6, <1>7

(* No other enclave is there to miss a new key. *)
LEMMA GenerateKeeps ==
  ASSUME LInv, NEW p \in Procs, loader[p] \in {"fresh", "rotating"}, Generate(p)
  PROVE  LInv'
<1> USE LifecycleAssumption DEF None, Empty, Procs, LInv, Types, Order
<1>1. /\ loader[p] \in {"fresh", "rotating"}
      /\ sealed' = made + 1
      /\ made' = made + 1
      /\ \A q \in Procs : loader'[q] = IF q = p THEN "up" ELSE loader[q]
      /\ \A q \in Procs : store'[q] = IF q = p THEN made + 1 ELSE store[q]
  BY DEF Generate, HostsTyped, LegsTyped, LoadersTyped, KeysTyped
<1>2. UNCHANGED <<pidFile, clientSock, runtimeSock, host, job, peer, backlog, signalled, script,
                  again, said, failures>>
  BY DEF Generate, files, keyVars, hostVars, shellVars
<1>3. LegsTyped'
  <2>1. Spawned \subseteq Spawned'
    BY <1>1, <1>2 DEF Spawned
  <2>2. peer' \in [Procs -> {None} \cup Spawned']
    BY <1>2, <2>1 DEF LegsTyped
  <2>3. backlog' \in [Procs -> Seq(Spawned)]
    BY <1>2 DEF LegsTyped
  <2>4. backlog' \in [Procs -> Seq(Spawned')]
    BY <2>1, <2>3, QueuesGrow
  <2>5. \A q \in Procs : /\ backlog'[q] # <<>> => Listening(q)'
                         /\ host'[q] \in Joined => peer'[q] # None
    BY <1>2 DEF LegsTyped, Listening, Joined
  <2> QED  BY <2>1, <2>2, <2>3, <2>4, <2>5 DEF LegsTyped, Listening
<1>4. LoadersTyped'
  BY <1>1, <1>2 DEF LoadersTyped, Working, Gone, Generate, Inside, Entering
<1>5. KeysTyped'
  BY <1>1, <1>2 DEF KeysTyped, Generate, Inside, Entering, Working, Gone
<1>6. PathsTyped' /\ HostsTyped' /\ InOrder' /\ ShellTyped'
  BY <1>2 DEF PathsTyped, HostsTyped, InOrder, ShellTyped, Started, Inside, Entering
<1>7. ASSUME Patient PROVE Order'
  <2>1. Alone'
    BY <1>1, <1>2, <1>7 DEF Alone, Watched, Stages, Entering, Inside, Gone
  <2>2. Watched'
    BY <1>1, <1>2, <1>7 DEF Watched, Alone, Entering, Inside, Gone
  <2>3. Stages'
    BY <1>1, <1>2, <1>7 DEF Stages, Alone, Watched, Entering, Inside, Gone
  <2>4. OwnLegs'
    BY <1>1, <1>2, <1>7 DEF OwnLegs, Joined
  <2>5. InStep'
    BY <1>1, <1>2, <1>7 DEF InStep, Alone, Gone, Entering, Inside
  <2>6. Undisturbed' /\ Whole'
    BY <1>2, <1>7 DEF Undisturbed, Whole, Entering
  <2>7. Calm'
    BY <1>1, <1>2, <1>7 DEF Calm, Quiet, Cleared, Watched, Undisturbed, Entering, Inside, Gone
  <2> QED  BY <2>1, <2>2, <2>3, <2>4, <2>5, <2>6, <2>7
<1> QED  BY <1>3, <1>4, <1>5, <1>6, <1>7

(* A rotation that is asked for changes no key yet. *)
LEMMA RotateRequestKeeps ==
  ASSUME LInv, NEW p \in Procs, RotateRequest(p)
  PROVE  LInv'
<1> USE LifecycleAssumption DEF None, Empty, Procs, LInv, Types, Order
<1>1. /\ loader[p] = "up"
      /\ \A q \in Procs : loader'[q] = IF q = p THEN "rotating" ELSE loader[q]
  BY DEF RotateRequest, HostsTyped, LegsTyped, LoadersTyped, KeysTyped
<1>2. UNCHANGED <<pidFile, clientSock, runtimeSock, sealed, made, host, job, peer, backlog,
                  signalled, store, script, again, said, failures>>
  BY DEF RotateRequest, files, keyVars, hostVars, shellVars
<1>3. LegsTyped'
  <2>1. Spawned \subseteq Spawned'
    BY <1>1, <1>2 DEF Spawned
  <2>2. peer' \in [Procs -> {None} \cup Spawned']
    BY <1>2, <2>1 DEF LegsTyped
  <2>3. backlog' \in [Procs -> Seq(Spawned)]
    BY <1>2 DEF LegsTyped
  <2>4. backlog' \in [Procs -> Seq(Spawned')]
    BY <2>1, <2>3, QueuesGrow
  <2>5. \A q \in Procs : /\ backlog'[q] # <<>> => Listening(q)'
                         /\ host'[q] \in Joined => peer'[q] # None
    BY <1>2 DEF LegsTyped, Listening, Joined
  <2> QED  BY <2>1, <2>2, <2>3, <2>4, <2>5 DEF LegsTyped, Listening
<1>4. LoadersTyped'
  BY <1>1, <1>2 DEF LoadersTyped, Working, Gone, RotateRequest, Inside, Entering
<1>5. PathsTyped' /\ HostsTyped' /\ InOrder' /\ KeysTyped' /\ ShellTyped'
  BY <1>2 DEF PathsTyped, HostsTyped, InOrder, KeysTyped, ShellTyped, Started, Inside, Entering
<1>6. ASSUME Patient PROVE Order'
  <2>1. Alone'
    BY <1>1, <1>2, <1>6 DEF Alone, Watched, Stages, Entering, Inside, Gone
  <2>2. Watched'
    BY <1>1, <1>2, <1>6 DEF Watched, Alone, Entering, Inside, Gone
  <2>3. Stages'
    BY <1>1, <1>2, <1>6 DEF Stages, Alone, Watched, Entering, Inside, Gone
  <2>4. OwnLegs'
    BY <1>1, <1>2, <1>6 DEF OwnLegs, Joined
  <2>5. InStep'
    BY <1>1, <1>2, <1>6 DEF InStep
  <2>6. Undisturbed' /\ Whole'
    BY <1>2, <1>6 DEF Undisturbed, Whole, Entering
  <2>7. Calm'
    BY <1>1, <1>2, <1>6 DEF Calm, Quiet, Cleared, Watched, Undisturbed, Entering, Inside, Gone
  <2> QED  BY <2>1, <2>2, <2>3, <2>4, <2>5, <2>6, <2>7
<1> QED  BY <1>3, <1>4, <1>5, <1>6

(* daemon.sh looks for a running process before it starts one. *)
LEMMA StartCheckKeeps ==
  ASSUME LInv, StartCheck
  PROVE  LInv'
<1> USE LifecycleAssumption DEF None, Empty, Procs, LInv, Types, Order
<1>1. /\ script = "check"
      /\ script' \in {"idle", "spawn"} /\ said' # "stopped"
      /\ script' \notin {"rm_pid", "rm_client", "rm_runtime"}
      /\ script' \in {"idle", "check", "spawn", "sleep", "kill", "rm_pid", "rm_client", "rm_runtime"}
      /\ said' \in {"nothing", "running", "started", "failed", "stopped"}
  BY DEF StartCheck, Say, HostsTyped, LegsTyped, LoadersTyped, KeysTyped
<1>2. UNCHANGED <<pidFile, clientSock, runtimeSock, sealed, made, host, job, peer, backlog,
                  signalled, loader, store, again, failures>>
  BY DEF StartCheck, Say, files, keyVars, hostVars, shellVars
<1>3. ShellTyped'
  BY <1>1, <1>2 DEF ShellTyped
<1>4. PathsTyped' /\ HostsTyped' /\ InOrder' /\ LegsTyped' /\ LoadersTyped' /\ KeysTyped'
  BY <1>2 DEF PathsTyped, HostsTyped, InOrder, LegsTyped, LoadersTyped, KeysTyped, Started,
     Inside, Entering, Joined, Listening, Spawned, Working, Gone
<1>5. ASSUME Patient PROVE Order'
  <2>1. Undisturbed'
    BY <1>1, <1>2, <1>5 DEF Undisturbed, Entering
  <2>2. Whole'
    BY <1>1, <1>2, <1>5 DEF Whole, Alone, Watched, Stages, Entering, Inside, Gone
  <2>3. Alone' /\ Watched' /\ Stages' /\ OwnLegs' /\ InStep'
    BY <1>2, <1>5 DEF Alone, Watched, Stages, OwnLegs, InStep, Entering, Inside, Gone, Joined
  <2>4. Calm'
    BY <1>1, <1>2, <1>5 DEF Calm, Quiet, Cleared, Watched, Undisturbed, Entering, Inside, Gone
  <2> QED  BY <2>1, <2>2, <2>3, <2>4
<1> QED  BY <1>3, <1>4, <1>5

(* It reports what it finds a second later. *)
LEMMA StartReportKeeps ==
  ASSUME LInv, StartReport
  PROVE  LInv'
<1> USE LifecycleAssumption DEF None, Empty, Procs, LInv, Types, Order
<1>1. /\ script = "sleep"
      /\ script' = "idle" /\ said' # "stopped"
      /\ script' \in {"idle", "check", "spawn", "sleep", "kill", "rm_pid", "rm_client", "rm_runtime"}
      /\ said' \in {"nothing", "running", "started", "failed", "stopped"}
  BY DEF StartReport, Say, HostsTyped, LegsTyped, LoadersTyped, KeysTyped
<1>2. UNCHANGED <<pidFile, clientSock, runtimeSock, sealed, made, host, job, peer, backlog,
                  signalled, loader, store, again, failures>>
  BY DEF StartReport, Say, files, keyVars, hostVars, shellVars
<1>3. ShellTyped'
  BY <1>1, <1>2 DEF ShellTyped
<1>4. PathsTyped' /\ HostsTyped' /\ InOrder' /\ LegsTyped' /\ LoadersTyped' /\ KeysTyped'
  BY <1>2 DEF PathsTyped, HostsTyped, InOrder, LegsTyped, LoadersTyped, KeysTyped, Started,
     Inside, Entering, Joined, Listening, Spawned, Working, Gone
<1>5. ASSUME Patient PROVE Order'
  <2>1. Undisturbed'
    BY <1>1, <1>2, <1>5 DEF Undisturbed, Entering
  <2>2. Whole'
    BY <1>1, <1>2, <1>5 DEF Whole, Alone, Watched, Stages, Entering, Inside, Gone
  <2>3. Alone' /\ Watched' /\ Stages' /\ OwnLegs' /\ InStep'
    BY <1>2, <1>5 DEF Alone, Watched, Stages, OwnLegs, InStep, Entering, Inside, Gone, Joined
  <2>4. Calm'
    BY <1>1, <1>2, <1>5 DEF Calm, Quiet, Cleared, Watched, Undisturbed, Entering, Inside, Gone
  <2> QED  BY <2>1, <2>2, <2>3, <2>4
<1> QED  BY <1>3, <1>4, <1>5

(* A stop signals the process the pid file names, which is the serving one. *)
LEMMA StopKillKeeps ==
  ASSUME LInv, StopKill
  PROVE  LInv'
<1> USE LifecycleAssumption DEF None, Empty, Procs, LInv, Types, Order
<1>1. /\ script = "kill"
      /\ pidFile # Empty
      /\ script' = IF pidFile = None THEN "rm_client" ELSE "rm_pid"
      /\ signalled' = IF pidFile \in Procs /\ host[pidFile] \notin {"unborn", "dead"}
          THEN signalled \cup {pidFile} ELSE signalled
      /\ script' \in {"idle", "check", "spawn", "sleep", "kill", "rm_pid", "rm_client", "rm_runtime"}
      /\ said' = "nothing"
      /\ said' \in {"nothing", "running", "started", "failed", "stopped"}
  BY DEF StopKill, Say, IsRunning, Alive, HostsTyped, LegsTyped, LoadersTyped, KeysTyped
<1>2. UNCHANGED <<pidFile, clientSock, runtimeSock, sealed, made, host, job, peer, backlog,
                  loader, store, again, failures>>
  BY DEF StopKill, Say, IsRunning, Alive, files, keyVars, hostVars, shellVars
<1>3. PathsTyped'
  BY <1>1, <1>2 DEF PathsTyped, Started
<1>4. ShellTyped'
  BY <1>1, <1>2 DEF ShellTyped
<1>5. HostsTyped' /\ InOrder' /\ LegsTyped' /\ LoadersTyped' /\ KeysTyped'
  BY <1>2 DEF HostsTyped, InOrder, LegsTyped, LoadersTyped, KeysTyped, Inside, Entering, Started,
     Joined, Listening, Spawned, Working, Gone
<1>6. ASSUME Patient PROVE Order'
  <2>1. Watched'
    BY <1>1, <1>2, <1>6 DEF Watched, Undisturbed, Entering, Inside, Gone
  <2>2. Undisturbed'
    BY <1>1, <1>2, <1>6 DEF Undisturbed, Entering
  <2>3. Whole'
    BY <1>1, <1>2, <1>6 DEF Whole, Alone, Watched, Stages, Entering, Inside, Gone
  <2>4. Alone' /\ Stages' /\ OwnLegs' /\ InStep'
    BY <1>2, <1>6 DEF Alone, Stages, OwnLegs, InStep, Entering, Inside, Gone, Joined
  <2>5. Calm'
    BY <1>1, <1>2, <1>6 DEF Calm, Quiet, Cleared, Watched, Undisturbed, Entering, Inside, Gone
  <2> QED  BY <2>1, <2>2, <2>3, <2>4, <2>5
<1> QED  BY <1>3, <1>4, <1>5, <1>6

(* A stop that cannot read the pid file leaves the service whole. *)
LEMMA StopFailsKeeps ==
  ASSUME LInv, StopFails
  PROVE  LInv'
<1> USE LifecycleAssumption DEF None, Empty, Procs, LInv, Types, Order
<1>1. /\ script = "kill"
      /\ script' \notin {"rm_pid", "rm_client", "rm_runtime"}
      /\ again' \in BOOLEAN
      /\ script' \in {"idle", "check", "spawn", "sleep", "kill", "rm_pid", "rm_client", "rm_runtime"}
      /\ said' = "nothing" /\ again' = FALSE
      /\ again = FALSE => script' = "idle"
      /\ said' \in {"nothing", "running", "started", "failed", "stopped"}
  BY DEF StopFails, Say, HostsTyped, LegsTyped, LoadersTyped, KeysTyped
<1>2. UNCHANGED <<pidFile, clientSock, runtimeSock, sealed, made, host, job, peer, backlog,
                  signalled, loader, store, failures>>
  BY DEF StopFails, Say, files, keyVars, hostVars, shellVars
<1>3. ShellTyped'
  BY <1>1, <1>2 DEF ShellTyped
<1>4. PathsTyped' /\ HostsTyped' /\ InOrder' /\ LegsTyped' /\ LoadersTyped' /\ KeysTyped'
  BY <1>2 DEF PathsTyped, HostsTyped, InOrder, LegsTyped, LoadersTyped, KeysTyped, Started,
     Inside, Entering, Joined, Listening, Spawned, Working, Gone
<1>5. ASSUME Patient PROVE Order'
  <2>1. Undisturbed'
    BY <1>1, <1>2, <1>5 DEF Undisturbed, Entering
  <2>2. Whole'
    BY <1>1, <1>2, <1>5 DEF Whole, Alone, Watched, Stages, Entering, Inside, Gone
  <2>3. Alone' /\ Watched' /\ Stages' /\ OwnLegs' /\ InStep'
    BY <1>2, <1>5 DEF Alone, Watched, Stages, OwnLegs, InStep, Entering, Inside, Gone, Joined
  <2>4. Calm'
    BY <1>1, <1>2, <1>5 DEF Calm, Quiet, Cleared, Watched, Undisturbed, Entering, Inside, Gone
  <2> QED  BY <2>1, <2>2, <2>3, <2>4
<1> QED  BY <1>3, <1>4, <1>5

(* The pid file goes when the process it names was signalled. *)
LEMMA StopRemovePidKeeps ==
  ASSUME LInv, StopRemovePid
  PROVE  LInv'
<1> USE LifecycleAssumption DEF None, Empty, Procs, LInv, Types, Order
<1>1. /\ script = "rm_pid"
      /\ script' = "rm_client"
      /\ script' \in {"idle", "check", "spawn", "sleep", "kill", "rm_pid", "rm_client", "rm_runtime"}
      /\ said' = "nothing"
      /\ said' \in {"nothing", "running", "started", "failed", "stopped"}
      /\ pidFile' = None
  BY DEF StopRemovePid, Say, HostsTyped, LegsTyped, LoadersTyped, KeysTyped
<1>2. UNCHANGED <<clientSock, runtimeSock, sealed, made, host, job, peer, backlog, signalled,
                  loader, store, again, failures>>
  BY DEF StopRemovePid, Say, files, keyVars, hostVars, shellVars
<1>3. PathsTyped'
  BY <1>1, <1>2 DEF PathsTyped, Started
<1>4. ShellTyped'
  BY <1>1, <1>2 DEF ShellTyped
<1>5. HostsTyped' /\ InOrder' /\ LegsTyped' /\ LoadersTyped' /\ KeysTyped'
  BY <1>2 DEF HostsTyped, InOrder, LegsTyped, LoadersTyped, KeysTyped, Inside, Entering, Started,
     Joined, Listening, Spawned, Working, Gone
<1>6. ASSUME Patient PROVE Order'
  <2>1. Undisturbed'
    BY <1>1, <1>2, <1>6 DEF Undisturbed, Entering
  <2>2. Stages'
    BY <1>1, <1>2, <1>6 DEF Stages, Undisturbed, Entering
  <2>3. Whole'
    BY <1>1, <1>2, <1>6 DEF Whole, Alone, Watched, Stages, Entering, Inside, Gone
  <2>4. Alone' /\ Watched' /\ OwnLegs' /\ InStep'
    BY <1>2, <1>6 DEF Alone, Watched, OwnLegs, InStep, Entering, Inside, Gone, Joined
  <2>5. Calm'
    BY <1>1, <1>2, <1>6 DEF Calm, Quiet, Cleared, Watched, Undisturbed, Entering, Inside, Gone
  <2> QED  BY <2>1, <2>2, <2>3, <2>4, <2>5
<1> QED  BY <1>3, <1>4, <1>5, <1>6

(* So does the client path. *)
LEMMA StopRemoveClientKeeps ==
  ASSUME LInv, StopRemoveClient
  PROVE  LInv'
<1> USE LifecycleAssumption DEF None, Empty, Procs, LInv, Types, Order
<1>1. /\ script = "rm_client"
      /\ script' = "rm_runtime"
      /\ script' \in {"idle", "check", "spawn", "sleep", "kill", "rm_pid", "rm_client", "rm_runtime"}
      /\ said' = "nothing"
      /\ said' \in {"nothing", "running", "started", "failed", "stopped"}
      /\ clientSock' = None
  BY DEF StopRemoveClient, PathRemoved, Say, HostsTyped, LegsTyped, LoadersTyped, KeysTyped
<1>2. UNCHANGED <<pidFile, runtimeSock, sealed, made, host, job, peer, backlog, signalled,
                  loader, store, again, failures>>
  BY DEF StopRemoveClient, PathRemoved, Say, files, keyVars, hostVars, shellVars
<1>3. PathsTyped'
  BY <1>1, <1>2 DEF PathsTyped, Started
<1>4. ShellTyped'
  BY <1>1, <1>2 DEF ShellTyped
<1>5. HostsTyped' /\ InOrder' /\ LegsTyped' /\ LoadersTyped' /\ KeysTyped'
  BY <1>2 DEF HostsTyped, InOrder, LegsTyped, LoadersTyped, KeysTyped, Inside, Entering, Started,
     Joined, Listening, Spawned, Working, Gone
<1>6. ASSUME Patient PROVE Order'
  <2>1. Watched'
    BY <1>1, <1>2, <1>6 DEF Watched, Undisturbed, Entering, Inside, Gone
  <2>2. Undisturbed'
    BY <1>1, <1>2, <1>6 DEF Undisturbed, Entering
  <2>3. Stages'
    BY <1>1, <1>2, <1>6 DEF Stages, Undisturbed, Entering
  <2>4. Whole'
    BY <1>1, <1>2, <1>6 DEF Whole, Alone, Watched, Stages, Entering, Inside, Gone
  <2>5. Alone' /\ OwnLegs' /\ InStep'
    BY <1>2, <1>6 DEF Alone, OwnLegs, InStep, Entering, Inside, Gone, Joined
  <2>6. Calm'
    BY <1>1, <1>2, <1>6 DEF Calm, Quiet, Cleared, Watched, Undisturbed, Entering, Inside, Gone
  <2> QED  BY <2>1, <2>2, <2>3, <2>4, <2>5, <2>6
<1> QED  BY <1>3, <1>4, <1>5, <1>6

(* So does the runtime path, and a restart goes on to its start. *)
LEMMA StopRemoveRuntimeKeeps ==
  ASSUME LInv, StopRemoveRuntime
  PROVE  LInv'
<1> USE LifecycleAssumption DEF None, Empty, Procs, LInv, Types, Order
<1>1. /\ script = "rm_runtime"
      /\ script' \notin {"rm_pid", "rm_client", "rm_runtime"}
      /\ again' \in BOOLEAN
      /\ script' \in {"idle", "check", "spawn", "sleep", "kill", "rm_pid", "rm_client", "rm_runtime"}
      /\ said' = "stopped" /\ again' = FALSE
      /\ again = FALSE => script' = "idle"
      /\ said' \in {"nothing", "running", "started", "failed", "stopped"}
      /\ runtimeSock' = None
  BY DEF StopRemoveRuntime, PathRemoved, Say, HostsTyped, LegsTyped, LoadersTyped, KeysTyped
<1>2. UNCHANGED <<pidFile, clientSock, sealed, made, host, job, peer, backlog, signalled, loader,
                  store, failures>>
  BY DEF StopRemoveRuntime, PathRemoved, Say, files, keyVars, hostVars, shellVars
<1>3. PathsTyped'
  BY <1>1, <1>2 DEF PathsTyped, Started
<1>4. ShellTyped'
  BY <1>1, <1>2 DEF ShellTyped
<1>5. HostsTyped' /\ InOrder' /\ LegsTyped' /\ LoadersTyped' /\ KeysTyped'
  BY <1>2 DEF HostsTyped, InOrder, LegsTyped, LoadersTyped, KeysTyped, Inside, Entering, Started,
     Joined, Listening, Spawned, Working, Gone
<1>6. ASSUME Patient PROVE Order'
  <2>1. Watched'
    BY <1>1, <1>2, <1>6 DEF Watched, Undisturbed, Entering, Inside, Gone
  <2>2. Undisturbed'
    BY <1>1, <1>2, <1>6 DEF Undisturbed, Entering
  <2>3. Stages'
    BY <1>1, <1>2, <1>6 DEF Stages, Undisturbed, Entering
  <2>4. Whole'
    BY <1>1, <1>2, <1>6 DEF Whole, Alone, Watched, Stages, Entering, Inside, Gone
  <2>5. Alone' /\ OwnLegs' /\ InStep'
    BY <1>2, <1>6 DEF Alone, OwnLegs, InStep, Entering, Inside, Gone, Joined
  <2>6. Calm'
    <3>1. \A q \in Procs : host[q] \in {"unborn", "up", "dead"}
      BY <1>1, <1>6 DEF Undisturbed, HostsTyped, Inside
    <3> QED  BY <1>1, <1>2, <1>6, <3>1 DEF Calm, Quiet, Cleared
  <2> QED  BY <2>1, <2>2, <2>3, <2>4, <2>5, <2>6
<1> QED  BY <1>3, <1>4, <1>5, <1>6

(* The first connection at a listener is that of the process's own enclave. *)
LEMMA AcceptLegKeeps ==
  ASSUME LInv, NEW p \in Procs, AcceptLeg(p)
  PROVE  LInv'
<1> USE LifecycleAssumption DEF None, Empty, Procs, LInv, Types, Order
<1>1. /\ host[p] = "accept"
      /\ peer'[p] \in Procs /\ loader[peer'[p]] # "unborn"
      /\ \A q \in Procs \ {p} : peer'[q] = peer[q]
      /\ Patient => peer'[p] = p /\ backlog[p] = <<p>> /\ backlog'[p] = <<>> /\ loader[p] # "loading"
      /\ \A q \in Procs : host'[q] = IF q = p THEN "ready" ELSE host[q]
      /\ \A q \in Procs : backlog'[q] = IF q = p THEN Tail(backlog[p]) ELSE backlog[q]
  <2>1. /\ host[p] = "accept"
        /\ \A q \in Procs : host'[q] = IF q = p THEN "ready" ELSE host[q]
    BY DEF AcceptLeg, Goto, HostsTyped
  <2>2. /\ \A q \in Procs : backlog'[q] = IF q = p THEN Tail(backlog[p]) ELSE backlog[q]
        /\ \A q \in Procs : peer'[q] = IF q = p THEN Head(backlog[p]) ELSE peer[q]
    BY DEF AcceptLeg, LegsTyped
  <2>3. backlog[p] \in Seq(Spawned) /\ backlog[p] # <<>>
    BY DEF AcceptLeg, LegsTyped
  <2>4. Head(backlog[p]) \in Spawned
    BY <2>3
  <2>5. Patient => backlog[p] = <<p>> /\ loader[p] # "loading"
    BY <2>3 DEF OwnLegs
  <2>6. Head(<<p>>) = p /\ Tail(<<p>>) = <<>>
    OBVIOUS
  <2>7. Patient => peer'[p] = p /\ backlog'[p] = <<>>
    BY <2>2, <2>5, <2>6
  <2>8. peer'[p] \in Spawned /\ \A q \in Procs \ {p} : peer'[q] = peer[q]
    BY <2>2, <2>4
  <2> QED  BY ONLY <2>1, <2>2, <2>5, <2>7, <2>8 DEF Spawned
<1>2. UNCHANGED <<pidFile, clientSock, runtimeSock, sealed, made, job, signalled, loader, store,
                  script, again, said, failures>>
  BY DEF AcceptLeg, Goto, files, keyVars, hostVars, shellVars
<1>3. Started' = Started
  BY <1>1 DEF Started
<1>4. PathsTyped'
  BY <1>1, <1>2, <1>3 DEF PathsTyped, Started
<1>5. HostsTyped'
  BY <1>1, <1>2 DEF HostsTyped, Inside, Entering, AcceptLeg, Goto, Working, Gone
<1>6. InOrder'
  BY <1>3 DEF InOrder
<1>7. LegsTyped'
  <2>1. Spawned' = Spawned
    BY <1>2 DEF Spawned
  <2>2. peer' \in [Procs -> {None} \cup Spawned']
    BY <1>1, <1>2, <2>1 DEF LegsTyped, AcceptLeg, Goto, Spawned
  <2>3. backlog' \in [Procs -> Seq(Spawned)]
    BY <1>1, <1>2 DEF LegsTyped, AcceptLeg, Goto, Spawned
  <2>4. ASSUME NEW q \in Procs
        PROVE  /\ backlog'[q] # <<>> => Listening(q)'
               /\ host'[q] \in Joined => peer'[q] # None
    <3>1. backlog[q] # <<>> => Listening(q)
      BY DEF LegsTyped
    <3>2. host[q] \in Joined => peer[q] # None
      BY DEF LegsTyped
    <3>3. CASE q = p
      BY <1>1, <3>3 DEF Listening
    <3>4. CASE q # p
      <4>1. host'[q] = host[q] /\ backlog'[q] = backlog[q] /\ peer'[q] = peer[q]
        BY <1>1, <3>4
      <4> QED  BY ONLY <4>1, <3>1, <3>2, q \in Procs DEF Listening
    <3> QED  BY <3>3, <3>4
  <2> QED  BY <2>1, <2>2, <2>3, <2>4 DEF LegsTyped, Listening
<1>8. LoadersTyped' /\ KeysTyped' /\ ShellTyped'
  BY <1>2 DEF LoadersTyped, KeysTyped, ShellTyped, Working, Gone
<1>9. ASSUME Patient PROVE Order'
  <2>1. Alone'
    BY <1>1, <1>2, <1>9 DEF Alone, Watched, Stages, Entering, Inside, Gone
  <2>2. Watched'
    BY <1>1, <1>2, <1>9 DEF Watched, Alone, Entering, Inside, Gone
  <2>3. Undisturbed'
    BY <1>1, <1>2, <1>9 DEF Undisturbed, Entering
  <2>4. Stages'
    BY <1>1, <1>2, <1>9 DEF Stages, Alone, Watched, Entering, Inside, Gone
  <2>5. OwnLegs'
    BY <1>1, <1>2, <1>9 DEF OwnLegs, Joined
  <2>6. Whole'
    BY <1>1, <1>2, <1>9 DEF Whole, Alone, Watched, Stages, Entering, Inside, Gone
  <2>7. InStep'
    BY <1>2, <1>9 DEF InStep
  <2>8. Calm'
    BY <1>1, <1>2, <1>9 DEF Calm, Quiet, Cleared, Watched, Undisturbed, Entering, Inside, Gone
  <2> QED  BY <2>1, <2>2, <2>3, <2>4, <2>5, <2>6, <2>7, <2>8
<1> QED  BY <1>3, <1>4, <1>5, <1>6, <1>7, <1>8, <1>9

(* An enclave that finds a listener finds that of its own process. *)
LEMMA ConnectStreamKeeps ==
  ASSUME LInv, NEW p \in Procs, Listening(runtimeSock), loader[p] = "loading",
         backlog' = [backlog EXCEPT ![runtimeSock] = Append(@, p)],
             loader' = [loader EXCEPT ![p] = "boot"],
         UNCHANGED <<files, keyVars, host, job, peer, shellVars, failures>>
  PROVE  LInv'
<1> USE LifecycleAssumption DEF None, Empty, Procs, LInv, Types, Order
<1>1. /\ loader[p] = "loading"
      /\ Listening(runtimeSock)
      /\ \A q \in Procs : backlog'[q] = IF q = runtimeSock THEN Append(backlog[runtimeSock], p)
          ELSE backlog[q]
      /\ \A q \in Procs : loader'[q] = IF q = p THEN "boot" ELSE loader[q]
  BY DEF HostsTyped, LegsTyped, LoadersTyped, KeysTyped
<1>2. UNCHANGED <<pidFile, clientSock, runtimeSock, sealed, made, host, job, peer, signalled,
                  store, script, again, said, failures>>
  BY DEF files, keyVars, hostVars, shellVars
<1>3. LegsTyped'
  <2>1. Spawned \subseteq Spawned'
    BY <1>1, <1>2 DEF Spawned
  <2>2. peer' \in [Procs -> {None} \cup Spawned']
    BY <1>2, <2>1 DEF LegsTyped
  <2>3. backlog' \in [Procs -> Seq(Spawned)]
    <3>1. backlog[runtimeSock] \in Seq(Spawned) /\ p \in Spawned
      BY <1>1 DEF LegsTyped, Listening, Spawned
    <3>2. Append(backlog[runtimeSock], p) \in Seq(Spawned)
      BY ONLY <3>1
    <3> QED  BY <3>2 DEF LegsTyped
  <2>4. backlog' \in [Procs -> Seq(Spawned')]
    BY <2>1, <2>3, QueuesGrow
  <2>5. \A q \in Procs : /\ backlog'[q] # <<>> => Listening(q)'
                         /\ host'[q] \in Joined => peer'[q] # None
    BY <1>1, <1>2 DEF LegsTyped, Listening, Joined
  <2> QED  BY <2>1, <2>2, <2>3, <2>4, <2>5 DEF LegsTyped, Listening
<1>4. LoadersTyped'
  BY <1>1, <1>2 DEF LoadersTyped, Working, Gone, Inside, Entering
<1>5. PathsTyped' /\ HostsTyped' /\ InOrder' /\ KeysTyped' /\ ShellTyped'
  BY <1>2 DEF PathsTyped, HostsTyped, InOrder, KeysTyped, ShellTyped, Started, Inside, Entering
<1>6. ASSUME Patient PROVE Order'
  <2>1. Alone'
    BY <1>1, <1>2, <1>6 DEF Alone, Watched, Stages, Entering, Inside, Gone
  <2>2. Watched'
    BY <1>1, <1>2, <1>6 DEF Watched, Alone, Entering, Inside, Gone
  <2>3. Stages'
    BY <1>1, <1>2, <1>6 DEF Stages, Alone, Watched, Entering, Inside, Gone
  <2>4. OwnLegs'
    <3>1. runtimeSock = p /\ host[p] = "accept" /\ backlog[p] = <<>>
      <4>1. runtimeSock \in Procs /\ host[runtimeSock] \in {"accept", "ready"}
        BY <1>1 DEF Listening
      <4>2. runtimeSock = p
        BY <1>1, <1>6, <4>1 DEF Alone, Entering, Inside, Gone
      <4>3. peer[p] = None /\ backlog[p] = <<>>
        BY <1>1, <1>6 DEF OwnLegs
      <4> QED  BY <4>1, <4>2, <4>3 DEF LegsTyped, Joined
    <3>2. Append(<<>>, p) = <<p>>
      OBVIOUS
    <3> QED  BY <1>1, <1>2, <1>6, <3>1, <3>2 DEF OwnLegs, Joined
  <2>5. InStep'
    BY <1>1, <1>2, <1>6 DEF InStep
  <2>6. Undisturbed' /\ Whole'
    BY <1>2, <1>6 DEF Undisturbed, Whole, Entering
  <2>7. Calm'
    BY <1>1, <1>2, <1>6 DEF Calm, Quiet, Cleared, Watched, Undisturbed, Entering, Inside, Gone
  <2> QED  BY <2>1, <2>2, <2>3, <2>4, <2>5, <2>6, <2>7
<1> QED  BY <1>3, <1>4, <1>5, <1>6

(* An enclave that finds no listener ends. *)
LEMMA ConnectRefusedKeeps ==
  ASSUME LInv, NEW p \in Procs, loader[p] = "loading", loader' = [loader EXCEPT ![p] = "failed"],
         UNCHANGED <<files, keyVars, hostVars, shellVars, failures>>
  PROVE  LInv'
<1> USE LifecycleAssumption DEF None, Empty, Procs, LInv, Types, Order
<1>1. /\ loader[p] = "loading"
      /\ \A q \in Procs : loader'[q] = IF q = p THEN "failed" ELSE loader[q]
  BY DEF HostsTyped, LegsTyped, LoadersTyped, KeysTyped
<1>2. UNCHANGED <<pidFile, clientSock, runtimeSock, sealed, made, host, job, peer, backlog,
                  signalled, store, script, again, said, failures>>
  BY DEF files, keyVars, hostVars, shellVars
<1>3. LegsTyped'
  <2>1. Spawned \subseteq Spawned'
    BY <1>1, <1>2 DEF Spawned
  <2>2. peer' \in [Procs -> {None} \cup Spawned']
    BY <1>2, <2>1 DEF LegsTyped
  <2>3. backlog' \in [Procs -> Seq(Spawned)]
    BY <1>2 DEF LegsTyped
  <2>4. backlog' \in [Procs -> Seq(Spawned')]
    BY <2>1, <2>3, QueuesGrow
  <2>5. \A q \in Procs : /\ backlog'[q] # <<>> => Listening(q)'
                         /\ host'[q] \in Joined => peer'[q] # None
    BY <1>2 DEF LegsTyped, Listening, Joined
  <2> QED  BY <2>1, <2>2, <2>3, <2>4, <2>5 DEF LegsTyped, Listening
<1>4. LoadersTyped'
  BY <1>1, <1>2 DEF LoadersTyped, Working, Gone, Inside, Entering
<1>5. PathsTyped' /\ HostsTyped' /\ InOrder' /\ KeysTyped' /\ ShellTyped'
  BY <1>2 DEF PathsTyped, HostsTyped, InOrder, KeysTyped, ShellTyped, Started, Inside, Entering
<1>6. ASSUME Patient PROVE Order'
  <2>1. Alone'
    BY <1>1, <1>2, <1>6 DEF Alone, Watched, Stages, Entering, Inside, Gone
  <2>2. Watched'
    BY <1>1, <1>2, <1>6 DEF Watched, Alone, Entering, Inside, Gone
  <2>3. Stages'
    BY <1>1, <1>2, <1>6 DEF Stages, Alone, Watched, Entering, Inside, Gone
  <2>4. OwnLegs'
    BY <1>1, <1>2, <1>6 DEF OwnLegs, Joined
  <2>5. InStep'
    BY <1>1, <1>2, <1>6 DEF InStep
  <2>6. Undisturbed' /\ Whole'
    BY <1>2, <1>6 DEF Undisturbed, Whole, Entering
  <2>7. Calm'
    BY <1>1, <1>2, <1>6 DEF Calm, Quiet, Cleared, Watched, Undisturbed, Entering, Inside, Gone
  <2> QED  BY <2>1, <2>2, <2>3, <2>4, <2>5, <2>6, <2>7
<1> QED  BY <1>3, <1>4, <1>5, <1>6

(* The number of the next process is free, and it follows those in use. *)
LEMMA NextIsFree ==
  ASSUME LInv, NextProc \in Procs
  PROVE  /\ host[NextProc] = "unborn"
         /\ Started \cup {NextProc} = 1..NextProc
<1> USE LifecycleAssumption DEF Procs
<1>1. PICK n \in 0..MaxProcs : Started = 1..n
  BY DEF LInv, Types, InOrder
<1>2. Cardinality(1..n) = n
  BY FS_Interval
<1>3. NextProc = n + 1
  <2>1. NextProc = 1 + Cardinality(Started)
    BY DEF NextProc, Started
  <2> QED  BY ONLY <1>1, <1>2, <2>1
<1> QED  BY <1>1, <1>3 DEF Started

(* At rest whatever works belongs to a service that is whole. *)
LEMMA RestIsWhole ==
  ASSUME LInv, Patient, AtRest
  PROVE  /\ \A q \in Procs : /\ host[q] \in {"unborn", "up", "dead"}
                             /\ host[q] = "up" => q \notin signalled
         /\ \A l \in Procs : loader[l] \notin Gone => clientSock = l /\ runtimeSock = l
<1> USE LifecycleAssumption DEF None, Procs, LInv, Types, Order
<1>1. \A q \in Procs : /\ host[q] \in {"unborn", "up", "dead"}
                       /\ host[q] = "up" => q \notin signalled
  BY DEF AtRest, Alive
<1>2. ASSUME NEW l \in Procs, loader[l] \notin Gone
      PROVE  clientSock = l /\ runtimeSock = l
  <2>1. Connected(l)
    BY <1>2 DEF AtRest
  <2>2. PICK q \in Procs : peer[q] = l \/ l \in Range(backlog[q])
    BY <2>1 DEF Connected
  <2>3. backlog[q] = <<>>
    BY <1>1 DEF OwnLegs
  <2>4. peer[q] = l
    BY <2>2, <2>3 DEF Range
  <2>5. q = l /\ host[q] = "up"
    BY <1>1, <2>4 DEF OwnLegs, Joined
  <2> QED  BY <1>1, <2>5 DEF Whole
<1> QED  BY <1>1, <1>2

(* A command of the scripts falls into no start of a careful operator. *)
LEMMA CommandKeeps ==
  ASSUME LInv, script = "idle", NEW c \in {"start", "stop", "restart"}, Command(c)
  PROVE  LInv'
<1> USE LifecycleAssumption DEF None, Empty, Procs, LInv, Types, Order
<1>1. /\ script = "idle"
      /\ Patient => AtRest
      /\ script' \in {"check", "kill"}
      /\ said' = "nothing"
      /\ again' \in BOOLEAN
      /\ Patient => again' = FALSE
  BY DEF Patient, Command, Say, HostsTyped, LegsTyped, LoadersTyped, KeysTyped
<1>2. UNCHANGED <<pidFile, clientSock, runtimeSock, sealed, made, host, job, peer, backlog,
                  signalled, loader, store, failures>>
  BY DEF Command, Say, files, keyVars, hostVars, shellVars
<1>3. ShellTyped'
  BY <1>1, <1>2 DEF ShellTyped
<1>4. PathsTyped' /\ HostsTyped' /\ InOrder' /\ LegsTyped' /\ LoadersTyped' /\ KeysTyped'
  BY <1>2 DEF PathsTyped, HostsTyped, InOrder, LegsTyped, LoadersTyped, KeysTyped, Started,
     Inside, Entering, Joined, Listening, Spawned, Working, Gone
<1>5. ASSUME Patient PROVE Order'
  <2>1. Undisturbed'
    BY <1>1, <1>2, <1>5 DEF Undisturbed, AtRest, Entering
  <2>2. Whole'
    BY <1>1, <1>2, <1>5 DEF Whole, Alone, Watched, Stages, Entering, Inside, Gone
  <2>3. Alone' /\ Watched' /\ Stages' /\ OwnLegs' /\ InStep'
    BY <1>2, <1>5 DEF Alone, Watched, Stages, OwnLegs, InStep, Entering, Inside, Gone, Joined
  <2>4. Calm'
    <3>1. /\ \A q \in Procs : /\ host[q] \in {"unborn", "up", "dead"}
                              /\ host[q] = "up" => q \notin signalled
          /\ \A l \in Procs : loader[l] \notin Gone => clientSock = l /\ runtimeSock = l
      BY <1>1, <1>5, RestIsWhole
    <3> QED  BY <1>1, <1>2, <1>5, <3>1 DEF Calm, Quiet, Cleared, Gone
  <2> QED  BY <2>1, <2>2, <2>3, <2>4
<1> QED  BY <1>3, <1>4, <1>5

(* A process is started where nothing else is under way. *)
LEMMA SpawnKeeps ==
  ASSUME LInv, NEW c \in {"serve", "attest"}, Patient => AtRest \/ script = "spawn", Spawn(c),
         script' \in {"sleep", "idle"}, said' = "nothing",
         UNCHANGED <<files, keyVars, signalled, again, loader, failures>>
  PROVE  LInv'
<1> USE LifecycleAssumption DEF None, Empty, Procs, LInv, Types, Order
<1>1. /\ NextProc \in Procs /\ host[NextProc] = "unborn"
      /\ Started \cup {NextProc} = 1..NextProc
      /\ script' \in {"sleep", "idle"}
      /\ said' = "nothing"
      /\ \A q \in Procs : host'[q] = IF q = NextProc THEN "check" ELSE host[q]
      /\ \A q \in Procs : job'[q] = IF q = NextProc THEN c ELSE job[q]
  <2>1. NextProc \in Procs
    BY DEF Spawn
  <2>2. host[NextProc] = "unborn" /\ Started \cup {NextProc} = 1..NextProc
    BY <2>1, NextIsFree
  <2> QED  BY <2>1, <2>2 DEF Spawn, HostsTyped
<1>2. UNCHANGED <<pidFile, clientSock, runtimeSock, sealed, made, peer, backlog, signalled,
                  loader, store, again, failures>>
  BY DEF Spawn, files, keyVars, hostVars, shellVars
<1>3. Started' = Started \cup {NextProc}
  BY <1>1 DEF Started
<1>4. PathsTyped'
  BY <1>1, <1>2, <1>3 DEF PathsTyped, Started
<1>5. HostsTyped'
  BY <1>1, <1>2 DEF HostsTyped, Inside, Entering, Spawn, Working, Gone
<1>6. InOrder'
  BY <1>1, <1>3 DEF InOrder
<1>7. LegsTyped'
  <2>1. Spawned' = Spawned
    BY <1>2 DEF Spawned
  <2>2. peer' \in [Procs -> {None} \cup Spawned']
    BY <1>2, <2>1 DEF LegsTyped
  <2>3. backlog' \in [Procs -> Seq(Spawned)]
    BY <1>2 DEF LegsTyped
  <2>4. \A q \in Procs : /\ backlog'[q] # <<>> => Listening(q)'
                         /\ host'[q] \in Joined => peer'[q] # None
    BY <1>1, <1>2 DEF LegsTyped, Listening, Joined
  <2> QED  BY <2>1, <2>2, <2>3, <2>4 DEF LegsTyped, Listening
<1>8. ShellTyped'
  BY <1>1, <1>2 DEF ShellTyped
<1>9. LoadersTyped' /\ KeysTyped'
  BY <1>2 DEF LoadersTyped, KeysTyped, Working, Gone
<1>10. ASSUME Patient PROVE Order'
  <2>1. Alone'
    BY <1>1, <1>2, <1>10 DEF Alone, Watched, Stages, Entering, Inside, Gone
  <2>2. Watched'
    <3>1. /\ \A q \in Procs : /\ host[q] \in {"unborn", "up", "dead"}
                              /\ host[q] = "up" => q \notin signalled
          /\ \A l \in Procs : loader[l] \notin Gone => clientSock = l /\ runtimeSock = l
      BY <1>10, RestIsWhole DEF Calm, Quiet
    <3> QED  BY <1>1, <1>2, <3>1 DEF Watched, Gone
  <2>3. Undisturbed'
    BY <1>1, <1>2, <1>10 DEF Undisturbed, PathsTyped, ShellTyped, Entering, Started
  <2>4. Stages'
    BY <1>1, <1>2, <1>10 DEF Stages, Entering
  <2>5. OwnLegs'
    BY <1>1, <1>2, <1>10 DEF OwnLegs, Joined
  <2>6. Whole'
    BY <1>1, <1>2, <1>10 DEF Whole
  <2>7. InStep'
    BY <1>2, <1>10 DEF InStep
  <2>8. Calm'
    BY <1>1, <1>2, <1>10 DEF Calm, Quiet, Cleared, Watched, Undisturbed, Entering, Inside, Gone
  <2> QED  BY <2>1, <2>2, <2>3, <2>4, <2>5, <2>6, <2>7, <2>8
<1> QED  BY <1>3, <1>4, <1>5, <1>6, <1>7, <1>8, <1>9, <1>10


(* What a process does that fails on its way, is told to end or is killed:
   it is gone and nothing else changes. *)
LEMMA LeavingKeeps ==
  ASSUME LInv, NEW p \in Procs, Alive(p), Exit(p),
         UNCHANGED <<files, keyVars, shellVars, loader, failures>>
  PROVE  LInv'
<1>1. failures' \in 0..MaxFailures
  BY DEF LInv, Types, ShellTyped
<1> QED  BY <1>1, ExitKeeps DEF shellVars

(* Every step of a host process keeps the invariant. *)
LEMMA HostStepKeeps ==
  ASSUME LInv, NEW p \in Procs, HostStep(p)
  PROVE  LInv'
<1>1. CASE Check(p)
  <2>1. CASE MayStart(p)
    BY <1>1, <2>1, CheckKeeps DEF Check
  <2>2. CASE ~MayStart(p)
    BY <1>1, <2>2, LeavingKeeps DEF Check, Alive
  <2> QED  BY <2>1, <2>2
<1>2. CASE Unlink(p)
  BY <1>2, UnlinkKeeps
<1>3. CASE BindRuntime(p)
  <2>1. CASE runtimeSock = None
    BY <1>3, <2>1, BindRuntimeKeeps DEF BindRuntime
  <2>2. CASE runtimeSock # None
    <3>1. Exit(p) /\ UNCHANGED <<files, keyVars, shellVars, loader, failures>>
      BY <1>3, <2>2 DEF BindRuntime, files
    <3> QED  BY <1>3, <3>1, LeavingKeeps DEF BindRuntime, Alive
  <2> QED  BY <2>1, <2>2
<1>16. CASE SpawnFails(p)
  BY <1>16, LeavingWithPathKeeps DEF SpawnFails
<1>4. CASE AcceptLeg(p)
  BY <1>4, AcceptLegKeeps
<1>5. CASE LoaderExitedEarly(p)
  BY <1>5, LeavingKeeps DEF LoaderExitedEarly, Alive
<1>6. CASE ConnectTimeout(p)
  BY <1>6, ConnectTimeoutKeeps
<1>7. CASE ReadReady(p)
  BY <1>7, ReadReadyKeeps
<1>8. CASE NoReady(p)
  BY <1>8, LeavingKeeps DEF NoReady, Alive
<1>9. CASE TruncatePid(p)
  BY <1>9, TruncatePidKeeps
<1>10. CASE WritePid(p)
  BY <1>10, WritePidKeeps
<1>11. CASE BindClient(p)
  <2>1. CASE clientSock = None
    BY <1>11, <2>1, BindClientKeeps DEF BindClient
  <2>2. CASE clientSock # None
    <3>1. Exit(p) /\ UNCHANGED <<files, keyVars, shellVars, loader, failures>>
      BY <1>11, <2>2 DEF BindClient, files
    <3> QED  BY <1>11, <3>1, LeavingKeeps DEF BindClient, Alive
  <2> QED  BY <2>1, <2>2
<1>12. CASE Attested(p)
  BY <1>12, AttestedKeeps
<1>13. CASE AttestFails(p)
  BY <1>13, LeavingKeeps DEF AttestFails, Alive
<1>14. CASE RemoveRuntimeSock(p)
  BY <1>14, LeavingWithPathKeeps DEF RemoveRuntimeSock
<1>15. CASE Terminate(p)
  BY <1>15, LeavingKeeps DEF Terminate
<1> QED  BY <1>1, <1>2, <1>3, <1>4, <1>5, <1>6, <1>7, <1>8, <1>9, <1>10, <1>11, <1>12,
            <1>13, <1>14, <1>15, <1>16 DEF HostStep

(* Every step of a loader and its enclave keeps it. *)
LEMMA LoaderStepKeeps ==
  ASSUME LInv, NEW l \in Procs, LoaderStep(l)
  PROVE  LInv'
<1>1. CASE ConnectStream(l)
  <2>1. CASE Listening(runtimeSock)
    BY <1>1, <2>1, ConnectStreamKeeps DEF ConnectStream
  <2>2. CASE ~Listening(runtimeSock)
    <3>1. UNCHANGED <<files, keyVars, hostVars, shellVars, failures>>
      BY <1>1, <2>2 DEF ConnectStream, hostVars
    <3> QED  BY <1>1, <2>2, <3>1, ConnectRefusedKeeps DEF ConnectStream
  <2> QED  BY <2>1, <2>2
<1>2. CASE BootRead(l)
  BY <1>2, BootReadKeeps
<1>3. CASE BootNewStore(l)
  BY <1>3, GenerateKeeps DEF BootNewStore
<1>4. CASE RotateAndSeal(l)
  BY <1>4, GenerateKeeps DEF RotateAndSeal
<1>5. CASE EnclaveEnds(l)
  <2>1. failures' \in 0..MaxFailures
    BY <1>5 DEF EnclaveEnds, LInv, Types, ShellTyped
  <2> QED  BY <1>5, <2>1, KilledKeeps DEF EnclaveEnds
<1> QED  BY <1>1, <1>2, <1>3, <1>4, <1>5 DEF LoaderStep

(* Every step of the scripts keeps it. *)
LEMMA ScriptStepKeeps ==
  ASSUME LInv, ScriptStep
  PROVE  LInv'
<1>1. CASE StartSpawn
  BY <1>1, SpawnKeeps DEF StartSpawn, Say
<1> QED  BY <1>1, StartCheckKeeps, StartReportKeeps, StopKillKeeps, StopFailsKeeps,
            StopRemovePidKeeps, StopRemoveClientKeeps, StopRemoveRuntimeKeeps DEF ScriptStep

(* And so does whatever the operator asks for. *)
LEMMA OperateKeeps ==
  ASSUME LInv, Operate
  PROVE  LInv'
<1>1. CASE AttestCommand
  BY <1>1, SpawnKeeps DEF AttestCommand, Patient
<1>2. ASSUME NEW c \in {"start", "stop", "restart"}, Command(c)
      PROVE  LInv'
  <2>1. script = "idle"
    BY <1>2 DEF Command
  <2> QED  BY <1>2, <2>1, CommandKeeps
<1> QED  BY <1>1, <1>2 DEF Operate

(* The invariant is inductive. *)
LEMMA NextKeeps ==
  ASSUME LInv, [Next]_vars
  PROVE  LInv'
<1>1. CASE Operate
  BY <1>1, OperateKeeps
<1>2. CASE ScriptStep
  BY <1>2, ScriptStepKeeps
<1>3. ASSUME NEW p \in Procs, HostStep(p)
      PROVE  LInv'
  BY <1>3, HostStepKeeps
<1>4. ASSUME NEW l \in Procs, LoaderStep(l)
      PROVE  LInv'
  BY <1>4, LoaderStepKeeps
<1>5. ASSUME NEW l \in Procs, RotateRequest(l)
      PROVE  LInv'
  BY <1>5, RotateRequestKeeps
<1>6. ASSUME NEW p \in Procs, HostKilled(p)
      PROVE  LInv'
  <2>1. failures' \in 0..MaxFailures
    BY <1>6, LifecycleAssumption DEF HostKilled, LInv, Types, ShellTyped
  <2> QED  BY <1>6, <2>1, ExitKeeps DEF HostKilled, shellVars
<1>7. ASSUME NEW l \in Procs, LoaderKilled(l)
      PROVE  LInv'
  <2>1. failures' \in 0..MaxFailures
    BY <1>7, LifecycleAssumption DEF LoaderKilled, LInv, Types, ShellTyped
  <2> QED  BY <1>7, <2>1, KilledKeeps DEF LoaderKilled
<1>8. CASE UNCHANGED vars
  <2>1. Types'
    BY <1>8 DEF vars, files, keyVars, hostVars, shellVars, LInv, Types, PathsTyped, HostsTyped,
                Started, InOrder, LegsTyped, Spawned, Listening, LoadersTyped, KeysTyped,
                    ShellTyped
  <2>2. Patient => Order'
    BY <1>8 DEF vars, files, keyVars, hostVars, shellVars, LInv, Order, Alone, Watched,
                Undisturbed, Stages, OwnLegs, Whole, InStep, Calm, Quiet, Cleared
  <2> QED  BY <2>1, <2>2 DEF LInv
<1> QED  BY <1>1, <1>2, <1>3, <1>4, <1>5, <1>6, <1>7, <1>8 DEF Next

(* It holds before anything was started. *)
LEMMA InitHolds ==
  ASSUME Init
  PROVE  LInv
<1> USE LifecycleAssumption DEF Init, None, Empty, Procs
<1>1. PathsTyped
  BY DEF PathsTyped
<1>2. ShellTyped
  <2>1. again \in BOOLEAN
    BY Zenon
  <2>2. script = "idle" /\ said = "nothing" /\ failures \in 0..MaxFailures
    OBVIOUS
  <2> QED  BY ONLY <2>1, <2>2 DEF ShellTyped
<1>3. HostsTyped /\ LoadersTyped
  BY DEF HostsTyped, LoadersTyped, Inside, Entering, Working, Gone
<1>4. KeysTyped
  BY DEF KeysTyped
<1>5. InOrder
  <2>1. Started = {}
    BY DEF Started
  <2> QED  BY <2>1 DEF InOrder
<1>6. LegsTyped
  BY DEF LegsTyped, Joined
<1>7. Order
  BY DEF Order, Alone, Watched, Undisturbed, Stages, OwnLegs, Whole, InStep, Calm, Quiet,
     Cleared, Entering, Inside, Gone
<1> QED  BY <1>1, <1>2, <1>3, <1>4, <1>5, <1>6, <1>7 DEF LInv, Types

-----------------------------------------------------------------------------
(* The theorems *)

(* The names stay in order for every operator, and for a patient one a
   process that starts finds the paths of whatever enclave is left. *)
THEOREM LifecycleInvariant == Spec => []LInv
<1>1. Init => LInv
  BY InitHolds
<1>2. LInv /\ [Next]_vars => LInv'
  BY NextKeeps
<1> QED  BY <1>1, <1>2, PTL DEF Spec

(* Whoever runs whatever commands, beside one another and with processes
   killed at any point: a path or a signal names a process that was started,
   and legs and queues hold loaders of this service. *)
THEOREM LifecycleTypes == Spec => []LifecycleTypeOK
<1>1. LInv => LifecycleTypeOK
  <2> SUFFICES ASSUME LInv PROVE LifecycleTypeOK
    OBVIOUS
  <2> USE LifecycleAssumption DEF LInv, Types, None, Empty, Procs
  <2>1. \A f \in {pidFile, clientSock, runtimeSock} :
          f = None \/ (f = Empty /\ f = pidFile) \/ host[f] # "unborn"
    BY DEF PathsTyped, Started
  <2>2. host \in [Procs -> {"unborn", "check", "unlink", "bind", "accept", "ready", "write_pid",
                            "fill_pid", "bind_client", "up", "attest", "remove", "dead"}]
    BY DEF HostsTyped, Inside, Entering
  <2>3. \A p \in Procs : peer[p] = None \/ loader[peer[p]] # "unborn"
    BY DEF LegsTyped, Spawned
  <2>4. ASSUME NEW p \in Procs, NEW l \in Range(backlog[p])
        PROVE  l \in Procs /\ Listening(p)
    <3>1. backlog[p] \in Seq(Spawned)
      BY DEF LegsTyped
    <3>2. PICK i \in DOMAIN backlog[p] : l = backlog[p][i]
      BY <2>4 DEF Range
    <3>3. l \in Spawned /\ backlog[p] # <<>>
      BY ONLY <3>1, <3>2
    <3> QED  BY <3>3 DEF LegsTyped, Spawned
  <2>5. {sealed} \cup {store[l] : l \in Procs} \subseteq 0..made
    BY DEF KeysTyped
  <2>6. job \in [Procs -> {"serve", "attest"}] /\ signalled \subseteq Procs
    BY DEF HostsTyped, PathsTyped, Started
  <2> QED  BY <2>1, <2>2, <2>3, <2>4, <2>5, <2>6 DEF LifecycleTypeOK, LoadersTyped, ShellTyped
<1> QED  BY <1>1, LifecycleInvariant, PTL

(* With commands given at rest and no restart among them no two enclaves work
   on the data directory at the same time, whatever was killed, failed to
   spawn or was left behind. *)
THEOREM EnclavesAreNeverTwo ==
  ASSUME Patient
  PROVE  Spec => []OneEnclave
<1>1. LInv => OneEnclave
  BY DEF LInv, Order, Alone, OneEnclave, Working, Gone
<1> QED  BY <1>1, LifecycleInvariant, PTL

(* With commands given so, while no script runs, a serving process that was
   not told to end is the one behind the pid file and both sockets, with its
   own enclave. *)
THEOREM ServicesAreWhole ==
  ASSUME Patient
  PROVE  Spec => []ServiceIsWhole
<1>1. LInv => ServiceIsWhole
  BY LifecycleAssumption DEF LInv, Types, LegsTyped, Order, OwnLegs, Whole, ServiceIsWhole,
     Joined, None, Procs
<1> QED  BY <1>1, LifecycleInvariant, PTL

(* With commands given so, the enclave of a service that was not told to end holds the key in the sealed
   file. *)
THEOREM ServedStoresAreSealed ==
  ASSUME Patient
  PROVE  Spec => []ServedKeysAreSealed
<1>1. LInv => ServedKeysAreSealed
  BY LifecycleAssumption DEF LInv, Types, LegsTyped, Order, OwnLegs, InStep, ServedKeysAreSealed,
     Joined, None, Procs
<1> QED  BY <1>1, LifecycleInvariant, PTL

(* With commands given so, when stop has said so none of the paths is left
   and no process that still runs was missed. *)
THEOREM StopsLeaveNothing ==
  ASSUME Patient
  PROVE  Spec => []StopLeavesNothing
<1>1. LInv => StopLeavesNothing
  <2> SUFFICES ASSUME LInv, said = "stopped"
               PROVE  /\ pidFile = None /\ clientSock = None /\ runtimeSock = None
                      /\ \A p \in Procs : Alive(p) => p \in signalled
    BY DEF StopLeavesNothing
  <2>1. /\ pidFile = None /\ clientSock = None /\ runtimeSock = None
        /\ \A p \in Procs : host[p] \in {"unborn", "up", "dead"}
    BY DEF LInv, Order, Calm, Cleared
  <2>2. None \notin Procs
    BY LifecycleAssumption DEF Procs, None
  <2> QED  BY <2>1, <2>2 DEF LInv, Order, Whole, Alive
<1> QED  BY <1>1, LifecycleInvariant, PTL

=============================================================================
