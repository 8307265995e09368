------------------------------- MODULE Relay -------------------------------
(***************************************************************************)
(* What the loader promises to the host and to the enclave: two channels   *)
(* whose readers get every frame once and in the order in which it was     *)
(* sent, until the connection closes and takes what is under way with it.  *)
(* A frame leaves its channel only to be read.  This is the host leg of    *)
(* TeeDemo.                                                                *)
(***************************************************************************)
EXTENDS Naturals, Sequences

CONSTANTS Requests, Answers     \* the frames to the enclave and to the host

VARIABLES
  open,
  toRuntime, toHost,            \* sent and not yet read
  gotRequests, gotAnswers       \* what the enclave and the host have read

relayVars == <<open, toRuntime, toHost, gotRequests, gotAnswers>>

Init ==
  /\ open = TRUE
  /\ toRuntime = <<>> /\ toHost = <<>>
  /\ gotRequests = <<>> /\ gotAnswers = <<>>

SendRequest ==
  /\ open
  /\ \E frame \in Requests : toRuntime' = Append(toRuntime, frame)
  /\ UNCHANGED <<open, toHost, gotRequests, gotAnswers>>

TakeRequest ==
  /\ toRuntime # <<>>
  /\ toRuntime' = Tail(toRuntime)
  /\ gotRequests' = Append(gotRequests, Head(toRuntime))
  /\ UNCHANGED <<open, toHost, gotAnswers>>

SendAnswer ==
  /\ open
  /\ \E frame \in Answers : toHost' = Append(toHost, frame)
  /\ UNCHANGED <<open, toRuntime, gotRequests, gotAnswers>>

TakeAnswer ==
  /\ toHost # <<>>
  /\ toHost' = Tail(toHost)
  /\ gotAnswers' = Append(gotAnswers, Head(toHost))
  /\ UNCHANGED <<open, toRuntime, gotRequests>>

\* What was delivered to the host's socket can still be read.
Close ==
  /\ open /\ open' = FALSE
  /\ toRuntime' = <<>>
  /\ \E n \in 0..Len(toHost) : toHost' = SubSeq(toHost, 1, n)
  /\ UNCHANGED <<gotRequests, gotAnswers>>

Next ==
  SendRequest \/ TakeRequest \/ SendAnswer \/ TakeAnswer \/ Close

Spec == Init /\ [][Next]_relayVars
=============================================================================
