----------------------------- MODULE KeyLedger -----------------------------
(***************************************************************************)
(* What the sealed key store promises, without the enclave that keeps it:  *)
(* a ledger of key versions.  A version is the successor of the one before *)
(* it and names one fresh key; the last RETENTION versions can be used; a  *)
(* key is published only once the ledger has it and while it is the        *)
(* newest.  Destroying the ledger is the one exception, and it leaves a    *)
(* trace.                                                                  *)
(***************************************************************************)
EXTENDS Naturals

CONSTANTS RETENTION, Keys

VARIABLES
  version,      \* the newest version, 0 when there is none
  window,       \* the key of each version that can be used
  published,    \* the versions and keys shown to clients
  lost          \* whether a ledger with keys was ever destroyed

ledgerVars == <<version, window, published, lost>>

NoKeys == [v \in {} |-> 0]

Fresh(k) ==
  /\ \A v \in DOMAIN window : window[v] # k
  /\ \A p \in published : p.public_key # k

Init ==
  /\ version = 0
  /\ window = NoKeys
  /\ published = {}
  /\ lost = FALSE

Advance(k) ==
  /\ Fresh(k)
  /\ version' = version + 1
  /\ window' = [v \in {w \in DOMAIN window \cup {version + 1} :
                         w + RETENTION > version + 1} |->
                  IF v = version + 1 THEN k ELSE window[v]]
  /\ UNCHANGED <<published, lost>>

Publish ==
  /\ version \in DOMAIN window
  /\ published' = published \cup
                    {[version |-> version, public_key |-> window[version]]}
  /\ UNCHANGED <<version, window, lost>>

\* The ledger is gone, or replaced by one that starts again at version 1.
Destroy ==
  /\ version > 0
  /\ lost' = TRUE
  /\ \/ version' = 0 /\ window' = NoKeys
     \/ \E k \in Keys : Fresh(k) /\ version' = 1 /\ window' = [v \in {1} |-> k]
  /\ UNCHANGED published

Next == (\E k \in Keys : Advance(k)) \/ Publish \/ Destroy

Spec == Init /\ [][Next]_ledgerVars
=============================================================================
