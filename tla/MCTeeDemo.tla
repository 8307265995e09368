------------------------------ MODULE MCTeeDemo ------------------------------
(* TeeDemo for TLC: which clients there are and what each of them may run. *)
EXTENDS TeeDemo

\* Two rotations are what it takes to retire the key of a calculation.
RotatingClients == {"calc1", "rotate1", "rotate2"}
RotatingCommand == [c \in RotatingClients |-> IF c = "calc1" THEN {"calc"} ELSE {"rotate"}]

\* A client that makes two requests, and one that changes the key, needs no
\* exchange, sends no proper frame or sends none at all.
MixedClients == {"calc1", "other1"}
MixedCommand == [c \in MixedClients |->
                   IF c = "calc1" THEN {"calc"}
                   ELSE {"rotate", "pubkey", "silent", "unsupported", "malformed"}]
=============================================================================
