----------------------------- MODULE MCRuntime -----------------------------
(* Runtime for TLC: the nonces are model values, the rest comes from the   *)
(* configurations.                                                         *)
EXTENDS Runtime
=============================================================================
