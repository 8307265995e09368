---------------------------- MODULE MCAttestation ----------------------------
EXTENDS Attestation

\* Two byte values, a u16 of three values and a u8 of two: nonces of two and
\* three bytes wrap, keys may end where another key and a nonce begin, and
\* what stands for a key in an answer may have four bytes, which wraps to one.
SmallKeys == {<<0>>, <<1>>, <<0, 1>>, <<1, 1>>}
SmallAnswers == SmallKeys \cup [1..4 -> 0..1]
SmallNonces == {<<>>, <<0>>, <<1, 0>>, <<1, 1, 0>>}
=============================================================================
