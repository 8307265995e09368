------------------------------ MODULE MCLayouts ------------------------------
EXTENDS Layouts

\* Lengths with the value of one byte, of both bytes and of the second alone.
SomePublicKeys == {<<1>>, <<0, 2, 1, 1>>}
SomePrivateKeys == {<<2, 2>>, <<1, 0, 2>>}
=============================================================================
