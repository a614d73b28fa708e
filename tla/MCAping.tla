------------------------------ MODULE MCAping ------------------------------
(* A run of two rounds of three blocks, with partners on both sides of the *)
(* version that introduced one-way data.                                   *)
EXTENDS Aping

MCTpVersions == {<<1, 9>>, <<2, 1>>, <<2, 40>>}
=============================================================================
