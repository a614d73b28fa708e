------------------------------ MODULE MCAnamed ------------------------------
(* Two clients on two LUs; the names leave fields open, and n3 is what a   *)
(* query for a user sends.                                                 *)
EXTENDS Anamed, TLC

CONSTANTS c1, c2, lu1, lu2, user, group

MCLuName == (c1 :> lu1) @@ (c2 :> lu2)
n1 == <<user, lu1, Unset, Unset>>
n2 == <<Unset, lu2, group, Unset>>
n3 == <<user, Unset, Unset, Unset>>
MCNames == (c1 :> {n1, n2}) @@ (c2 :> {n1, n3})
=============================================================================
