--------------------------- MODULE MCTn3270Server ---------------------------
(***************************************************************************)
(* Tn3270Server on a small instance: descriptors 3 and 4 listen, the rest  *)
(* are for clients, as many as there are connections and one more than the *)
(* limit.                                                                  *)
(***************************************************************************)
EXTENDS Tn3270Server
=============================================================================
