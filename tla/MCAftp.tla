------------------------------ MODULE MCAftp ------------------------------
(***************************************************************************)
(* Aftp with two names, one a directory or a file, on both sides.          *)
(***************************************************************************)
EXTENDS Aftp

CONSTANTS f, g, home, dot, none

MCName == <<f, g>>
MCLength == f :> 6 @@ g :> 7
MCBlock == {1, 2, 3}
MCLocal == f :> <<1, 2>> @@ g :> <<3>>
MCRemote == f :> <<3>> @@ g :> Directory
MCKinds == {"all", "file"}
MCWildcards == {{f, g}}
===========================================================================
