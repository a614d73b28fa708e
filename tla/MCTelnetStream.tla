--------------------------- MODULE MCTelnetStream ---------------------------
(* The data of the runs.  A key that sends its address is three bytes long, *)
(* a short one sends the code of the key alone.                             *)
EXTENDS TelnetStream

Keys      == {<<"IAC", "a", "0">>, <<"EOR", "0", "IAC">>, <<"a">>}

MCVerbs   == {"WILL", "DONT"}
MCOptions == {"TERMINAL_TYPE"}

PlainSb   == {<<"TERMINAL_TYPE", "IS", "a", "IAC", "b">>}
=============================================================================
