-------------------------- MODULE MCAftpPrograms --------------------------
(* Two file names;   settings at and beyond their limits; lines of each   *)
(* command with the words that make a difference to it.                   *)
EXTENDS AftpPrograms, TLC

MCLength(s) == CASE s = "" -> 0 [] s = "LONGMODE9" -> 9 [] s = "TOOLONGNAME" -> 11 [] s \in LuNames -> 6 [] OTHER -> 5
MCNameLimit == [mode_name |-> 8, tp_name |-> 64, lu_name |-> 17, symbolic |-> 8]
MCMatches(s) == CASE s = "*" -> Names [] s = "sub/*" -> Names [] OTHER -> {s}
MCDirOf(s) == IF s = "sub/*" THEN "sub" ELSE "home"
MCFormatBelow(s) == CASE s = "F" -> 1 [] s = "VSM" -> 24 [] s = "N" -> 10 [] OTHER -> 25

MCName == <<"a", "b">>
MCInitRemote == ("home" :> {"a", "b"}) @@ ("dir" :> {})
MCInitLocal == ("home" :> {"a"}) @@ ("sub" :> {"a", "b"})

MCLines == {
    <<>>, <<"help">>, <<"quit">>, <<"open", "NET.LU">>, <<"open", "SYM">>, <<"open", "TOOLONGNAME">>,
    <<"open">>, <<"close">>, <<"alloc", "1">>, <<"alloc", "x">>, <<"block", "1">>, <<"lrecl", "0">>, <<"date", "new">>,
    <<"tpname", "TP">>, <<"modename", "MODE">>, <<"modename", "LONGMODE9">>, <<"modename">>, <<"type", "binary">>,
    <<"ascii">>, <<"recfm", "F">>, <<"recfm", "N">>, <<"recfm", "Z">>, <<"status">>,
    <<"prompt", "on">>, <<"prompt", "off">>, <<"lcd", "sub">>, <<"md", "dir">>, <<"rd", "dir">>,
    <<"cd", "dir">>, <<"ren", "a", "b">>, <<"system">>, <<"pwd">>, <<"ls">>,
    <<"get", "*">>, <<"del", "*">>, <<"put", "*">>, <<"put", "sub/*">>, <<"get">>}
=============================================================================
