--------------------------- MODULE MCAsuiteTools ---------------------------
(* Texts around the sizes of the buffers, outputs around the size of a read. *)
EXTENDS AsuiteTools

MCFits(field, name) == name \notin {"TOOLONGNAME", "TOO.LONG"} \/ field = "tp_name"
MCQualified(name) == name \in {"NET.LU", "TOO.LONG"}
MCEnviron == <<"e">>
MCTpVersions == {<<1, 0>>, <<2, 1>>, <<2, 37>>}
MCOptions == {<<>>, <<<<"n", "">>>>, <<<<"m", "MODE">>, <<"m", "OTHER">>>>, <<<<"t", "TP">>, <<"m", "TOOLONGNAME">>>>,
              <<<<"u", "user">>, <<"p", "pass">>>>}
MCUsers == {<<>>, <<"u">>, <<"u", "v">>, <<"u", "v", "w">>}
MCTexts == {<<>>, <<"a">>, <<"a", "b">>, <<"a", "b", "c">>, <<"a", "b", "c", "d">>}
MCLoggedIn == {<<"u">>}
MCCommands == {<<>>, <<<<"l", "s">>>>, <<<<"l">>, <<"s">>>>, <<<<"l">>, <<"s", "t">>>>}
MCOutputs == {<<>>, <<"1">>, <<"1", "2", "3", "4", "5", "6", "7", "8">>,
              <<"1", "2", "3", "4", "5", "6", "7", "8", "9", "0">>}
=============================================================================
