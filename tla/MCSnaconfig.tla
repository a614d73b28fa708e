---------------------------- MODULE MCSnaconfig ----------------------------
(***************************************************************************)
(* Two copies of snaconfig and configuration files that get in each        *)
(* other's way: two define the mode SNASVCMG, one of them in lower case,   *)
(* and reach the same partner; two define the same side information, under *)
(* a short name and under one of 8 characters.  Between them they have     *)
(* every kind of element that docs/sna.xml has.                            *)
(***************************************************************************)
EXTENDS Snaconfig

CONSTANT Operator

n1 == "LNXSNA.EHEAD"
n2 == "LNXSNA.OTHER"

MCNodes == {n1, n2}
MCNamePart == [n \in MCNodes |-> IF n = n1 THEN "EHEAD" ELSE "OTHER"]
MCDevices == {"eth0"}
MCUpper == [x \in {"snasvcmg", "SNASVCMG", "AFTP", "APINGSYS", "TESTCOS"} |->
                IF x = "snasvcmg" THEN "SNASVCMG" ELSE x]

MCPadded == [x \in {"AFTP", "APINGSYS"} |-> IF x = "AFTP" THEN "AFTP    " ELSE x]

MCFiles ==
    [a |-> << [kind |-> "global", node |-> n1],
              [kind |-> "dlc", use_name |-> "dlc1", iface |-> "eth0", port |-> 4],
              [kind |-> "link", use_name |-> "link1", iface |-> "eth0", port |-> 4,
               dst |-> "ibm", retry_on_fail |-> TRUE],
              [kind |-> "lu", use_name |-> "lu_local", where |-> "local"],
              [kind |-> "lu", use_name |-> "lu_ibm", where |-> "remote", plu |-> "ibm"],
              [kind |-> "mode", name |-> "SNASVCMG"],
              [kind |-> "cpic", name |-> "AFTP"],
              [kind |-> "cpic", name |-> "APINGSYS"] >>,
     b |-> << [kind |-> "global", node |-> n2],
              [kind |-> "dlc", use_name |-> "dlc2", iface |-> "eth0", port |-> 8],
              [kind |-> "link", use_name |-> "link2", iface |-> "eth0", port |-> 8,
               dst |-> "ibm", retry_on_fail |-> TRUE],
              [kind |-> "cos", name |-> "TESTCOS"],
              [kind |-> "mode", name |-> "snasvcmg"] >>,
     c |-> << [kind |-> "global", node |-> n2],
              [kind |-> "cpic", name |-> "AFTP"],
              [kind |-> "cpic", name |-> "APINGSYS"] >>]

Command(v, w, n) == [verb |-> v, what |-> w, name |-> n]

\* One user loads the first node and runs it; the other one loads the second
\* node, looks at what there is, or deletes what the first one is using.
MCCommands ==
    [p \in Procs |->
        IF p = Operator
        THEN { Command("load", "file", "a"),
               Command("start", "node", n1), Command("stop", "node", n1),
               Command("start", "dlc", "dlc1"), Command("stop", "dlc", "dlc1"),
               Command("start", "link", "link1"), Command("stop", "link", "link1") }
        ELSE { Command("load", "file", "b"), Command("load", "file", "c"),
               Command("show", "all", "none"),
               Command("delete", "node", n1), Command("delete", "dlc", "dlc1"),
               Command("delete", "link", "link1"), Command("start", "lu", "lu_ibm"),
               Command("stop", "lu", "lu_ibm") }]

MCMaxCommands == [p \in Procs |-> IF p = Operator THEN 5 ELSE 1]
==============================================================================
