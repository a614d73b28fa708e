------------------------------ MODULE Snaconfig ------------------------------
(***************************************************************************)
(* The snaconfig program (snaconfig/*.c, libsna/libnof.c): several copies  *)
(* run at a time, each turns its command into requests of the node         *)
(* operator facility, issues them one by one and stops at the first that   *)
(* is refused.  Between two requests of one copy anything may happen.      *)
(*                                                                         *)
(* A configuration file is the sequence of elements under <node>, each a   *)
(* record with its kind; the first one is the <global> element (elements   *)
(* before it are added to lists of an uninitialised pointer).              *)
(***************************************************************************)
EXTENDS SnaNof

CONSTANTS
    Procs,          \* copies of the program
    Commands,       \* copy -> command lines its user gives, [verb, what, name]
    Files,          \* file name -> contents
    Upper,          \* toupper: name -> the name in upper case
    FirstRoom,      \* records the first query has room for (30 in the code)
    MoreRoom,       \* records added when it was full (20 in the code)
    MaxCommands     \* bound: copy -> commands its user gives

ASSUME FilesStartGlobal ==
    \A f \in DOMAIN Files : Files[f] # <<>> /\ Files[f][1].kind = "global"

\* A file is a list of elements; a <global> names a node, and the element of
\* a link says whether it is retried.
ASSUME FilesTyped ==
    \A f \in DOMAIN Files :
        /\ Files[f] \in Seq(ToSet(Files[f]))
        /\ \A e \in ToSet(Files[f]) :
            /\ e.kind = "global" => e.node \in Nodes
            /\ e.kind = "link" => e.retry_on_fail \in BOOLEAN

\* The verbs of the command line, and load of a file that exists.
ASSUME CommandsKnown ==
    \A p \in Procs : \A c \in Commands[p] :
        /\ c.verb \in {"load", "start", "stop", "delete", "show", "reload", "unload", "find"}
        /\ c.verb = "load" => c.name \in DOMAIN Files

ASSUME RoomAssumption ==
    /\ FirstRoom \in Nat \ {0}
    /\ MoreRoom \in Nat \ {0}
    /\ MaxCommands \in [Procs -> Nat]

VARIABLES
    cmd,        \* the command a copy runs, or ran last
    todo,       \* requests it still has to issue
    result,     \* "none", "running", "ok" or the error it returned
    room,       \* records its query has room for
    shown,      \* its last finished query: the table, and what was returned
    lost,       \* history: the ioctl of its last finished query failed
    given       \* commands its user has given

progVars == <<cmd, todo, result, room, shown, lost, given>>
vars == <<nofVars, progVars>>

NothingShown == <<"none", {}>>
NoCommand == [verb |-> "none", what |-> "none", name |-> "none"]

Init ==
    /\ NofInit
    /\ cmd = [p \in Procs |-> NoCommand]
    /\ todo = [p \in Procs |-> <<>>]
    /\ result = [p \in Procs |-> "none"]
    /\ room = [p \in Procs |-> FirstRoom]
    /\ shown = [p \in Procs |-> NothingShown]
    /\ lost = [p \in Procs |-> FALSE]
    /\ given = [p \in Procs |-> 0]

------------------------------------------------------------------------------
\* What is read from a configuration file.

\* The elements that count: those after the last <global>, which starts new
\* lists.
LastGlobal(f) ==
    CHOOSE i \in DOMAIN Files[f] :
        /\ Files[f][i].kind = "global"
        /\ \A j \in DOMAIN Files[f] : Files[f][j].kind = "global" => j <= i

\* The elements of a kind, in their order: each is put at the end of its list.
OfKind(es, kind) ==
    LET read[i \in 0..Len(es)] ==
            IF i = 0 THEN <<>>
            ELSE IF es[i].kind = kind THEN Append(read[i - 1], es[i]) ELSE read[i - 1]
    IN  read[Len(es)]

sna_read_config_file(f, kind) ==
    OfKind(SubSeq(Files[f], LastGlobal(f) + 1, Len(Files[f])), kind)

NodeOf(f) == Files[f][LastGlobal(f)].node

sna_parse_dlc(f, e) ==
    [op |-> <<"define", "dlc">>, node |-> NodeOf(f), name |-> e.use_name,
     dev |-> e.iface, saddr |-> e.port]

sna_parse_link(f, e) ==
    [op |-> <<"define", "link">>, node |-> NodeOf(f), name |-> e.use_name, dev |-> e.iface,
     saddr |-> e.port, peer |-> e.dst, retry |-> e.retry_on_fail]

sna_parse_cos(e) == [op |-> <<"define", "cos">>, name |-> Upper[e.name]]

sna_parse_mode(f, e) ==
    [op |-> <<"define", "mode">>, node |-> NodeOf(f), name |-> Upper[e.name]]

\* A local LU's own name is never read: the field stays empty.
sna_parse_lu(f, e) ==
    IF e.where = "remote"
    THEN [op |-> <<"define", "remote">>, node |-> NodeOf(f), name |-> e.use_name,
          plu |-> e.plu]
    ELSE [op |-> <<"define", "local">>, node |-> NodeOf(f), name |-> e.use_name,
          lu_name |-> ""]

sna_parse_cpic(f, e) ==
    [op |-> <<"define", "cpic">>, node |-> NodeOf(f), name |-> Upper[e.name]]

\* The requests of a load, in the order in which they are issued: the node,
\* then each list in turn, whatever the order of the elements in the file.
sna_execute_config_info(f) ==
    LET each(kind, Op(_)) ==
            LET es == sna_read_config_file(f, kind) IN
            [i \in DOMAIN es |-> Op(es[i])]
    IN <<[op |-> <<"define", "node">>, node |-> NodeOf(f)]>>
         \o each("dlc", LAMBDA e : sna_parse_dlc(f, e))
         \o each("link", LAMBDA e : sna_parse_link(f, e))
         \o each("cos", LAMBDA e : sna_parse_cos(e))
         \o each("mode", LAMBDA e : sna_parse_mode(f, e))
         \o each("lu", LAMBDA e : sna_parse_lu(f, e))
         \o each("cpic", LAMBDA e : sna_parse_cpic(f, e))

------------------------------------------------------------------------------
\* The requests of the other commands.

\* Starting, stopping and deleting a service are one request each; LUs can
\* only be started.  Whatever else is asked is answered "not supported", 0.
sna_ctrl(c) ==
    CASE c.what = "node" -> <<[op |-> <<c.verb, "node">>, node |-> c.name]>>
      [] c.what \in {"dlc", "link"} -> <<[op |-> <<c.verb, c.what>>, name |-> c.name]>>
      [] c.what = "lu" /\ c.verb = "start" ->
            <<[op |-> <<"start", "lu">>, name |-> c.name]>>
      [] OTHER -> <<>>

\* The tables that show asks for, in its order.
Tables == <<"node", "dlc", "port", "ls", "lu", "plu", "mode", "cpics", "cos">>

\* show looks at the nodes that /proc lists when it starts, each in turn.
sna_show ==
    [i \in 1..(Cardinality(nof) * Len(Tables)) |->
        [op |-> <<"query", Tables[((i - 1) % Len(Tables)) + 1]>>]]

Requests(c) ==
    CASE c.verb = "load" -> sna_execute_config_info(c.name)
      [] c.verb \in {"start", "stop", "delete"} -> sna_ctrl(c)
      [] c.verb = "show" -> sna_show
      [] c.verb \in {"reload", "unload", "find"} -> <<>>

------------------------------------------------------------------------------
\* One request in the kernel.

sna_nof(r, err) ==
    \/ r.op = <<"define", "node">> /\ sna_nof_node_define(r, err)
    \/ r.op = <<"start", "node">> /\ sna_nof_node_start(r, err)
    \/ r.op = <<"stop", "node">> /\ sna_nof_node_stop(r, err)
    \/ r.op = <<"delete", "node">> /\ sna_nof_node_delete(r, err)
    \/ r.op = <<"define", "dlc">> /\ sna_cs_define_port(r, err)
    \/ r.op = <<"start", "dlc">> /\ sna_cs_start_port(r, err)
    \/ r.op = <<"stop", "dlc">> /\ sna_cs_stop_port(r, err)
    \/ r.op = <<"delete", "dlc">> /\ sna_cs_delete_port(r, err)
    \/ r.op = <<"define", "link">> /\ sna_cs_define_ls(r, err)
    \/ r.op = <<"start", "link">> /\ sna_cs_start_ls(r, err)
    \/ r.op = <<"stop", "link">> /\ sna_cs_stop_ls(r, err)
    \/ r.op = <<"delete", "link">> /\ sna_cs_delete_ls(r, err)
    \/ r.op = <<"define", "cos">> /\ sna_cosm_define_cos(r, err)
    \/ r.op = <<"define", "mode">> /\ sna_rm_define_mode(r, err)
    \/ r.op = <<"define", "local">> /\ sna_rm_define_local_lu(r, err)
    \/ r.op = <<"define", "remote">> /\ sna_rm_define_remote_lu(r, err)
    \/ r.op = <<"start", "lu">> /\ sna_rm_start_remote_lu(r, err)
    \/ r.op = <<"define", "cpic">> /\ sna_cpic_register_side_info(r, err)

Errors == {"ok", "ENOENT", "EEXIST", "EUSERS", "EHOSTDOWN", "ENETDOWN", "EAGAIN", "ENOMEM"}

------------------------------------------------------------------------------
\* The program.

\* The result of a command with these requests left: the last one decides.
Outcome(rest) == IF rest = <<>> THEN "ok" ELSE "running"

\* A copy is given its next command and works out its requests.
Begins(p) ==
    /\ result[p] # "running"
    /\ given[p] < MaxCommands[p]
    /\ \E c \in Commands[p] :
        /\ cmd' = [cmd EXCEPT ![p] = c]
        /\ todo' = [todo EXCEPT ![p] = Requests(c)]
        /\ result' = [result EXCEPT ![p] = Outcome(Requests(c))]
    /\ room' = [room EXCEPT ![p] = FirstRoom]
    /\ shown' = [shown EXCEPT ![p] = NothingShown]
    /\ lost' = [lost EXCEPT ![p] = FALSE]
    /\ given' = [given EXCEPT ![p] = @ + 1]
    /\ UNCHANGED nofVars

GoesOn(p, rest) ==
    /\ todo' = [todo EXCEPT ![p] = rest]
    /\ result' = [result EXCEPT ![p] = Outcome(rest)]

\* Fault: only the result of the last request is looked at.
AnsweredLast(p, err) ==
    /\ todo' = [todo EXCEPT ![p] = Tail(@)]
    /\ result' = [result EXCEPT ![p] = IF Tail(todo[p]) = <<>> THEN err ELSE "running"]

\* The command goes on after a granted request, and returns the error of a
\* refused one: what was defined before it stays, what comes after it is
\* never asked for.
Answered(p, err) ==
    IF err = "ok"
    THEN GoesOn(p, Tail(todo[p]))
    ELSE /\ todo' = [todo EXCEPT ![p] = <<>>]
         /\ result' = [result EXCEPT ![p] = err]

\* The next request, when it is one that changes something.
Issues(p) ==
    /\ result[p] = "running"
    /\ Head(todo[p]).op[1] # "query"
    /\ \E err \in Errors : sna_nof(Head(todo[p]), err) /\ Answered(p, err)
    /\ UNCHANGED <<cmd, room, shown, lost, given>>

\* The kernel tables behind the query functions of libnof.
nof_query_node == {n.node : n \in nof}
nof_query_dlc == Devices
nof_query_port == {q.name : q \in ports}
nof_query_ls == {l.name : l \in Links}
nof_query_lu == {l.name : l \in localLus}
nof_query_plu == {l.name : l \in remoteLus}
nof_query_mode == {m.name : m \in modes}
nof_query_cpic_side_info == sides
nof_query_cos == cos

Table(t) ==
    CASE t = "node"  -> nof_query_node
      [] t = "dlc"   -> nof_query_dlc
      [] t = "port"  -> nof_query_port
      [] t = "ls"    -> nof_query_ls
      [] t = "lu"    -> nof_query_lu
      [] t = "plu"   -> nof_query_plu
      [] t = "mode"  -> nof_query_mode
      [] t = "cpics" -> nof_query_cpic_side_info
      [] t = "cos"   -> nof_query_cos

\* Records the kernel copies into a buffer with room for n of them.
Fitting(t, n) == {r \in SUBSET Table(t) : Cardinality(r) = Min({n, Cardinality(Table(t))})}

\* What sna_show_gather_info makes of the records of a query: without a node
\* the show ends (all of them were deleted after /proc was read), without a
\* DLC the node's other tables are passed over.
Returns(p, records) ==
    /\ shown' = [shown EXCEPT ![p] = <<Head(todo[p]).op[2], records>>]
    /\ room' = [room EXCEPT ![p] = FirstRoom]
    /\ \/ /\ Head(todo[p]).op[2] = "node" /\ records = {}
          /\ Answered(p, "ENOENT")
       \/ /\ Head(todo[p]).op[2] = "dlc" /\ records = {}
          /\ GoesOn(p, SubSeq(todo[p], Len(Tables), Len(todo[p])))
       \/ /\ Head(todo[p]).op[2] \notin {"node", "dlc"} \/ records # {}
          /\ Answered(p, "ok")

\* Fault: a full buffer is taken for the whole table.
QueriesOnce(p) ==
    /\ result[p] = "running"
    /\ Head(todo[p]).op[1] = "query"
    /\ \E records \in Fitting(Head(todo[p]).op[2], room[p]) : Returns(p, records)
    /\ UNCHANGED <<nofVars, cmd, lost, given>>

\* Fault: the query is made again with the room it had.
QueriesAgain(p) ==
    /\ result[p] = "running"
    /\ Head(todo[p]).op[1] = "query"
    /\ \E records \in Fitting(Head(todo[p]).op[2], room[p]) :
        IF Cardinality(records) = room[p]
        THEN UNCHANGED <<room, todo, shown, result>>
        ELSE Returns(p, records)
    /\ UNCHANGED <<nofVars, cmd, lost, given>>

\* A query that comes back full is made again with more room; one whose
\* ioctl fails returns no records, and the show takes that for an empty table.
Queries(p) ==
    /\ result[p] = "running"
    /\ Head(todo[p]).op[1] = "query"
    /\ \/ \E records \in Fitting(Head(todo[p]).op[2], room[p]) :
            IF Cardinality(records) = room[p]
            THEN /\ room' = [room EXCEPT ![p] = @ + MoreRoom]
                 /\ UNCHANGED <<todo, shown, lost, result>>
            ELSE Returns(p, records) /\ lost' = [lost EXCEPT ![p] = FALSE]
       \/ Returns(p, {}) /\ lost' = [lost EXCEPT ![p] = TRUE]
    /\ UNCHANGED <<nofVars, cmd, given>>

\* The socket cannot be opened, or the debug level not written, before the
\* first request (show opens a socket for each node).
Unreached(p) ==
    /\ result[p] = "running"
    /\ \/ cmd[p].verb = "show" /\ Head(todo[p]).op = <<"query", "node">>
       \/ cmd[p].verb # "show" /\ todo[p] = Requests(cmd[p])
    /\ Answered(p, "EPERM")
    /\ UNCHANGED <<nofVars, cmd, room, shown, lost, given>>

\* The user interrupts the program between two requests of a load.  (When the
\* program has no memory for one, this is as if the kernel had none.)
Interrupted(p) ==
    /\ result[p] = "running"
    /\ cmd[p].verb = "load"
    /\ Answered(p, "EINTR")
    /\ UNCHANGED <<nofVars, cmd, room, shown, lost, given>>

Steps(p) == Issues(p) \/ Queries(p)

Next ==
    \/ \E p \in Procs : Begins(p) \/ Steps(p) \/ Unreached(p) \/ Interrupted(p)
    \/ LinkEvent /\ UNCHANGED progVars

\* Names of the links that the files define.
LinkNames ==
    UNION {{e.use_name : e \in {d \in ToSet(Files[f]) : d.kind = "link"}} :
              f \in DOMAIN Files}

\* The retry timer of a link that was stopped.
TimerOf(name) ==
    /\ \E q \in ports : \E l \in q.ls : l.name = name /\ TimesOut(q, l)
    /\ UNCHANGED progVars

\* The programs run until they return, and a timer runs out.  Nothing is
\* assumed of the partner.
Spec ==
    /\ Init
    /\ [][Next]_vars
    /\ \A p \in Procs : WF_vars(Steps(p))
    /\ \A name \in LinkNames : WF_vars(TimerOf(name))

------------------------------------------------------------------------------
\* Properties.

\* The tables have their types, and no list holds two nodes of one name.
TypeOK ==
    /\ nof \subseteq [node : Nodes, running : BOOLEAN]
    /\ \A m, n \in nof : m.node = n.node => m = n
    /\ cs \in [Names -> {"absent", "stopped", "running"}]
    /\ \A p \in ports :
        /\ p.node \in Nodes /\ p.running \in BOOLEAN
        /\ \A l \in p.ls :
            /\ l.running \in BOOLEAN /\ l.timer \in BOOLEAN
            /\ l.tested \in BOOLEAN /\ l.heard \in BOOLEAN
            /\ l.state \in {"defined", "activated", "active"}
    /\ result \in [Procs -> Errors \cup {"none", "running", "EPERM", "EINTR"}]
    /\ room \in [Procs -> Nat]
    /\ given \in [Procs -> Nat]

\* The two lists of nodes agree, although sna_nof_node_* ignore what
\* sna_cs_create, sna_cs_start, sna_cs_stop and sna_cs_destroy return: a node
\* is in both or in neither, and up in both or in neither.  The exception is
\* a node whose sna_cs_create had no memory: nof_list has it, cs_list has it
\* not, and this lasts until it is deleted.
NodesAgree ==
    /\ \A n \in uncreated : sna_nof_get_by_netid(n) # {}
    /\ \A n \in Nodes :
        /\ cs[NamePart[n]] = "absent" <=> sna_nof_get_by_netid(n) = {} \/ n \in uncreated
        /\ n \notin uncreated =>
             \A e \in sna_nof_get_by_netid(n) : cs[NamePart[n]] = "running" <=> e.running

\* A port or a link is up only while everything below it is: a running port
\* belongs to a running node, a running link to a running port.  Whoever
\* takes down a node or a port takes down what hangs on it in the same call.
UpStandsOnUp ==
    \A p \in ports :
        /\ p.running => cs[NamePart[p.node]] = "running"
        /\ \A l \in p.ls : l.running => p.running

\* Deleting a node leaves none of its ports behind, even while another copy
\* of the program is loading that node: every port has a node that exists.
NoLeftovers ==
    \A p \in ports : sna_nof_get_by_netid(p.node) # {}

\* Frames are matched to links by the partner's address and to ports by the
\* local one, and requests to both by name: no two links, and no two ports,
\* ever share theirs.
AddressesUnique ==
    \A p, q \in ports :
        /\ p.saddr = q.saddr \/ p.name = q.name => p = q
        /\ \A l \in p.ls, k \in q.ls :
            l.peer = k.peer \/ l.name = k.name => p = q /\ l = k

\* A load that returned 0 defined every mode, LU and side information of its
\* file for its own node: none was left out, none belongs to another load,
\* and nothing the other copies did since has taken one away.
LoadTrue ==
    \A p \in Procs :
        cmd[p].verb = "load" /\ result[p] = "ok" =>
            \A r \in ToSet(sna_execute_config_info(cmd[p].name)) :
                /\ r.op = <<"define", "mode">> =>
                        \E m \in modes : m.name = r.name /\ m.node = r.node
                /\ r.op = <<"define", "local">> =>
                        \E l \in localLus : l.name = r.name /\ l.node = r.node
                /\ r.op = <<"define", "remote">> =>
                        \E l \in remoteLus : l.name = r.name /\ l.node = r.node
                /\ r.op = <<"define", "cpic">> =>
                        \E s \in sides : s.name = Padded[r.name] /\ s.node = r.node

\* A finished query returned the whole table, also when the table was as
\* long as the buffer or longer, and never a part of it: when the ioctl
\* failed, also after a full buffer, it returned nothing.
QueryComplete ==
    [][\A p \in Procs :
        ( /\ todo'[p] # todo[p] /\ result'[p] \in {"running", "ok"}
          /\ todo[p] # <<>> /\ Head(todo[p]).op[1] = "query" )
            => LET t == Head(todo[p]).op[2] IN
               shown'[p] = <<t, IF lost'[p] THEN {} ELSE Table(t)>>]_vars

\* Every command returns.
CommandEnds == \A p \in Procs : result[p] = "running" ~> result[p] # "running"

\* A link that was stopped can be started again after a while, whether or
\* not the partner answers, unless it is started by someone else or deleted
\* first: sna_cs_start_ls refuses a link that is not back in state "defined".
\* Two things keep the timer from resetting it: a frame of the partner that
\* came after the stop, and an activation whose test was never answered.
LinkStops ==
    \A name \in LinkNames :
        (\E l \in LinkByName(name) : ~l.running)
            ~> \A l \in LinkByName(name) :
                    l.running \/ l.state = "defined" \/ l.heard \/ ~l.tested

\* sna_cs_stop_ls_gen starts the timer "in case we don't get a disc rsp, force
\* cleanup": every stopped link is reset, or started again, or deleted.
ForcedCleanup ==
    \A name \in LinkNames :
        (\E l \in LinkByName(name) : ~l.running)
            ~> \A l \in LinkByName(name) : l.running \/ l.state = "defined"

\* A link that is deleted once it is disconnected, or before it was ever
\* active, leaves no retry timer behind: only for an active link the timer of
\* the disconnection outlives it (sna_cs_delete_ls_gen frees the link without
\* waiting).
IdleDeletedClean ==
    [][\A name \in stray' \ stray : \E l \in LinkByName(name) : l.state = "active"]_vars

\* sna_cs_delete_ls_gen stops a link before it frees it, to "ensure link is
\* offline": no retry timer is left of a link that is gone.  The code does not keep it for
\* a link that is active: TLC refutes it.
DeletedOffline == stray = {}

\* The kernel's tables are consistent between any two requests.
TablesSound == TypeOK /\ NodesAgree /\ UpStandsOnUp /\ NoLeftovers /\ AddressesUnique

\* What a command reports is so: a load that it is done, a query the table.
ToldTrue == []LoadTrue /\ QueryComplete

\* Commands return and stopped links become usable again.
Progress == CommandEnds /\ LinkStops
==============================================================================
