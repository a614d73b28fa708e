------------------------------- MODULE SnaNof -------------------------------
(***************************************************************************)
(* The node operator facility of the SNA kernel module: the tables behind  *)
(* setsockopt(SOL_SNA_NOF) and SIOCG*, as they are after each call.  One   *)
(* call runs to its end before the next one; the link events of the last   *)
(* section (a link comes up, drops, hears the partner, is disconnected, a  *)
(* retry timer runs out) happen between calls.                             *)
(*                                                                         *)
(* A request r is a record with the fields of the structure the caller     *)
(* passes, and err is the value the call returns: "ok" for 0.  The test    *)
(* and XID exchange that activates a link is represented by its outcomes.  *)
(* Links are outbound and devices are LAN devices, as in docs/sna.xml.     *)
(* The lists of nodes, ports and links are sets: every lookup goes by a    *)
(* name or an address, and the calls keep these unique (AddressesUnique),  *)
(* so the order of the lists decides nothing.  Side information is not     *)
(* unique by name: its records carry their index.                          *)
(*                                                                         *)
(* An allocation of a definition may fail at any time (ENOMEM).            *)
(***************************************************************************)
EXTENDS Naturals, Sequences, FiniteSets, FiniteSetsExt, SequencesExt

CONSTANTS
    Nodes,      \* fully qualified names of nodes
    NamePart,   \* node -> its name without the network
    Devices,    \* network devices that carry SNA
    Padded      \* name of side information -> the name with blanks up to 8 characters

VARIABLES
    nof,        \* nof_list: the nodes
    cs,         \* cs_list: node name -> what its configuration services do
    ports,      \* port_list, each port with its link stations
    cos,        \* names of classes of service
    modes,      \* mode_list
    localLus,   \* local_lu_list
    remoteLus,  \* remote_lu_list
    sides,      \* cpic_side_list
    stray,      \* history: links that were freed while their retry timer was running
    uncreated   \* history: nodes whose sna_cs_create had no memory

nofVars == <<nof, cs, ports, cos, modes, localLus, remoteLus, sides, stray, uncreated>>

\* Two nodes whose names differ only in the network part share one entry of
\* cs_list (sna_cs_get_by_name compares the name alone).  Nodes are assumed
\* to differ in the name part too.
ASSUME NamesDiffer ==
    \A m, n \in Nodes : NamePart[m] = NamePart[n] => m = n

ASSUME DevicesFinite == IsFiniteSet(Devices)

Names == {NamePart[n] : n \in Nodes}

NofInit ==
    /\ nof = {}
    /\ cs = [n \in Names |-> "absent"]
    /\ ports = {}
    /\ cos = {}
    /\ modes = {}
    /\ localLus = {}
    /\ remoteLus = {}
    /\ sides = {}
    /\ stray = {}
    /\ uncreated = {}

------------------------------------------------------------------------------
\* Looking things up.  Each of these is empty when nothing is found.

sna_nof_get_by_netid(n) == {e \in nof : e.node = n}

PortByName(name) == {p \in ports : p.name = name}

PortByAddr(saddr) == {p \in ports : p.saddr = saddr}

\* Links of all the ports.
Links == UNION {p.ls : p \in ports}

LinkByName(name) == {l \in Links : l.name = name}

LinkByPeer(peer) == {l \in Links : l.peer = peer}

Refuses(err, e) == err = e /\ UNCHANGED nofVars

------------------------------------------------------------------------------
\* Link stations and ports going down.

\* Fault: nothing waits for the answer to a disconnection.
sna_cs_stop_ls_genForgets(l) == IF ~l.running THEN l ELSE [l EXCEPT !.running = FALSE]

\* Fault: the timer of the activation goes on.
sna_cs_stop_ls_genKeepsTimer(l) ==
    IF ~l.running THEN l
    ELSE IF l.state = "active"
         THEN [l EXCEPT !.running = FALSE, !.timer = TRUE]
         ELSE [l EXCEPT !.running = FALSE, !.state = "defined"]

\* An active link is only asked to disconnect: it stays active until the
\* answer, or the retry timer, resets it.
sna_cs_stop_ls_gen(l) ==
    IF ~l.running THEN l
    ELSE IF l.state = "active"
         THEN [l EXCEPT !.running = FALSE, !.timer = TRUE]
         ELSE [l EXCEPT !.running = FALSE, !.state = "defined", !.timer = FALSE]

\* Fault: the links of the port are left as they are.
sna_cs_stop_port_genAlone(p) == [p EXCEPT !.running = FALSE]

sna_cs_stop_port_gen(p) ==
    IF ~p.running THEN p
    ELSE [p EXCEPT !.running = FALSE,
                   !.ls = {sna_cs_stop_ls_gen(l) : l \in @}]

\* What is left pending when these links are stopped and freed.
Pending(ls) == {l.name : l \in {k \in ls : sna_cs_stop_ls_gen(k).timer}}

\* Port p becomes q; link l of port p becomes k.
PortBecomes(p, q) ==
    /\ ports' = (ports \ {p}) \cup {q}
    /\ UNCHANGED <<nof, cs, cos, modes, localLus, remoteLus, sides, stray, uncreated>>

LinkBecomes(p, l, k) == PortBecomes(p, [p EXCEPT !.ls = (@ \ {l}) \cup {k}])

------------------------------------------------------------------------------
\* Nodes.

sna_cs_start(n) == cs' = [cs EXCEPT ![NamePart[n]] = IF @ = "absent" THEN @ ELSE "running"]

\* The ports of the node are taken down with it.
sna_cs_stop(n) ==
    IF cs[NamePart[n]] = "running"
    THEN /\ cs' = [cs EXCEPT ![NamePart[n]] = "stopped"]
         /\ ports' = {IF p.node = n THEN sna_cs_stop_port_gen(p) ELSE p : p \in ports}
    ELSE UNCHANGED <<cs, ports>>

\* Fault: a node is defined without looking for one of its name.
sna_nof_node_defineAgain(r, err) ==
    /\ err = "ok"
    /\ nof' = nof \cup {[node |-> r.node, running |-> FALSE]}
    /\ cs' = [cs EXCEPT ![NamePart[r.node]] = IF @ = "absent" THEN "stopped" ELSE @]
    /\ UNCHANGED <<ports, cos, modes, localLus, remoteLus, sides, stray, uncreated>>

\* What sna_cs_create returns is ignored: without memory for it the node is
\* defined all the same.
sna_nof_node_define(r, err) ==
    \/ /\ sna_nof_get_by_netid(r.node) # {}
       /\ Refuses(err, "EEXIST")
    \/ /\ sna_nof_get_by_netid(r.node) = {}
       /\ Refuses(err, "ENOMEM")
    \/ /\ sna_nof_get_by_netid(r.node) = {}
       /\ err = "ok"
       /\ nof' = nof \cup {[node |-> r.node, running |-> FALSE]}
       /\ \/ /\ cs' = [cs EXCEPT ![NamePart[r.node]] = IF @ = "absent" THEN "stopped" ELSE @]
             /\ UNCHANGED uncreated
          \/ /\ cs[NamePart[r.node]] = "absent"
             /\ uncreated' = uncreated \cup {r.node}
             /\ UNCHANGED cs
       /\ UNCHANGED <<ports, cos, modes, localLus, remoteLus, sides, stray>>

sna_nof_node_start(r, err) ==
    \/ sna_nof_get_by_netid(r.node) = {} /\ Refuses(err, "ENOENT")
    \/ \E e \in sna_nof_get_by_netid(r.node) :
        \/ e.running /\ Refuses(err, "EUSERS")
        \/ /\ ~e.running
           /\ err = "ok"
           /\ nof' = (nof \ {e}) \cup {[e EXCEPT !.running = TRUE]}
           /\ sna_cs_start(r.node)
           /\ UNCHANGED <<ports, cos, modes, localLus, remoteLus, sides, stray, uncreated>>

\* Fault: the configuration services are not told.
sna_nof_node_stopAlone(r, err) ==
    \/ sna_nof_get_by_netid(r.node) = {} /\ Refuses(err, "ENOENT")
    \/ \E e \in sna_nof_get_by_netid(r.node) :
        /\ err = "ok"
        /\ nof' = (nof \ {e}) \cup {[e EXCEPT !.running = FALSE]}
        /\ UNCHANGED <<cs, ports, cos, modes, localLus, remoteLus, sides, stray, uncreated>>

sna_nof_node_stop(r, err) ==
    \/ sna_nof_get_by_netid(r.node) = {} /\ Refuses(err, "ENOENT")
    \/ \E e \in sna_nof_get_by_netid(r.node) :
        \/ ~e.running /\ Refuses(err, "ok")
        \/ /\ e.running
           /\ err = "ok"
           /\ nof' = (nof \ {e}) \cup {[e EXCEPT !.running = FALSE]}
           /\ sna_cs_stop(r.node)
           /\ UNCHANGED <<cos, modes, localLus, remoteLus, sides, stray, uncreated>>

\* Fault: the ports of the node are stopped and not deleted.
sna_cs_destroyAlone(n) ==
    /\ cs' = [cs EXCEPT ![NamePart[n]] = "absent"]
    /\ ports' = {IF p.node = n THEN sna_cs_stop_port_gen(p) ELSE p : p \in ports}
    /\ UNCHANGED stray

\* The node's ports and their links are stopped and freed.
sna_cs_destroy(n) ==
    IF cs[NamePart[n]] = "absent"
    THEN UNCHANGED <<cs, ports, stray>>
    ELSE /\ cs' = [cs EXCEPT ![NamePart[n]] = "absent"]
         /\ ports' = {p \in ports : p.node # n}
         /\ stray' = stray \cup UNION {Pending(p.ls) : p \in ports \ ports'}

\* Modes, LUs and side information that name the node stay defined.
sna_nof_node_delete(r, err) ==
    \/ sna_nof_get_by_netid(r.node) = {} /\ Refuses(err, "ENOENT")
    \/ \E e \in sna_nof_get_by_netid(r.node) :
        /\ err = "ok"
        /\ sna_cs_destroy(r.node)
        /\ nof' = nof \ {e}
        /\ uncreated' = uncreated \ {r.node}
        /\ UNCHANGED <<cos, modes, localLus, remoteLus, sides>>

------------------------------------------------------------------------------
\* Ports (the DLCs of the configuration file) and link stations.

sna_cs_define_port(r, err) ==
    \/ /\ cs[NamePart[r.node]] = "absent" \/ r.dev \notin Devices
       /\ Refuses(err, "ENOENT")
    \/ /\ cs[NamePart[r.node]] # "absent" /\ r.dev \in Devices
       /\ PortByAddr(r.saddr) # {} \/ PortByName(r.name) # {}
       /\ Refuses(err, "EEXIST")
    \/ /\ cs[NamePart[r.node]] # "absent" /\ r.dev \in Devices
       /\ PortByAddr(r.saddr) = {} /\ PortByName(r.name) = {}
       /\ \/ Refuses(err, "ENOMEM")
          \/ /\ err = "ok"
             /\ ports' = ports \cup {[name |-> r.name, node |-> r.node, saddr |-> r.saddr,
                                      dev |-> r.dev, running |-> FALSE, ls |-> {}]}
             /\ UNCHANGED <<nof, cs, cos, modes, localLus, remoteLus, sides, stray, uncreated>>

\* EAGAIN: another user of LLC holds the service access point.
sna_cs_start_port(r, err) ==
    \/ PortByName(r.name) = {} /\ Refuses(err, "ENOENT")
    \/ \E p \in PortByName(r.name) :
        \/ cs[NamePart[p.node]] = "absent" /\ Refuses(err, "ENOENT")
        \/ cs[NamePart[p.node]] = "stopped" /\ Refuses(err, "EHOSTDOWN")
        \/ /\ cs[NamePart[p.node]] = "running"
           /\ \/ p.running /\ Refuses(err, "EUSERS")
              \/ ~p.running /\ Refuses(err, "EAGAIN")
              \/ /\ ~p.running
                 /\ err = "ok"
                 /\ PortBecomes(p, [p EXCEPT !.running = TRUE])

sna_cs_stop_port(r, err) ==
    \/ PortByName(r.name) = {} /\ Refuses(err, "ENOENT")
    \/ \E p \in PortByName(r.name) :
        err = "ok" /\ PortBecomes(p, sna_cs_stop_port_gen(p))

sna_cs_delete_port(r, err) ==
    \/ PortByName(r.name) = {} /\ Refuses(err, "ENOENT")
    \/ \E p \in PortByName(r.name) :
        /\ err = "ok"
        /\ stray' = stray \cup Pending(p.ls)
        /\ ports' = ports \ {p}
        /\ UNCHANGED <<nof, cs, cos, modes, localLus, remoteLus, sides, uncreated>>

NewLink(r) ==
    [name |-> r.name, peer |-> r.peer, retry |-> r.retry,
     running |-> FALSE, state |-> "defined", timer |-> FALSE, tested |-> FALSE, heard |-> FALSE]

\* Fault: only the name of the link has to be new.
sna_cs_define_lsByName(r, err) ==
    \/ PortByAddr(r.saddr) = {} /\ Refuses(err, "ENOENT")
    \/ PortByAddr(r.saddr) # {} /\ LinkByName(r.name) # {} /\ Refuses(err, "EEXIST")
    \/ \E p \in PortByAddr(r.saddr) :
        /\ LinkByName(r.name) = {}
        /\ err = "ok"
        /\ PortBecomes(p, [p EXCEPT !.ls = @ \cup {NewLink(r)}])

\* A link is hung on the port with its local address, whatever its node.
sna_cs_define_ls(r, err) ==
    \/ /\ \/ cs[NamePart[r.node]] = "absent"
          \/ r.dev \notin Devices
          \/ PortByAddr(r.saddr) = {}
       /\ Refuses(err, "ENOENT")
    \/ \E p \in PortByAddr(r.saddr) :
        /\ cs[NamePart[r.node]] # "absent" /\ r.dev \in Devices
        /\ \/ /\ LinkByPeer(r.peer) # {} \/ LinkByName(r.name) # {}
              /\ Refuses(err, "EEXIST")
           \/ /\ LinkByPeer(r.peer) = {} /\ LinkByName(r.name) = {}
              /\ Refuses(err, "ENOMEM")
           \/ /\ LinkByPeer(r.peer) = {} /\ LinkByName(r.name) = {}
              /\ err = "ok"
              /\ PortBecomes(p, [p EXCEPT !.ls = @ \cup {NewLink(r)}])

\* sna_cs_connect_out: without retry_on_fail it gives up before the first
\* test frame, so the link is activated and only the partner can bring it up.
sna_cs_connect_out(l) ==
    [l EXCEPT !.state = "activated", !.timer = l.retry, !.tested = FALSE, !.heard = FALSE]

sna_cs_start_ls(r, err) ==
    \/ LinkByName(r.name) = {} /\ Refuses(err, "ENOENT")
    \/ \E p \in ports : \E l \in p.ls :
        /\ l.name = r.name
        /\ \/ cs[NamePart[p.node]] = "absent" /\ Refuses(err, "ENOENT")
           \/ cs[NamePart[p.node]] = "stopped" /\ Refuses(err, "EHOSTDOWN")
           \/ /\ cs[NamePart[p.node]] = "running"
              /\ ~p.running
              /\ Refuses(err, "ENETDOWN")
           \/ /\ cs[NamePart[p.node]] = "running" /\ p.running
              /\ l.state # "defined" \/ l.running
              /\ Refuses(err, "EUSERS")
           \/ /\ cs[NamePart[p.node]] = "running" /\ p.running
              /\ l.state = "defined" /\ ~l.running
              /\ err = "ok"
              /\ LinkBecomes(p, l, sna_cs_connect_out([l EXCEPT !.running = TRUE]))

sna_cs_stop_ls(r, err) ==
    \/ LinkByName(r.name) = {} /\ Refuses(err, "ENOENT")
    \/ \E p \in ports : \E l \in p.ls :
        l.name = r.name /\ err = "ok" /\ LinkBecomes(p, l, sna_cs_stop_ls_gen(l))

sna_cs_delete_ls(r, err) ==
    \/ LinkByName(r.name) = {} /\ Refuses(err, "ENOENT")
    \/ \E p \in ports : \E l \in p.ls :
        /\ l.name = r.name
        /\ err = "ok"
        /\ stray' = stray \cup Pending({l})
        /\ ports' = (ports \ {p}) \cup {[p EXCEPT !.ls = @ \ {l}]}
        /\ UNCHANGED <<nof, cs, cos, modes, localLus, remoteLus, sides, uncreated>>

------------------------------------------------------------------------------
\* Definitions that only accumulate: nothing deletes them once they are made.

\* A class of service may be defined again: its values are replaced.  It
\* stays when there is no memory for its records of weights.
sna_cosm_define_cos(r, err) ==
    /\ \/ err \in {"ok", "ENOMEM"} /\ cos' = cos \cup {r.name}
       \/ err = "ENOMEM" /\ UNCHANGED cos
    /\ UNCHANGED <<nof, cs, ports, modes, localLus, remoteLus, sides, stray, uncreated>>

sna_rm_define_mode(r, err) ==
    \/ (\E m \in modes : m.name = r.name) /\ Refuses(err, "EEXIST")
    \/ (\A m \in modes : m.name # r.name) /\ Refuses(err, "ENOMEM")
    \/ /\ \A m \in modes : m.name # r.name
       /\ err = "ok"
       /\ modes' = modes \cup {[name |-> r.name, node |-> r.node]}
       /\ UNCHANGED <<nof, cs, ports, cos, localLus, remoteLus, sides, stray, uncreated>>

sna_rm_define_local_lu(r, err) ==
    \/ (\E l \in localLus : l.lu_name = r.lu_name) /\ Refuses(err, "EEXIST")
    \/ (\A l \in localLus : l.lu_name # r.lu_name) /\ Refuses(err, "ENOMEM")
    \/ /\ \A l \in localLus : l.lu_name # r.lu_name
       /\ err = "ok"
       /\ localLus' = localLus \cup
            {[lu_name |-> r.lu_name, name |-> r.name, node |-> r.node]}
       /\ UNCHANGED <<nof, cs, ports, cos, modes, remoteLus, sides, stray, uncreated>>

sna_rm_define_remote_lu(r, err) ==
    \/ (\E l \in remoteLus : l.plu = r.plu) /\ Refuses(err, "EEXIST")
    \/ (\A l \in remoteLus : l.plu # r.plu) /\ Refuses(err, "ENOMEM")
    \/ /\ \A l \in remoteLus : l.plu # r.plu
       /\ err = "ok"
       /\ remoteLus' = remoteLus \cup
            {[plu |-> r.plu, name |-> r.name, node |-> r.node]}
       /\ UNCHANGED <<nof, cs, ports, cos, modes, localLus, sides, stray, uncreated>>

\* The session that is then activated leaves no trace in these tables.
sna_rm_start_remote_lu(r, err) ==
    \/ /\ \/ \A l \in remoteLus : l.name # r.name
          \/ \A m \in modes : m.name # "SNASVCMG"
       /\ Refuses(err, "ENOENT")
    \/ /\ \E l \in remoteLus : l.name = r.name
       /\ \E m \in modes : m.name = "SNASVCMG"
       /\ Refuses(err, "ok") \/ Refuses(err, "EAGAIN")

\* The name is looked up as it is given and stored with blanks: one that is
\* shorter than 8 characters is never found, and may be defined again.
sna_cpic_register_side_info(r, err) ==
    \/ (\E s \in sides : s.name = r.name) /\ Refuses(err, "EEXIST")
    \/ (\A s \in sides : s.name # r.name) /\ Refuses(err, "ENOMEM")
    \/ /\ \A s \in sides : s.name # r.name
       /\ err = "ok"
       /\ sides' = sides \cup
            {[index |-> Cardinality(sides) + 1, name |-> Padded[r.name], node |-> r.node]}
       /\ UNCHANGED <<nof, cs, ports, cos, modes, localLus, remoteLus, stray, uncreated>>

------------------------------------------------------------------------------
\* What happens to link l of port p between calls.

\* xid_input_reset of a stopped link.
xid_input_reset(l) ==
    [l EXCEPT !.state = "defined", !.timer = FALSE, !.tested = FALSE, !.heard = FALSE]

\* The test and XID exchange succeeds (xid_input_active).  The partner may
\* have begun it: then the test may never have been answered (CO_TEST_OK).
Activates(p, l) ==
    /\ l.running /\ l.state = "activated"
    /\ \E t \in BOOLEAN :
        LinkBecomes(p, l, [l EXCEPT !.state = "active", !.timer = FALSE, !.tested = t])

\* The retries run out, or a frame of the partner ends them: the link stays
\* activated and is not tried again.
GivesUp(p, l) ==
    /\ l.running /\ l.state = "activated" /\ l.timer
    /\ LinkBecomes(p, l, [l EXCEPT !.timer = FALSE])

\* The partner disconnects a running link: it is connected again.
Drops(p, l) ==
    /\ l.running /\ l.state = "active"
    /\ LinkBecomes(p, l, sna_cs_connect_out(l))

\* A test or XID frame of the partner does nothing to an active link but
\* delete its retry timer, also the one that waits for a disconnection.
Hears(p, l) ==
    /\ l.state = "active"
    /\ \E t \in {l.tested, TRUE} :
        LinkBecomes(p, l, [l EXCEPT !.timer = FALSE, !.tested = t, !.heard = ~l.running])

\* A stopped link is disconnected by the partner's answer.
Disconnected(p, l) ==
    /\ ~l.running /\ l.state = "active"
    /\ LinkBecomes(p, l, xid_input_reset(l))

\* The timer of a stopped link runs out: sna_cs_connect_out resets the link
\* when its test was answered and otherwise just returns.
TimesOut(p, l) ==
    /\ ~l.running /\ l.state = "active" /\ l.timer
    /\ LinkBecomes(p, l, IF l.tested THEN xid_input_reset(l) ELSE [l EXCEPT !.timer = FALSE])

LinkEvent ==
    \E p \in ports : \E l \in p.ls :
        \/ Activates(p, l) \/ GivesUp(p, l) \/ Drops(p, l)
        \/ Hears(p, l) \/ Disconnected(p, l) \/ TimesOut(p, l)
==============================================================================
