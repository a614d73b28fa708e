--------------------------- MODULE SnaconfigProofs ---------------------------
(***************************************************************************)
(* The tables of the kernel stay sound whatever the copies of snaconfig    *)
(* do: for every set of nodes, devices, files, copies of the program and   *)
(* command lines.                                                          *)
(*                                                                         *)
(* The proof has two parts.  The first is about data: every request that   *)
(* is ever issued comes from an element of a file or from a command line   *)
(* (Asked), so a definition names a node.  The second is the inductive     *)
(* invariant of the tables, one lemma for each kernel call that changes    *)
(* nodes, ports or links.                                                  *)
(***************************************************************************)
EXTENDS Snaconfig, SequenceTheorems, FiniteSetTheorems, NaturalsInduction, WellFoundedInduction, TLAPS

\* Every set of naturals that is not empty has a least member.
LEMMA Least ==
    ASSUME NEW T \in SUBSET Nat, T # {}
    PROVE  \E x \in T : \A y \in T : x <= y
  <1> DEFINE R == OpToRel(<, Nat)
  <1>1. IsWellFoundedOn(R, Nat)
    BY NatLessThanWellFounded
  <1>2. \A a, b \in Nat : a < b => <<a, b>> \in R
    BY DEF OpToRel
  <1> HIDE DEF R
  <1>3. PICK x \in T : \A y \in T : ~(<<y, x>> \in R)
    BY <1>1, WFMin
  <1>4. ASSUME NEW y \in T PROVE x <= y
    <2>1. ~(y < x)
      BY <1>2, <1>3
    <2>2. x \in Nat /\ y \in Nat
      OBVIOUS
    <2> QED
      BY <2>1, <2>2
  <1> QED
    BY <1>4

\* Induction, with a set in the place of a predicate.
LEMMA SetInduction ==
    ASSUME NEW S, 0 \in S, \A n \in Nat : n \in S => n + 1 \in S
    PROVE  Nat \subseteq S
  <1> SUFFICES ASSUME Nat \ S # {} PROVE FALSE
    OBVIOUS
  <1>1. PICK x \in Nat \ S : \A y \in Nat \ S : x <= y
    BY Least
  <1>2. x # 0 /\ x - 1 \in Nat
    BY <1>1
  <1>3. x - 1 \in S
    BY <1>1, <1>2
  <1> QED
    BY <1>1, <1>2, <1>3

-----------------------------------------------------------------------------
(***************************************************************************)
(* Reading a configuration file.                                           *)
(***************************************************************************)
\* One step of reading: the list read so far, after element i.
ReadStep(es, kind, g, i) ==
    IF i = 0 THEN <<>>
    ELSE IF es[i].kind = kind THEN Append(g[i - 1], es[i]) ELSE g[i - 1]

\* What is read of a kind are elements of the file of that kind.
LEMMA OfKindType ==
    ASSUME NEW S, NEW es \in Seq(S), NEW kind
    PROVE  OfKind(es, kind) \in Seq({e \in S : e.kind = kind})
  <1> DEFINE K == {e \in S : e.kind = kind}
             N == Len(es)
             Reads(g, n) == \A i \in 0..n : g[i] = ReadStep(es, kind, g, i)
             read == CHOOSE g : g = [i \in 0..N |-> ReadStep(es, kind, g, i)]
  <1>0. N \in Nat /\ N <= N /\ \A i \in 1..N : es[i] \in S
    OBVIOUS
  <1>1. \A n \in Nat : n <= N => \E g \in [0..n -> Seq(K)] : Reads(g, n)
    <2> DEFINE P == {n \in Nat : n <= N => \E g \in [0..n -> Seq(K)] : Reads(g, n)}
    <2>1. 0 \in P
      <3> DEFINE g == [i \in 0..0 |-> <<>>]
      <3>1. g \in [0..0 -> Seq(K)]
        OBVIOUS
      <3>2. Reads(g, 0)
        BY DEF ReadStep
      <3> QED
        BY <3>1, <3>2
    <2>2. ASSUME NEW n \in Nat, n \in P PROVE n + 1 \in P
      <3> SUFFICES ASSUME n + 1 <= N
                   PROVE  \E h \in [0..(n + 1) -> Seq(K)] : Reads(h, n + 1)
        OBVIOUS
      <3>1. PICK g \in [0..n -> Seq(K)] : Reads(g, n)
        BY <2>2, <1>0
      <3> DEFINE h == [i \in 0..(n + 1) |-> IF i <= n THEN g[i] ELSE ReadStep(es, kind, g, i)]
      <3>2. ReadStep(es, kind, g, n + 1) \in Seq(K)
        BY <1>0 DEF ReadStep
      <3>3. h \in [0..(n + 1) -> Seq(K)]
        BY <3>2
      <3>4. Reads(h, n + 1)
        <4> SUFFICES ASSUME NEW i \in 0..(n + 1) PROVE h[i] = ReadStep(es, kind, h, i)
          OBVIOUS
        <4>1. h[i] = ReadStep(es, kind, g, i)
          BY <3>1
        <4>2. i # 0 => h[i - 1] = g[i - 1]
          OBVIOUS
        <4> QED
          BY <4>1, <4>2 DEF ReadStep
      <3> QED
        BY <3>3, <3>4
    <2> HIDE DEF P
    <2>3. Nat \subseteq P
      BY <2>1, <2>2, SetInduction
    <2> QED
      BY <2>3 DEF P
  <1>2. PICK g \in [0..N -> Seq(K)] : Reads(g, N)
    BY <1>0, <1>1, Zenon
  <1>3. g = [i \in 0..N |-> ReadStep(es, kind, g, i)]
    BY <1>2
  <1>4. read = [i \in 0..N |-> ReadStep(es, kind, read, i)]
    BY <1>3
  <1> HIDE DEF read
  <1>5. \A n \in Nat : n <= N => read[n] \in Seq(K)
    <2> DEFINE P == {n \in Nat : n <= N => read[n] \in Seq(K)}
    <2>1. 0 \in P
      BY <1>0, <1>4 DEF ReadStep
    <2>2. ASSUME NEW n \in Nat, n \in P PROVE n + 1 \in P
      <3> SUFFICES ASSUME n + 1 <= N PROVE read[n + 1] \in Seq(K)
        OBVIOUS
      <3>1. read[n] \in Seq(K)
        BY <1>0, <2>2
      <3>2. read[n + 1] = ReadStep(es, kind, read, n + 1)
        BY <1>0, <1>4
      <3> QED
        BY <1>0, <3>1, <3>2 DEF ReadStep
    <2> HIDE DEF P
    <2>3. Nat \subseteq P
      BY <2>1, <2>2, SetInduction
    <2> QED
      BY <2>3 DEF P
  <1>6. OfKind(es, kind) = read[N]
    BY DEF OfKind, read, ReadStep
  <1> QED
    BY <1>0, <1>5, <1>6

\* The last <global> of a file exists, and names a node.
LEMMA LastGlobalExists ==
    ASSUME NEW f \in DOMAIN Files
    PROVE  /\ LastGlobal(f) \in 1..Len(Files[f])
           /\ NodeOf(f) \in Nodes
           /\ Len(Files[f]) \in Nat
  <1> DEFINE s == Files[f]
             G == {i \in DOMAIN s : s[i].kind = "global"}
             T == {Len(s) - i : i \in G}
  <1>1. /\ s \in Seq(ToSet(s)) /\ Len(s) \in Nat /\ DOMAIN s = 1..Len(s)
        /\ s # <<>> /\ s[1].kind = "global"
    BY FilesStartGlobal, FilesTyped
  <1>2. 1 \in G
    BY <1>1
  <1>3. T \in SUBSET Nat /\ T # {}
    BY <1>1, <1>2
  <1>4. PICK x \in T : \A y \in T : x <= y
    BY <1>3, Least
  <1>5. PICK i \in G : x = Len(s) - i
    BY <1>4
  <1>6. ASSUME NEW j \in G PROVE j <= i
    <2>1. Len(s) - i <= Len(s) - j
      BY <1>4, <1>5
    <2> QED
      BY <1>1, <1>5, <2>1
  <1>7. \E k \in DOMAIN s : s[k].kind = "global" /\ \A j \in DOMAIN s : s[j].kind = "global" => j <= k
    BY <1>5, <1>6
  <1>8. LastGlobal(f) \in DOMAIN s /\ s[LastGlobal(f)].kind = "global"
    <2> DEFINE g == CHOOSE k \in DOMAIN s :
                        /\ s[k].kind = "global"
                        /\ \A j \in DOMAIN s : s[j].kind = "global" => j <= k
    <2>1. g \in DOMAIN s /\ s[g].kind = "global"
      BY <1>7, Zenon
    <2>2. LastGlobal(f) = g
      BY DEF LastGlobal
    <2> QED
      BY <2>1, <2>2
  <1>9. s[LastGlobal(f)] \in ToSet(s)
    BY <1>8 DEF ToSet
  <1> QED
    BY <1>1, <1>8, <1>9, FilesTyped DEF NodeOf

(***************************************************************************)
(* The requests that the files and the command lines lead to.              *)
(***************************************************************************)
Elements(kind) == {e \in UNION {ToSet(Files[f]) : f \in DOMAIN Files} : e.kind = kind}
CommandLines == UNION {Commands[p] : p \in Procs}

Loaded ==
    {[op |-> <<"define", "node">>, node |-> n] : n \in Nodes}
    \cup {sna_parse_dlc(f, e) : f \in DOMAIN Files, e \in Elements("dlc")}
    \cup {sna_parse_link(f, e) : f \in DOMAIN Files, e \in Elements("link")}
    \cup {sna_parse_cos(e) : e \in Elements("cos")}
    \cup {sna_parse_mode(f, e) : f \in DOMAIN Files, e \in Elements("mode")}
    \cup {sna_parse_lu(f, e) : f \in DOMAIN Files, e \in Elements("lu")}
    \cup {sna_parse_cpic(f, e) : f \in DOMAIN Files, e \in Elements("cpic")}

Controls ==
    {[op |-> <<c.verb, "node">>, node |-> c.name] :
        c \in {d \in CommandLines : d.verb \in {"start", "stop", "delete"}}}
    \cup {[op |-> <<c.verb, c.what>>, name |-> c.name] :
        c \in {d \in CommandLines : d.verb \in {"start", "stop", "delete"}}}

Shows == {[op |-> <<"query", t>>] : t \in ToSet(Tables)}

Asked == Loaded \cup Controls \cup Shows

\* What the kernel relies on: a definition names a node, and a link says
\* whether it is retried.
Legal(r) ==
    /\ r.op \in {<<"define", "node">>, <<"define", "dlc">>, <<"define", "link">>} => r.node \in Nodes
    /\ r.op = <<"define", "link">> => r.retry \in BOOLEAN

LEMMA AskedLegal == \A r \in Asked : Legal(r)
  <1>1. ASSUME NEW r \in Controls PROVE Legal(r)
    BY DEF Controls, Legal
  <1>2. ASSUME NEW r \in Shows PROVE Legal(r)
    BY DEF Shows, Legal
  <1>3. ASSUME NEW f \in DOMAIN Files, NEW e \in Elements("link")
        PROVE  Legal(sna_parse_link(f, e))
    <2>1. e.retry_on_fail \in BOOLEAN
      BY FilesTyped DEF Elements
    <2> QED
      BY <2>1, LastGlobalExists DEF Legal, sna_parse_link
  <1>4. ASSUME NEW f \in DOMAIN Files, NEW e
        PROVE  Legal(sna_parse_dlc(f, e)) /\ Legal(sna_parse_mode(f, e)) /\ Legal(sna_parse_cpic(f, e))
    BY LastGlobalExists DEF Legal, sna_parse_dlc, sna_parse_mode, sna_parse_cpic
  <1>5. ASSUME NEW f \in DOMAIN Files, NEW e
        PROVE  Legal(sna_parse_lu(f, e)) /\ Legal(sna_parse_cos(e))
    BY DEF Legal, sna_parse_lu, sna_parse_cos
  <1>6. ASSUME NEW n \in Nodes PROVE Legal([op |-> <<"define", "node">>, node |-> n])
    BY DEF Legal
  <1>7. ASSUME NEW e \in Elements("cos") PROVE Legal(sna_parse_cos(e))
    BY DEF Legal, sna_parse_cos
  <1>8. ASSUME NEW r \in Loaded PROVE Legal(r)
    BY <1>3, <1>4, <1>5, <1>6, <1>7 DEF Loaded
  <1> QED
    BY <1>1, <1>2, <1>8 DEF Asked

\* Mapping an operation over what is read gives requests of that kind.
LEMMA ElementsRead ==
    ASSUME NEW f \in DOMAIN Files, NEW kind
    PROVE  sna_read_config_file(f, kind) \in Seq(Elements(kind))
  <1> DEFINE s == Files[f]
             E == {e \in ToSet(s) : e.kind = kind}
             t == SubSeq(s, LastGlobal(f) + 1, Len(s))
  <1>1. s \in Seq(ToSet(s)) /\ Len(s) \in Nat /\ LastGlobal(f) \in 1..Len(s)
    BY FilesTyped, LastGlobalExists
  <1>2. t \in Seq(ToSet(s))
    <2> HIDE DEF s
    <2>1. \A i \in (LastGlobal(f) + 1)..Len(s) : s[i] \in ToSet(s)
      BY <1>1 DEF ToSet
    <2> QED
      BY <1>1, <2>1
  <1>3. OfKind(t, kind) \in Seq(E)
    BY <1>2, OfKindType
  <1>4. E \subseteq Elements(kind)
    BY DEF Elements
  <1> QED
    BY <1>3, <1>4 DEF sna_read_config_file

\* The requests of a load.
LEMMA LoadLoaded ==
    ASSUME NEW f \in DOMAIN Files
    PROVE  sna_execute_config_info(f) \in Seq(Loaded)
  <1> DEFINE es(kind) == sna_read_config_file(f, kind)
             r1 == <<[op |-> <<"define", "node">>, node |-> NodeOf(f)]>>
             r2 == [i \in DOMAIN es("dlc") |-> sna_parse_dlc(f, es("dlc")[i])]
             r3 == [i \in DOMAIN es("link") |-> sna_parse_link(f, es("link")[i])]
             r4 == [i \in DOMAIN es("cos") |-> sna_parse_cos(es("cos")[i])]
             r5 == [i \in DOMAIN es("mode") |-> sna_parse_mode(f, es("mode")[i])]
             r6 == [i \in DOMAIN es("lu") |-> sna_parse_lu(f, es("lu")[i])]
             r7 == [i \in DOMAIN es("cpic") |-> sna_parse_cpic(f, es("cpic")[i])]
  <1>1. r1 \in Seq(Loaded)
    <2>1. [op |-> <<"define", "node">>, node |-> NodeOf(f)] \in Loaded
      BY LastGlobalExists DEF Loaded
    <2> QED
      BY <2>1
  <1>e. ASSUME NEW kind
        PROVE  /\ Len(es(kind)) \in Nat /\ DOMAIN es(kind) = 1..Len(es(kind))
               /\ \A i \in DOMAIN es(kind) : es(kind)[i] \in Elements(kind)
    BY ElementsRead
  <1> HIDE DEF es
  <1>2. r2 \in Seq(Loaded)
    BY <1>e DEF Loaded
  <1>3. r3 \in Seq(Loaded)
    BY <1>e DEF Loaded
  <1>4. r4 \in Seq(Loaded)
    BY <1>e DEF Loaded
  <1>5. r5 \in Seq(Loaded)
    BY <1>e DEF Loaded
  <1>6. r6 \in Seq(Loaded)
    BY <1>e DEF Loaded
  <1>7. r7 \in Seq(Loaded)
    BY <1>e DEF Loaded
  <1>8. sna_execute_config_info(f) = r1 \o r2 \o r3 \o r4 \o r5 \o r6 \o r7
    BY DEF sna_execute_config_info, es
  <1> HIDE DEF r1, r2, r3, r4, r5, r6, r7
  <1>9. r1 \o r2 \o r3 \o r4 \o r5 \o r6 \o r7 \in Seq(Loaded)
    BY <1>1, <1>2, <1>3, <1>4, <1>5, <1>6, <1>7
  <1> QED
    BY <1>8, <1>9

LEMMA LoadAsked ==
    ASSUME NEW f \in DOMAIN Files
    PROVE  sna_execute_config_info(f) \in Seq(Asked)
  <1>1. sna_execute_config_info(f) \in Seq(Loaded) /\ Loaded \subseteq Asked
    BY LoadLoaded DEF Asked
  <1> QED
    BY <1>1

\* A load only defines.
LEMMA LoadedDefines == \A x \in Loaded : x.op[1] = "define"
  <1>1. ASSUME NEW f, NEW e
        PROVE  /\ sna_parse_dlc(f, e).op[1] = "define" /\ sna_parse_link(f, e).op[1] = "define"
               /\ sna_parse_cos(e).op[1] = "define" /\ sna_parse_mode(f, e).op[1] = "define"
               /\ sna_parse_lu(f, e).op[1] = "define" /\ sna_parse_cpic(f, e).op[1] = "define"
    BY DEF sna_parse_dlc, sna_parse_link, sna_parse_cos, sna_parse_mode, sna_parse_lu, sna_parse_cpic
  <1>2. \A n : [op |-> <<"define", "node">>, node |-> n].op[1] = "define"
    OBVIOUS
  <1>3. ASSUME NEW x \in Loaded PROVE x.op[1] = "define"
    <2>1. \/ \E n \in Nodes : x = [op |-> <<"define", "node">>, node |-> n]
          \/ \E f \in DOMAIN Files : \E e \in Elements("dlc") : x = sna_parse_dlc(f, e)
          \/ \E f \in DOMAIN Files : \E e \in Elements("link") : x = sna_parse_link(f, e)
          \/ \E e \in Elements("cos") : x = sna_parse_cos(e)
          \/ \E f \in DOMAIN Files : \E e \in Elements("mode") : x = sna_parse_mode(f, e)
          \/ \E f \in DOMAIN Files : \E e \in Elements("lu") : x = sna_parse_lu(f, e)
          \/ \E f \in DOMAIN Files : \E e \in Elements("cpic") : x = sna_parse_cpic(f, e)
      BY DEF Loaded
    <2> QED
      BY <1>1, <1>2, <2>1
  <1> QED
    BY <1>3

\* The requests of every command.
LEMMA RequestsAsked ==
    ASSUME NEW p \in Procs, NEW c \in Commands[p], IsFiniteSet(nof)
    PROVE  Requests(c) \in Seq(Asked)
  <1>0. c \in CommandLines
    BY DEF CommandLines
  <1>1. CASE c.verb = "load"
    BY <1>1, CommandsKnown, LoadAsked DEF Requests
  <1>2. CASE c.verb \in {"start", "stop", "delete"}
    <2>1. Requests(c) = sna_ctrl(c)
      BY <1>2 DEF Requests
    <2>2. /\ [op |-> <<c.verb, "node">>, node |-> c.name] \in Asked
          /\ [op |-> <<c.verb, c.what>>, name |-> c.name] \in Asked
      BY <1>0, <1>2 DEF Asked, Controls
    <2>3. CASE c.what = "node"
      BY <2>1, <2>2, <2>3 DEF sna_ctrl
    <2>4. CASE c.what \in {"dlc", "link"}
      BY <2>1, <2>2, <2>4 DEF sna_ctrl
    <2>5. CASE c.what = "lu" /\ c.verb = "start"
      BY <2>1, <2>2, <2>5 DEF sna_ctrl
    <2>6. CASE c.what \notin {"node", "dlc", "link"} /\ ~(c.what = "lu" /\ c.verb = "start")
      BY <2>1, <2>6 DEF sna_ctrl
    <2> QED
      BY <2>3, <2>4, <2>5, <2>6
  <1>3. CASE c.verb = "show"
    <2>1. Len(Tables) = 9 /\ \A i \in 1..9 : Tables[i] \in ToSet(Tables)
      BY DEF Tables, ToSet
    <2>2. Cardinality(nof) \in Nat
      BY FS_CardinalityType
    <2> DEFINE n == Cardinality(nof) * Len(Tables)
    <2>3. n \in Nat
      BY <2>1, <2>2
    <2> HIDE DEF n
    <2>4. ASSUME NEW i \in 1..n
          PROVE  [op |-> <<"query", Tables[((i - 1) % Len(Tables)) + 1]>>] \in Asked
      <3>1. ((i - 1) % Len(Tables)) + 1 \in 1..9
        BY <2>1, <2>3
      <3> QED
        BY <2>1, <3>1 DEF Asked, Shows
    <2>5. sna_show \in Seq(Asked)
      <3>1. sna_show = [i \in 1..n |-> [op |-> <<"query", Tables[((i - 1) % Len(Tables)) + 1]>>]]
        BY DEF sna_show, n
      <3> DEFINE q(i) == [op |-> <<"query", Tables[((i - 1) % Len(Tables)) + 1]>>]
      <3>2. \A i \in 1..n : q(i) \in Asked
        BY <2>4
      <3> HIDE DEF q
      <3>3. [i \in 1..n |-> q(i)] \in Seq(Asked)
        BY <2>3, <3>2
      <3> QED
        BY <3>1, <3>3 DEF q
    <2> QED
      BY <1>3, <2>5 DEF Requests
  <1>4. CASE c.verb \in {"reload", "unload", "find"}
    BY <1>4 DEF Requests
  <1> QED
    BY <1>1, <1>2, <1>3, <1>4, CommandsKnown

-----------------------------------------------------------------------------
(***************************************************************************)
(* The tables.                                                             *)
(***************************************************************************)
LinkRec ==
    [name : {r.name : r \in Asked}, peer : {r.peer : r \in Asked}, retry : BOOLEAN,
     running : BOOLEAN, state : {"defined", "activated", "active"}, timer : BOOLEAN,
     tested : BOOLEAN, heard : BOOLEAN]

PortRec ==
    [name : {r.name : r \in Asked}, node : Nodes, saddr : {r.saddr : r \in Asked},
     dev : Devices, running : BOOLEAN, ls : SUBSET LinkRec]

NodeTypes ==
    /\ nof \subseteq [node : Nodes, running : BOOLEAN]
    /\ \A m, n \in nof : m.node = n.node => m = n
    /\ IsFiniteSet(nof)
    /\ cs \in [Names -> {"absent", "stopped", "running"}]
    /\ uncreated \subseteq Nodes

\* Ports are only defined for a node that has configuration services.
PortsServed == \A p \in ports : p.node \notin uncreated

\* Only an active link still has a timer once it is stopped.
TimerFits(l) == ~l.running /\ l.timer => l.state = "active"

\* No links of two ports, and no two of one, share a peer or a name.
LinksApart(p, q) ==
    \A l \in p.ls, k \in q.ls : l.peer = k.peer \/ l.name = k.name => p = q /\ l = k

TInv ==
    /\ NodeTypes /\ NodesAgree
    /\ ports \subseteq PortRec
    /\ UpStandsOnUp /\ NoLeftovers /\ AddressesUnique /\ PortsServed
    /\ \A p \in ports : \A l \in p.ls : TimerFits(l)

\* Calls that refuse, and the definitions of modes, LUs and the like.
LEMMA TablesKept ==
    ASSUME TInv, UNCHANGED <<nof, cs, ports, uncreated>>
    PROVE  TInv'
  BY DEF TInv, NodeTypes, NodesAgree, UpStandsOnUp, NoLeftovers, AddressesUnique, PortsServed, TimerFits,
         sna_nof_get_by_netid

LEMMA NameParts == \A m, n \in Nodes : NamePart[m] \in Names /\ (NamePart[m] = NamePart[n] => m = n)
  BY NamesDiffer DEF Names

\* A link that is stopped.
LEMMA LinkStopped ==
    ASSUME NEW l \in LinkRec, TimerFits(l)
    PROVE  LET k == sna_cs_stop_ls_gen(l) IN
           /\ k \in LinkRec /\ k.name = l.name /\ k.peer = l.peer
           /\ ~k.running /\ TimerFits(k)
           /\ k.timer => l.state = "active"
  BY DEF sna_cs_stop_ls_gen, LinkRec, TimerFits

\* A port that is stopped, with its links.
LEMMA PortStopped ==
    ASSUME NEW p \in PortRec, \A l \in p.ls : TimerFits(l) /\ (l.running => p.running)
    PROVE  LET q == sna_cs_stop_port_gen(p) IN
           /\ q \in PortRec /\ q.name = p.name /\ q.node = p.node /\ q.saddr = p.saddr
           /\ ~q.running
           /\ \A k \in q.ls : /\ TimerFits(k) /\ ~k.running
                              /\ \E l \in p.ls : k.name = l.name /\ k.peer = l.peer
                                                 /\ (k = sna_cs_stop_ls_gen(l) \/ q = p)
  <1> DEFINE q == sna_cs_stop_port_gen(p)
             ls == {sna_cs_stop_ls_gen(l) : l \in p.ls}
  <1>0. p.ls \subseteq LinkRec /\ p.running \in BOOLEAN
    BY DEF PortRec
  <1>1. CASE ~p.running
    <2>1. q = p
      BY <1>1 DEF sna_cs_stop_port_gen
    <2> QED
      BY <1>1, <2>1
  <1>2. CASE p.running
    <2>1. q = [p EXCEPT !.running = FALSE, !.ls = ls]
      BY <1>2 DEF sna_cs_stop_port_gen
    <2>2. ASSUME NEW k \in ls
          PROVE  /\ k \in LinkRec /\ TimerFits(k) /\ ~k.running
                 /\ \E l \in p.ls : k.name = l.name /\ k.peer = l.peer /\ k = sna_cs_stop_ls_gen(l)
      <3>1. PICK l \in p.ls : k = sna_cs_stop_ls_gen(l)
        OBVIOUS
      <3> QED
        BY <1>0, <3>1, LinkStopped
    <2> HIDE DEF ls
    <2>3. ls \in SUBSET LinkRec
      BY <2>2
    <2>4. q \in PortRec /\ q.name = p.name /\ q.node = p.node /\ q.saddr = p.saddr /\ ~q.running /\ q.ls = ls
      BY <2>1, <2>3 DEF PortRec
    <2> HIDE DEF q
    <2> QED
      BY <2>2, <2>4 DEF q
  <1> QED
    BY <1>0, <1>1, <1>2

\* One port is replaced by another with the same name, node and address.
LEMMA PortReplaced ==
    ASSUME TInv, NEW p \in ports, NEW q \in PortRec,
           ports' = (ports \ {p}) \cup {q}, UNCHANGED <<nof, cs, uncreated>>,
           q.name = p.name, q.node = p.node, q.saddr = p.saddr,
           q.running => cs[NamePart[q.node]] = "running",
           \A l \in q.ls : TimerFits(l) /\ (l.running => q.running),
           LinksApart(q, q),
           \A o \in ports \ {p} : \A l \in q.ls, k \in o.ls : l.peer # k.peer /\ l.name # k.name
    PROVE  TInv'
  <1> USE DEF TInv
  <1>1. NodeTypes' /\ NodesAgree'
    BY DEF NodeTypes, NodesAgree, sna_nof_get_by_netid
  <1>2. ports' \subseteq PortRec
    OBVIOUS
  <1>3. UpStandsOnUp' /\ NoLeftovers' /\ PortsServed'
    BY DEF UpStandsOnUp, NoLeftovers, PortsServed, sna_nof_get_by_netid
  <1>4. (\A o \in ports : \A l \in o.ls : TimerFits(l))'
    BY DEF TimerFits
  <1>5. AddressesUnique'
    <2> SUFFICES ASSUME NEW a \in ports', NEW b \in ports'
                 PROVE  (a.saddr = b.saddr \/ a.name = b.name => a = b) /\ LinksApart(a, b)
      BY DEF AddressesUnique, LinksApart
    <2>1. CASE a \in ports \ {p} /\ b \in ports \ {p}
      BY <2>1 DEF AddressesUnique, LinksApart
    <2>2. CASE a = q /\ b = q
      BY <2>2
    <2>3. CASE a = q /\ b \in ports \ {p}
      BY <2>3 DEF AddressesUnique, LinksApart
    <2>4. CASE b = q /\ a \in ports \ {p}
      <3>1. ~(a.saddr = b.saddr) /\ ~(a.name = b.name)
        BY <2>4 DEF AddressesUnique
      <3>2. \A l \in a.ls, k \in b.ls : l.peer # k.peer /\ l.name # k.name
        BY <2>4
      <3> QED
        BY <3>1, <3>2 DEF LinksApart
    <2> QED
      BY <2>1, <2>2, <2>3, <2>4
  <1> QED
    BY <1>1, <1>2, <1>3, <1>4, <1>5

\* One link of a port is replaced by another with the same name and peer.
LEMMA LinkReplaced ==
    ASSUME TInv, NEW p \in ports, NEW l \in p.ls, NEW k \in LinkRec, LinkBecomes(p, l, k),
           k.name = l.name, k.peer = l.peer, TimerFits(k), k.running => p.running
    PROVE  TInv'
  <1> DEFINE q == [p EXCEPT !.ls = (@ \ {l}) \cup {k}]
  <1>1. p \in PortRec /\ p.ls \subseteq LinkRec
    BY DEF TInv, PortRec
  <1>2. /\ q \in PortRec /\ q.name = p.name /\ q.node = p.node /\ q.saddr = p.saddr
        /\ q.running = p.running /\ q.ls = (p.ls \ {l}) \cup {k}
    BY <1>1 DEF PortRec
  <1>3. ports' = (ports \ {p}) \cup {q} /\ UNCHANGED <<nof, cs, uncreated>>
    BY DEF LinkBecomes, PortBecomes
  <1> HIDE DEF q
  <1>4. LinksApart(p, p) /\ \A o \in ports : LinksApart(p, o)
    BY DEF TInv, AddressesUnique, LinksApart
  <1>5. LinksApart(q, q)
    BY <1>2, <1>4 DEF LinksApart
  <1>6. \A o \in ports \ {p} : \A m \in q.ls, n \in o.ls : m.peer # n.peer /\ m.name # n.name
    BY <1>2, <1>4 DEF LinksApart
  <1>7. q.running => cs[NamePart[q.node]] = "running"
    BY <1>2 DEF TInv, UpStandsOnUp
  <1>8. \A m \in q.ls : TimerFits(m) /\ (m.running => q.running)
    BY <1>2 DEF TInv, UpStandsOnUp
  <1> QED
    BY <1>2, <1>3, <1>5, <1>6, <1>7, <1>8, PortReplaced

-----------------------------------------------------------------------------
(***************************************************************************)
(* The calls, one lemma for each that changes nodes, ports or links.       *)
(***************************************************************************)
LEMMA Refused ==
    ASSUME TInv, NEW err, NEW e, Refuses(err, e)
    PROVE  TInv'
  BY TablesKept DEF Refuses, nofVars

\* NodesAgree, said of one node.
Agrees(n) ==
    /\ cs[NamePart[n]] = "absent" <=> (\A m \in nof : m.node # n) \/ n \in uncreated
    /\ \A m \in nof : m.node = n /\ n \notin uncreated => (cs[NamePart[n]] = "running" <=> m.running)
    /\ n \in uncreated => \E m \in nof : m.node = n

LEMMA AgreeEach ==
    (uncreated \subseteq Nodes) => (NodesAgree <=> \A n \in Nodes : Agrees(n))
  BY DEF NodesAgree, Agrees, sna_nof_get_by_netid

\* A node is defined, with configuration services or without.
LEMMA NodeDefine ==
    ASSUME TInv, NEW r, r.node \in Nodes, NEW err, sna_nof_node_define(r, err)
    PROVE  TInv'
  <1>1. CASE \E e : Refuses(err, e)
    BY <1>1, Refused
  <1> DEFINE e == [node |-> r.node, running |-> FALSE]
  <1>2. ASSUME sna_nof_get_by_netid(r.node) = {}, nof' = nof \cup {e}, ports' = ports,
               \/ /\ cs' = [cs EXCEPT ![NamePart[r.node]] = IF @ = "absent" THEN "stopped" ELSE @]
                  /\ uncreated' = uncreated
               \/ uncreated' = uncreated \cup {r.node} /\ cs' = cs
        PROVE  TInv'
    <2> USE <1>2 DEF TInv
    <2>0. \A n \in Nodes : Agrees(n)
      BY AgreeEach DEF NodeTypes
    <2>2. cs[NamePart[r.node]] = "absent" /\ \A m \in nof : m.node # r.node
      BY <2>0 DEF Agrees, sna_nof_get_by_netid
    <2>e. e \in [node : Nodes, running : BOOLEAN] /\ e.node = r.node /\ ~e.running
      OBVIOUS
    <2> HIDE DEF e
    <2>3. NodeTypes'
      <3>1. IsFiniteSet(nof')
        BY FS_AddElement DEF NodeTypes
      <3> QED
        BY <2>2, <2>e, <3>1 DEF NodeTypes
    <2>4. \A n \in Nodes : cs'[NamePart[n]] =
            IF n = r.node THEN (IF r.node \in uncreated' THEN "absent" ELSE "stopped")
                          ELSE cs[NamePart[n]]
      <3>1. r.node \notin uncreated
        BY <2>0, <2>2 DEF Agrees
      <3>2. CASE uncreated' = uncreated
        BY <2>2, <3>1, <3>2, NameParts DEF NodeTypes
      <3>3. CASE uncreated' = uncreated \cup {r.node} /\ cs' = cs
        BY <2>2, <3>3
      <3> QED
        BY <3>2, <3>3
    <2>5. NodesAgree'
      <3>1. ASSUME NEW n \in Nodes PROVE Agrees(n)'
        <4>1. CASE n = r.node
          BY <2>2, <2>4, <2>e, <4>1 DEF Agrees
        <4>2. CASE n # r.node
          <5>1. n \in uncreated' <=> n \in uncreated
            BY <4>2
          <5> QED
            BY <2>0, <2>4, <2>e, <4>2, <5>1 DEF Agrees
        <4> QED
          BY <4>1, <4>2
      <3>2. (uncreated \subseteq Nodes)'
        BY <2>3 DEF NodeTypes
      <3>3. ((uncreated \subseteq Nodes) => (NodesAgree <=> \A n \in Nodes : Agrees(n)))'
        BY AgreeEach, PTL
      <3> QED
        BY <3>1, <3>2, <3>3
    <2>6. UpStandsOnUp'
      <3>1. \A p \in ports : p.node \in Nodes
        BY DEF PortRec
      <3> QED
        BY <2>2, <2>4, <3>1 DEF UpStandsOnUp
    <2>7. NoLeftovers' /\ AddressesUnique'
      BY DEF NoLeftovers, AddressesUnique, sna_nof_get_by_netid
    <2>8. PortsServed'
      BY <2>2 DEF PortsServed, NoLeftovers, sna_nof_get_by_netid
    <2> QED
      BY <2>3, <2>5, <2>6, <2>7, <2>8 DEF TimerFits
  <1> QED
    BY <1>1, <1>2 DEF sna_nof_node_define

\* A node's entry changes between stopped and running; so do its
\* configuration services, if it has any.
LEMMA NodeChanged ==
    ASSUME TInv, NEW e \in nof, NEW d \in [node : Nodes, running : BOOLEAN], d.node = e.node,
           NEW up \in {"stopped", "running"}, d.running <=> up = "running",
           nof' = (nof \ {e}) \cup {d}, uncreated' = uncreated,
           cs' = IF e.node \in uncreated THEN cs ELSE [cs EXCEPT ![NamePart[e.node]] = up]
    PROVE  /\ NodeTypes' /\ NodesAgree'
           /\ \A n \in Nodes : cs'[NamePart[n]] =
                IF n = e.node /\ n \notin uncreated THEN up ELSE cs[NamePart[n]]
           /\ \A n \in Nodes : sna_nof_get_by_netid(n) # {} => sna_nof_get_by_netid(n)' # {}
  <1> USE DEF TInv
  <1>1. e \in [node : Nodes, running : BOOLEAN]
    BY DEF NodeTypes
  <1>4. NodeTypes'
    <2> DEFINE rest == nof \ {e}
    <2>1. IsFiniteSet(rest) /\ nof' = rest \cup {d}
      BY FS_RemoveElement DEF NodeTypes
    <2> HIDE DEF rest
    <2>2. IsFiniteSet(nof')
      BY <2>1, FS_AddElement
    <2>3. nof' \subseteq [node : Nodes, running : BOOLEAN]
      BY DEF NodeTypes
    <2>4. \A m, n \in nof' : m.node = n.node => m = n
      BY DEF NodeTypes
    <2>5. cs' \in [Names -> {"absent", "stopped", "running"}]
      BY DEF NodeTypes
    <2> QED
      BY <2>2, <2>3, <2>4, <2>5 DEF NodeTypes
  <1>5. \A n \in Nodes : cs'[NamePart[n]] =
          IF n = e.node /\ n \notin uncreated THEN up ELSE cs[NamePart[n]]
    BY <1>1, NameParts DEF NodeTypes
  <1>0. \A n \in Nodes : Agrees(n)
    BY AgreeEach DEF NodeTypes
  <1>6. ASSUME NEW n \in Nodes
        PROVE  Agrees(n)' /\ ((\E m \in nof : m.node = n) => \E m \in nof' : m.node = n)
    <2>1. CASE n = e.node
      BY <1>0, <1>5, <2>1 DEF NodeTypes, Agrees
    <2>2. CASE n # e.node
      BY <1>0, <1>5, <2>2 DEF Agrees
    <2> QED
      BY <2>1, <2>2
  <1>7. ((uncreated \subseteq Nodes) => (NodesAgree <=> \A n \in Nodes : Agrees(n)))'
    BY AgreeEach, PTL
  <1>8. NodesAgree'
    BY <1>4, <1>6, <1>7 DEF NodeTypes
  <1> QED
    BY <1>4, <1>5, <1>6, <1>8 DEF sna_nof_get_by_netid

LEMMA NodeStart ==
    ASSUME TInv, NEW r, NEW err, sna_nof_node_start(r, err)
    PROVE  TInv'
  <1>1. CASE \E e : Refuses(err, e)
    BY <1>1, Refused
  <1>2. ASSUME NEW e \in sna_nof_get_by_netid(r.node), ~e.running,
               nof' = (nof \ {e}) \cup {[e EXCEPT !.running = TRUE]},
               sna_cs_start(r.node), ports' = ports, uncreated' = uncreated
        PROVE  TInv'
    <2> USE <1>2 DEF TInv
    <2>1. e \in nof /\ e.node = r.node /\ e.node \in Nodes
      BY DEF sna_nof_get_by_netid, NodeTypes
    <2>2. cs[NamePart[e.node]] = "absent" <=> e.node \in uncreated
      BY <2>1 DEF NodesAgree
    <2>3. cs' = IF e.node \in uncreated THEN cs ELSE [cs EXCEPT ![NamePart[e.node]] = "running"]
      BY <2>1, <2>2, NameParts DEF sna_cs_start, NodeTypes
    <2> HIDE DEF TInv
    <2>4. /\ NodeTypes' /\ NodesAgree'
          /\ \A n \in Nodes : cs'[NamePart[n]] =
                IF n = e.node /\ n \notin uncreated THEN "running" ELSE cs[NamePart[n]]
          /\ \A n \in Nodes : sna_nof_get_by_netid(n) # {} => sna_nof_get_by_netid(n)' # {}
      <3> DEFINE d == [e EXCEPT !.running = TRUE]
      <3>1. d \in [node : Nodes, running : BOOLEAN] /\ d.node = e.node /\ d.running = TRUE
        BY <2>1 DEF TInv, NodeTypes
      <3>2. nof' = (nof \ {e}) \cup {d}
        OBVIOUS
      <3> HIDE DEF d
      <3> QED
        BY <2>1, <2>3, <3>1, <3>2, NodeChanged
    <2> USE DEF TInv
    <2>5. \A p \in ports : p.node \in Nodes
      BY DEF PortRec
    <2>6. UpStandsOnUp' /\ NoLeftovers' /\ PortsServed'
      BY <2>4, <2>5 DEF UpStandsOnUp, NoLeftovers, PortsServed
    <2> QED
      BY <2>4, <2>6 DEF AddressesUnique, TimerFits
  <1> QED
    BY <1>1, <1>2 DEF sna_nof_node_start

\* Stopping a node stops its ports and their links, and nothing else.
LEMMA NodeStop ==
    ASSUME TInv, NEW r, NEW err, sna_nof_node_stop(r, err)
    PROVE  TInv'
  <1>1. CASE \E e : Refuses(err, e)
    BY <1>1, Refused
  <1>2. ASSUME NEW e \in sna_nof_get_by_netid(r.node), e.running,
               nof' = (nof \ {e}) \cup {[e EXCEPT !.running = FALSE]},
               sna_cs_stop(r.node), uncreated' = uncreated
        PROVE  TInv'
    <2> USE <1>2 DEF TInv
    <2>1. e \in nof /\ e.node = r.node /\ e.node \in Nodes
      BY DEF sna_nof_get_by_netid, NodeTypes
    <2>2. /\ cs[NamePart[e.node]] = "absent" <=> e.node \in uncreated
          /\ e.node \notin uncreated => cs[NamePart[e.node]] = "running"
      BY <2>1 DEF NodesAgree
    <2> DEFINE Now(p) == IF p.node = e.node THEN sna_cs_stop_port_gen(p) ELSE p
    <2>3. /\ cs' = IF e.node \in uncreated THEN cs ELSE [cs EXCEPT ![NamePart[e.node]] = "stopped"]
          /\ ports' = {Now(p) : p \in ports}
      <3>1. CASE e.node \notin uncreated
        BY <2>1, <2>2, <3>1 DEF sna_cs_stop
      <3>2. CASE e.node \in uncreated
        <4>1. UNCHANGED <<cs, ports>>
          BY <2>1, <2>2, <3>2 DEF sna_cs_stop
        <4>2. \A p \in ports : Now(p) = p
          BY <3>2 DEF PortsServed
        <4> QED
          BY <3>2, <4>1, <4>2
      <3> QED
        BY <3>1, <3>2
    <2> HIDE DEF TInv
    <2>4. /\ NodeTypes' /\ NodesAgree'
          /\ \A n \in Nodes : cs'[NamePart[n]] =
                IF n = e.node /\ n \notin uncreated THEN "stopped" ELSE cs[NamePart[n]]
          /\ \A n \in Nodes : sna_nof_get_by_netid(n) # {} => sna_nof_get_by_netid(n)' # {}
      <3> DEFINE d == [e EXCEPT !.running = FALSE]
      <3>1. d \in [node : Nodes, running : BOOLEAN] /\ d.node = e.node /\ d.running = FALSE
        BY <2>1 DEF TInv, NodeTypes
      <3>2. nof' = (nof \ {e}) \cup {d}
        OBVIOUS
      <3> HIDE DEF d
      <3> QED
        BY <2>1, <2>3, <3>1, <3>2, NodeChanged
    <2> USE DEF TInv
    <2>5. ASSUME NEW p \in ports
          PROVE  LET q == Now(p) IN
                 /\ q \in PortRec /\ q.name = p.name /\ q.node = p.node /\ q.saddr = p.saddr
                 /\ q.node = e.node => ~q.running
                 /\ q.node # e.node => q = p
                 /\ \A k \in q.ls : TimerFits(k) /\ (k.running => q.running)
                 /\ \A k \in q.ls : \E l \in p.ls : k.name = l.name /\ k.peer = l.peer
                                                    /\ (k = sna_cs_stop_ls_gen(l) \/ q = p)
      <3>1. p \in PortRec /\ \A l \in p.ls : TimerFits(l) /\ (l.running => p.running)
        BY DEF UpStandsOnUp
      <3>2. CASE p.node = e.node
        BY <3>1, <3>2, PortStopped
      <3>3. CASE p.node # e.node
        BY <3>1, <3>3
      <3> QED
        BY <3>2, <3>3
    <2> HIDE DEF Now
    <2>6. ports' \subseteq PortRec
      BY <2>3, <2>5
    <2>7. (\A p \in ports : \A l \in p.ls : TimerFits(l))'
      BY <2>3, <2>5 DEF TimerFits
    <2>8. UpStandsOnUp'
      <3> SUFFICES ASSUME NEW p \in ports
                   PROVE  /\ Now(p).running => cs'[NamePart[Now(p).node]] = "running"
                          /\ \A l \in Now(p).ls : l.running => Now(p).running
        BY <2>3 DEF UpStandsOnUp
      <3>1. p.node \in Nodes
        BY DEF PortRec
      <3> QED
        BY <2>4, <2>5, <3>1 DEF UpStandsOnUp
    <2>11. PortsServed'
      BY <2>3, <2>5 DEF PortsServed
    <2>9. NoLeftovers'
      <3> SUFFICES ASSUME NEW p \in ports PROVE sna_nof_get_by_netid(Now(p).node)' # {}
        BY <2>3 DEF NoLeftovers
      <3>1. p.node \in Nodes
        BY DEF PortRec
      <3> QED
        BY <2>4, <2>5, <3>1 DEF NoLeftovers
    <2>10. AddressesUnique'
      <3> SUFFICES ASSUME NEW p \in ports, NEW q \in ports
                   PROVE  /\ Now(p).saddr = Now(q).saddr \/ Now(p).name = Now(q).name => Now(p) = Now(q)
                          /\ \A l \in Now(p).ls, k \in Now(q).ls :
                                l.peer = k.peer \/ l.name = k.name => Now(p) = Now(q) /\ l = k
        BY <2>3 DEF AddressesUnique
      <3>1. Now(p).saddr = Now(q).saddr \/ Now(p).name = Now(q).name => p = q
        BY <2>5 DEF AddressesUnique
      <3>2. ASSUME NEW l \in Now(p).ls, NEW k \in Now(q).ls, l.peer = k.peer \/ l.name = k.name
            PROVE  p = q /\ l = k
        <4>1. PICK m \in p.ls : l.name = m.name /\ l.peer = m.peer /\ (l = sna_cs_stop_ls_gen(m) \/ Now(p) = p)
          BY <2>5
        <4>2. PICK n \in q.ls : k.name = n.name /\ k.peer = n.peer /\ (k = sna_cs_stop_ls_gen(n) \/ Now(q) = q)
          BY <2>5
        <4>3. p = q /\ m = n
          BY <3>2, <4>1, <4>2 DEF AddressesUnique
        <4>4. CASE Now(p) = p
          BY <3>2, <4>3, <4>4 DEF AddressesUnique
        <4> QED
          BY <4>1, <4>2, <4>3, <4>4
      <3> QED
        BY <3>1, <3>2
    <2> QED
      BY <2>4, <2>6, <2>7, <2>8, <2>9, <2>10, <2>11
  <1> QED
    BY <1>1, <1>2 DEF sna_nof_node_stop

\* Ports are taken away.
LEMMA PortsRemoved ==
    ASSUME TInv, ports' \subseteq ports,
           NodeTypes', NodesAgree', uncreated' \subseteq uncreated,
           \A p \in ports' : /\ cs'[NamePart[p.node]] = cs[NamePart[p.node]]
                             /\ sna_nof_get_by_netid(p.node)' # {}
    PROVE  TInv'
  <1> USE DEF TInv
  <1>1. UpStandsOnUp' /\ NoLeftovers' /\ PortsServed'
    BY DEF UpStandsOnUp, NoLeftovers, PortsServed
  <1>2. AddressesUnique'
    BY DEF AddressesUnique
  <1>3. (\A p \in ports : \A l \in p.ls : TimerFits(l))'
    BY DEF TimerFits
  <1> QED
    BY <1>1, <1>2, <1>3

\* Deleting a node takes its ports along.
LEMMA NodeDelete ==
    ASSUME TInv, NEW r, NEW err, sna_nof_node_delete(r, err)
    PROVE  TInv'
  <1>1. CASE \E e : Refuses(err, e)
    BY <1>1, Refused
  <1>2. ASSUME NEW e \in sna_nof_get_by_netid(r.node), nof' = nof \ {e}, sna_cs_destroy(r.node),
               uncreated' = uncreated \ {r.node}
        PROVE  TInv'
    <2> USE <1>2 DEF TInv
    <2>1. e \in nof /\ e.node = r.node /\ e.node \in Nodes
      BY DEF sna_nof_get_by_netid, NodeTypes
    <2>0. \A n \in Nodes : Agrees(n)
      BY AgreeEach DEF NodeTypes
    <2>2. cs' = [cs EXCEPT ![NamePart[e.node]] = "absent"] /\ ports' = {p \in ports : p.node # e.node}
      <3>1. CASE cs[NamePart[e.node]] # "absent"
        BY <2>1, <3>1 DEF sna_cs_destroy
      <3>2. CASE cs[NamePart[e.node]] = "absent"
        <4>1. UNCHANGED <<cs, ports>>
          BY <2>1, <3>2 DEF sna_cs_destroy
        <4>2. e.node \in uncreated
          BY <2>0, <2>1, <3>2 DEF Agrees
        <4>3. \A p \in ports : p.node # e.node
          BY <4>2 DEF PortsServed
        <4> QED
          BY <2>1, <3>2, <4>1, <4>3, NameParts DEF NodeTypes
      <3> QED
        BY <3>1, <3>2
    <2>3. NodeTypes'
      <3>1. IsFiniteSet(nof')
        BY FS_RemoveElement DEF NodeTypes
      <3> QED
        BY <2>1, <2>2, <3>1 DEF NodeTypes
    <2>4. \A n \in Nodes : cs'[NamePart[n]] = IF n = e.node THEN "absent" ELSE cs[NamePart[n]]
      BY <2>1, <2>2, NameParts DEF NodeTypes
    <2>5. ASSUME NEW n \in Nodes
          PROVE  /\ Agrees(n)'
                 /\ n # e.node /\ (\E m \in nof : m.node = n) => \E m \in nof' : m.node = n
      <3>1. CASE n = e.node
        BY <2>1, <2>4, <3>1 DEF NodeTypes, Agrees
      <3>2. CASE n # e.node
        <4>1. n \in uncreated' <=> n \in uncreated
          BY <2>1, <3>2
        <4> QED
          BY <2>0, <2>4, <3>2, <4>1 DEF Agrees
      <3> QED
        BY <3>1, <3>2
    <2>6. NodesAgree'
      <3>1. ((uncreated \subseteq Nodes) => (NodesAgree <=> \A n \in Nodes : Agrees(n)))'
        BY AgreeEach, PTL
      <3> QED
        BY <2>3, <2>5, <3>1 DEF NodeTypes
    <2>7. ASSUME NEW p \in ports'
          PROVE  /\ cs'[NamePart[p.node]] = cs[NamePart[p.node]]
                 /\ sna_nof_get_by_netid(p.node)' # {}
      <3>1. p \in ports /\ p.node \in Nodes /\ p.node # e.node
        BY <2>2 DEF PortRec
      <3> QED
        BY <2>4, <2>5, <3>1 DEF NoLeftovers, sna_nof_get_by_netid
    <2>8. ports' \subseteq ports
      BY <2>2
    <2> HIDE DEF TInv
    <2> QED
      BY <2>3, <2>6, <2>7, <2>8, PortsRemoved
  <1> QED
    BY <1>1, <1>2 DEF sna_nof_node_delete

\* A port is added for a node that exists.
LEMMA DefinePort ==
    ASSUME TInv, NEW r \in Asked, r.node \in Nodes, NEW err, sna_cs_define_port(r, err)
    PROVE  TInv'
  <1>1. CASE \E e : Refuses(err, e)
    BY <1>1, Refused
  <1> DEFINE q == [name |-> r.name, node |-> r.node, saddr |-> r.saddr,
                   dev |-> r.dev, running |-> FALSE, ls |-> {}]
  <1>2. ASSUME cs[NamePart[r.node]] # "absent", r.dev \in Devices,
               PortByAddr(r.saddr) = {}, PortByName(r.name) = {},
               ports' = ports \cup {q}, UNCHANGED <<nof, cs, uncreated>>
        PROVE  TInv'
    <2> USE <1>2 DEF TInv
    <2>1. /\ q \in PortRec /\ q.name = r.name /\ q.node = r.node /\ q.saddr = r.saddr
          /\ ~q.running /\ q.ls = {}
      BY DEF PortRec
    <2> HIDE DEF q
    <2>2. \A p \in ports : p.saddr # q.saddr /\ p.name # q.name
      BY <2>1 DEF PortByAddr, PortByName
    <2>3. sna_nof_get_by_netid(q.node) # {} /\ q.node \notin uncreated
      BY <2>1 DEF NodesAgree
    <2>4. NodeTypes' /\ NodesAgree'
      BY DEF NodeTypes, NodesAgree, sna_nof_get_by_netid
    <2>5. UpStandsOnUp' /\ NoLeftovers' /\ PortsServed'
      BY <2>1, <2>3 DEF UpStandsOnUp, NoLeftovers, PortsServed, sna_nof_get_by_netid
    <2>6. AddressesUnique'
      BY <2>1, <2>2 DEF AddressesUnique
    <2>7. (\A p \in ports : \A l \in p.ls : TimerFits(l))'
      BY <2>1 DEF TimerFits
    <2> QED
      BY <2>1, <2>4, <2>5, <2>6, <2>7
  <1> QED
    BY <1>1, <1>2 DEF sna_cs_define_port

LEMMA StartPort ==
    ASSUME TInv, NEW r, NEW err, sna_cs_start_port(r, err)
    PROVE  TInv'
  <1>1. CASE \E e : Refuses(err, e)
    BY <1>1, Refused
  <1>2. ASSUME NEW p \in ports, cs[NamePart[p.node]] = "running",
               PortBecomes(p, [p EXCEPT !.running = TRUE])
        PROVE  TInv'
    <2> DEFINE q == [p EXCEPT !.running = TRUE]
    <2>1. p \in PortRec
      BY DEF TInv
    <2>2. /\ q \in PortRec /\ q.name = p.name /\ q.node = p.node /\ q.saddr = p.saddr
          /\ q.running /\ q.ls = p.ls
      BY <2>1 DEF PortRec
    <2>3. ports' = (ports \ {p}) \cup {q} /\ UNCHANGED <<nof, cs, uncreated>>
      BY <1>2 DEF PortBecomes
    <2> HIDE DEF q
    <2>4. LinksApart(q, q)
      BY <2>2 DEF LinksApart, TInv, AddressesUnique
    <2>5. \A o \in ports \ {p} : \A l \in q.ls, k \in o.ls : l.peer # k.peer /\ l.name # k.name
      BY <2>2 DEF TInv, AddressesUnique
    <2>6. \A l \in q.ls : TimerFits(l) /\ (l.running => q.running)
      BY <2>2 DEF TInv
    <2> QED
      BY <1>2, <2>2, <2>3, <2>4, <2>5, <2>6, PortReplaced
  <1> QED
    BY <1>1, <1>2 DEF sna_cs_start_port, PortByName

LEMMA StopPort ==
    ASSUME TInv, NEW r, NEW err, sna_cs_stop_port(r, err)
    PROVE  TInv'
  <1>1. CASE \E e : Refuses(err, e)
    BY <1>1, Refused
  <1>2. ASSUME NEW p \in ports, PortBecomes(p, sna_cs_stop_port_gen(p))
        PROVE  TInv'
    <2> DEFINE q == sna_cs_stop_port_gen(p)
    <2>1. p \in PortRec /\ \A l \in p.ls : TimerFits(l) /\ (l.running => p.running)
      BY DEF TInv, UpStandsOnUp
    <2>2. /\ q \in PortRec /\ q.name = p.name /\ q.node = p.node /\ q.saddr = p.saddr
          /\ ~q.running
          /\ \A k \in q.ls : /\ TimerFits(k) /\ ~k.running
                             /\ \E l \in p.ls : k.name = l.name /\ k.peer = l.peer
                                                /\ (k = sna_cs_stop_ls_gen(l) \/ q = p)
      BY <2>1, PortStopped
    <2>3. ports' = (ports \ {p}) \cup {q} /\ UNCHANGED <<nof, cs, uncreated>>
      BY <1>2 DEF PortBecomes
    <2> HIDE DEF q
    <2>4. LinksApart(q, q)
      <3> SUFFICES ASSUME NEW l \in q.ls, NEW k \in q.ls, l.peer = k.peer \/ l.name = k.name
                   PROVE  l = k
        BY DEF LinksApart
      <3>1. PICK m \in p.ls : l.name = m.name /\ l.peer = m.peer /\ (l = sna_cs_stop_ls_gen(m) \/ q = p)
        BY <2>2
      <3>2. PICK n \in p.ls : k.name = n.name /\ k.peer = n.peer /\ (k = sna_cs_stop_ls_gen(n) \/ q = p)
        BY <2>2
      <3>3. m = n
        BY <3>1, <3>2 DEF TInv, AddressesUnique
      <3>4. CASE q = p
        BY <3>4 DEF TInv, AddressesUnique
      <3> QED
        BY <3>1, <3>2, <3>3, <3>4
    <2>5. \A o \in ports \ {p} : \A l \in q.ls, k \in o.ls : l.peer # k.peer /\ l.name # k.name
      BY <2>2 DEF TInv, AddressesUnique
    <2> QED
      BY <2>2, <2>3, <2>4, <2>5, PortReplaced
  <1> QED
    BY <1>1, <1>2 DEF sna_cs_stop_port, PortByName

LEMMA DeletePort ==
    ASSUME TInv, NEW r, NEW err, sna_cs_delete_port(r, err)
    PROVE  TInv'
  <1>1. CASE \E e : Refuses(err, e)
    BY <1>1, Refused
  <1>2. ASSUME NEW p \in ports, ports' = ports \ {p}, UNCHANGED <<nof, cs, uncreated>>
        PROVE  TInv'
    <2>1. NodeTypes' /\ NodesAgree'
      BY <1>2 DEF TInv, NodeTypes, NodesAgree, sna_nof_get_by_netid
    <2>2. \A o \in ports' : /\ cs'[NamePart[o.node]] = cs[NamePart[o.node]]
                            /\ sna_nof_get_by_netid(o.node)' # {}
      BY <1>2 DEF TInv, NoLeftovers, sna_nof_get_by_netid
    <2> QED
      BY <1>2, <2>1, <2>2, PortsRemoved
  <1> QED
    BY <1>1, <1>2 DEF sna_cs_delete_port, PortByName

\* A link is added whose name and peer no other link has.
LEMMA DefineLs ==
    ASSUME TInv, NEW r \in Asked, r.retry \in BOOLEAN, NEW err, sna_cs_define_ls(r, err)
    PROVE  TInv'
  <1>1. CASE \E e : Refuses(err, e)
    BY <1>1, Refused
  <1>2. ASSUME NEW p \in ports, LinkByPeer(r.peer) = {}, LinkByName(r.name) = {},
               PortBecomes(p, [p EXCEPT !.ls = @ \cup {NewLink(r)}])
        PROVE  TInv'
    <2> DEFINE n == NewLink(r)
               q == [p EXCEPT !.ls = @ \cup {n}]
    <2>1. /\ n \in LinkRec /\ n.name = r.name /\ n.peer = r.peer /\ ~n.running /\ TimerFits(n)
      BY DEF NewLink, LinkRec, TimerFits
    <2>2. ports' = (ports \ {p}) \cup {q} /\ UNCHANGED <<nof, cs, uncreated>>
      BY <1>2 DEF PortBecomes
    <2> HIDE DEF n
    <2>3. p \in PortRec
      BY DEF TInv
    <2>4. /\ q \in PortRec /\ q.name = p.name /\ q.node = p.node /\ q.saddr = p.saddr
          /\ q.running = p.running /\ q.ls = p.ls \cup {n}
      BY <2>1, <2>3 DEF PortRec
    <2> HIDE DEF q
    <2>5. \A o \in ports : \A k \in o.ls : k.peer # n.peer /\ k.name # n.name
      BY <1>2, <2>1 DEF LinkByPeer, LinkByName, Links
    <2>6. LinksApart(q, q)
      BY <2>4, <2>5 DEF LinksApart, TInv, AddressesUnique
    <2>7. \A o \in ports \ {p} : \A l \in q.ls, k \in o.ls : l.peer # k.peer /\ l.name # k.name
      BY <2>4, <2>5 DEF TInv, AddressesUnique
    <2>8. \A l \in q.ls : TimerFits(l) /\ (l.running => q.running)
      BY <2>1, <2>4 DEF TInv, UpStandsOnUp
    <2>9. q.running => cs[NamePart[q.node]] = "running"
      BY <2>4 DEF TInv, UpStandsOnUp
    <2> QED
      BY <2>2, <2>4, <2>6, <2>7, <2>8, <2>9, PortReplaced
  <1> QED
    BY <1>1, <1>2 DEF sna_cs_define_ls, PortByAddr

LEMMA StartLs ==
    ASSUME TInv, NEW r, NEW err, sna_cs_start_ls(r, err)
    PROVE  TInv'
  <1>1. CASE \E e : Refuses(err, e)
    BY <1>1, Refused
  <1>2. ASSUME NEW p \in ports, NEW l \in p.ls, p.running,
               LinkBecomes(p, l, sna_cs_connect_out([l EXCEPT !.running = TRUE]))
        PROVE  TInv'
    <2> DEFINE k == sna_cs_connect_out([l EXCEPT !.running = TRUE])
    <2>1. l \in LinkRec
      BY DEF TInv, PortRec
    <2>2. k \in LinkRec /\ k.name = l.name /\ k.peer = l.peer /\ k.running
      BY <2>1 DEF LinkRec, sna_cs_connect_out
    <2>3. LinkBecomes(p, l, k)
      BY <1>2
    <2> HIDE DEF k
    <2> QED
      BY <1>2, <2>2, <2>3, LinkReplaced DEF TimerFits
  <1> QED
    BY <1>1, <1>2 DEF sna_cs_start_ls

LEMMA StopLs ==
    ASSUME TInv, NEW r, NEW err, sna_cs_stop_ls(r, err)
    PROVE  TInv'
  <1>1. CASE \E e : Refuses(err, e)
    BY <1>1, Refused
  <1>2. ASSUME NEW p \in ports, NEW l \in p.ls, LinkBecomes(p, l, sna_cs_stop_ls_gen(l))
        PROVE  TInv'
    <2>1. l \in LinkRec /\ TimerFits(l)
      BY DEF TInv, PortRec
    <2> QED
      BY <1>2, <2>1, LinkStopped, LinkReplaced
  <1> QED
    BY <1>1, <1>2 DEF sna_cs_stop_ls

LEMMA DeleteLs ==
    ASSUME TInv, NEW r, NEW err, sna_cs_delete_ls(r, err)
    PROVE  TInv'
  <1>1. CASE \E e : Refuses(err, e)
    BY <1>1, Refused
  <1>2. ASSUME NEW p \in ports, NEW l \in p.ls, UNCHANGED <<nof, cs, uncreated>>,
               ports' = (ports \ {p}) \cup {[p EXCEPT !.ls = @ \ {l}]}
        PROVE  TInv'
    <2> DEFINE q == [p EXCEPT !.ls = @ \ {l}]
    <2>1. p \in PortRec
      BY DEF TInv
    <2>2. /\ q \in PortRec /\ q.name = p.name /\ q.node = p.node /\ q.saddr = p.saddr
          /\ q.running = p.running /\ q.ls = p.ls \ {l}
      BY <2>1 DEF PortRec
    <2>3. ports' = (ports \ {p}) \cup {q}
      BY <1>2
    <2> HIDE DEF q
    <2>4. LinksApart(q, q)
      BY <2>2 DEF LinksApart, TInv, AddressesUnique
    <2>5. \A o \in ports \ {p} : \A m \in q.ls, k \in o.ls : m.peer # k.peer /\ m.name # k.name
      BY <2>2 DEF TInv, AddressesUnique
    <2>6. \A m \in q.ls : TimerFits(m) /\ (m.running => q.running)
      BY <2>2 DEF TInv, UpStandsOnUp
    <2>7. q.running => cs[NamePart[q.node]] = "running"
      BY <2>2 DEF TInv, UpStandsOnUp
    <2> QED
      BY <1>2, <2>2, <2>3, <2>4, <2>5, <2>6, <2>7, PortReplaced
  <1> QED
    BY <1>1, <1>2 DEF sna_cs_delete_ls

\* What happens to links between calls.
LEMMA LinkEvents ==
    ASSUME TInv, LinkEvent
    PROVE  TInv'
  <1>0. PICK p \in ports :
          \E l \in p.ls : \/ Activates(p, l) \/ GivesUp(p, l) \/ Drops(p, l)
                          \/ Hears(p, l) \/ Disconnected(p, l) \/ TimesOut(p, l)
    BY DEF LinkEvent
  <1>1. PICK l \in p.ls : \/ Activates(p, l) \/ GivesUp(p, l) \/ Drops(p, l)
                          \/ Hears(p, l) \/ Disconnected(p, l) \/ TimesOut(p, l)
    BY <1>0
  <1>2. l \in LinkRec /\ TimerFits(l) /\ (l.running => p.running)
    BY DEF TInv, PortRec, UpStandsOnUp
  <1>3. ASSUME NEW k, k \in LinkRec, k.name = l.name, k.peer = l.peer, k.running = l.running, TimerFits(k),
               LinkBecomes(p, l, k)
        PROVE  TInv'
    BY <1>2, <1>3, LinkReplaced
  <1>4. CASE Activates(p, l)
    <2>0. PICK t \in BOOLEAN :
            LinkBecomes(p, l, [l EXCEPT !.state = "active", !.timer = FALSE, !.tested = t])
      BY <1>4 DEF Activates
    <2> DEFINE k == [l EXCEPT !.state = "active", !.timer = FALSE, !.tested = t]
    <2>1. /\ k \in LinkRec /\ k.name = l.name /\ k.peer = l.peer /\ k.running = l.running /\ TimerFits(k)
          /\ LinkBecomes(p, l, k)
      BY <1>2, <2>0 DEF LinkRec, TimerFits
    <2> HIDE DEF k
    <2> QED
      BY <1>3, <2>1
  <1>5. CASE GivesUp(p, l)
    <2> DEFINE k == [l EXCEPT !.timer = FALSE]
    <2>1. /\ k \in LinkRec /\ k.name = l.name /\ k.peer = l.peer /\ k.running = l.running /\ TimerFits(k)
          /\ LinkBecomes(p, l, k)
      BY <1>2, <1>5 DEF LinkRec, TimerFits, GivesUp
    <2> HIDE DEF k
    <2> QED
      BY <1>3, <2>1
  <1>6. CASE Drops(p, l)
    <2> DEFINE k == sna_cs_connect_out(l)
    <2>1. /\ k \in LinkRec /\ k.name = l.name /\ k.peer = l.peer /\ k.running = l.running /\ TimerFits(k)
          /\ LinkBecomes(p, l, k)
      BY <1>2, <1>6 DEF LinkRec, TimerFits, Drops, sna_cs_connect_out
    <2> HIDE DEF k
    <2> QED
      BY <1>3, <2>1
  <1>7. ASSUME LinkBecomes(p, l, xid_input_reset(l)) PROVE TInv'
    <2> DEFINE k == xid_input_reset(l)
    <2>1. /\ k \in LinkRec /\ k.name = l.name /\ k.peer = l.peer /\ k.running = l.running /\ TimerFits(k)
          /\ LinkBecomes(p, l, k)
      BY <1>2, <1>7 DEF LinkRec, TimerFits, xid_input_reset
    <2> HIDE DEF k
    <2> QED
      BY <1>3, <2>1
  <1>8. CASE Hears(p, l)
    <2>0. PICK t \in {l.tested, TRUE} :
            LinkBecomes(p, l, [l EXCEPT !.timer = FALSE, !.tested = t, !.heard = ~l.running])
      BY <1>8 DEF Hears
    <2> DEFINE k == [l EXCEPT !.timer = FALSE, !.tested = t, !.heard = ~l.running]
    <2>1. /\ k \in LinkRec /\ k.name = l.name /\ k.peer = l.peer /\ k.running = l.running /\ TimerFits(k)
          /\ LinkBecomes(p, l, k)
      BY <1>2, <2>0 DEF LinkRec, TimerFits
    <2> HIDE DEF k
    <2> QED
      BY <1>3, <2>1
  <1>9. CASE TimesOut(p, l)
    <2>1. CASE l.tested
      BY <1>7, <1>9, <2>1 DEF TimesOut
    <2>2. CASE ~l.tested
      <3> DEFINE k == [l EXCEPT !.timer = FALSE]
      <3>1. /\ k \in LinkRec /\ k.name = l.name /\ k.peer = l.peer /\ k.running = l.running /\ TimerFits(k)
            /\ LinkBecomes(p, l, k)
        BY <1>2, <1>9, <2>2 DEF LinkRec, TimerFits, TimesOut
      <3> HIDE DEF k
      <3> QED
        BY <1>3, <3>1
    <2> QED
      BY <2>1, <2>2
  <1> QED
    BY <1>1, <1>4, <1>5, <1>6, <1>7, <1>8, <1>9 DEF Disconnected

\* Any request that a file or a command line leads to.
LEMMA CallKeeps ==
    ASSUME TInv, NEW r \in Asked, NEW err, sna_nof(r, err)
    PROVE  TInv'
  <1>1. Legal(r)
    BY AskedLegal
  <1>2. CASE r.op = <<"define", "node">> /\ sna_nof_node_define(r, err)
    BY <1>1, <1>2, NodeDefine DEF Legal
  <1>3. CASE r.op = <<"define", "dlc">> /\ sna_cs_define_port(r, err)
    BY <1>1, <1>3, DefinePort DEF Legal
  <1>4. CASE r.op = <<"define", "link">> /\ sna_cs_define_ls(r, err)
    BY <1>1, <1>4, DefineLs DEF Legal
  <1>5. CASE \/ sna_nof_node_start(r, err) \/ sna_nof_node_stop(r, err) \/ sna_nof_node_delete(r, err)
             \/ sna_cs_start_port(r, err) \/ sna_cs_stop_port(r, err) \/ sna_cs_delete_port(r, err)
             \/ sna_cs_start_ls(r, err) \/ sna_cs_stop_ls(r, err) \/ sna_cs_delete_ls(r, err)
    BY <1>5, NodeStart, NodeStop, NodeDelete, StartPort, StopPort, DeletePort, StartLs, StopLs, DeleteLs
  <1>6. CASE \/ sna_cosm_define_cos(r, err) \/ sna_rm_define_mode(r, err) \/ sna_rm_define_local_lu(r, err)
             \/ sna_rm_define_remote_lu(r, err) \/ sna_rm_start_remote_lu(r, err)
             \/ sna_cpic_register_side_info(r, err)
    <2>1. UNCHANGED <<nof, cs, ports, uncreated>>
      BY <1>6 DEF sna_cosm_define_cos, sna_rm_define_mode, sna_rm_define_local_lu, sna_rm_define_remote_lu,
         sna_rm_start_remote_lu, sna_cpic_register_side_info, Refuses, nofVars
    <2> QED
      BY <2>1, TablesKept
  <1> QED
    BY <1>2, <1>3, <1>4, <1>5, <1>6 DEF sna_nof

-----------------------------------------------------------------------------
(***************************************************************************)
(* The programs.                                                           *)
(***************************************************************************)
Results == Errors \cup {"none", "running", "EPERM", "EINTR"}

\* A copy is running exactly while it has requests left.
PInv ==
    /\ todo \in [Procs -> Seq(Asked)]
    /\ result \in [Procs -> Results]
    /\ room \in [Procs -> Nat]
    /\ given \in [Procs -> Nat]
    /\ \A p \in Procs : result[p] = "running" <=> todo[p] # <<>>

\* What GoesOn and Answered keep of the requests and the results.
RequestsTyped ==
    /\ todo \in [Procs -> Seq(Asked)]
    /\ result \in [Procs -> Results]
    /\ \A q \in Procs : result[q] = "running" <=> todo[q] # <<>>

LEMMA GoesOnKeeps ==
    ASSUME PInv, NEW p \in Procs, NEW rest \in Seq(Asked), GoesOn(p, rest)
    PROVE  RequestsTyped'
  <1> DEFINE out == Outcome(rest)
  <1>1. todo' = [todo EXCEPT ![p] = rest] /\ result' = [result EXCEPT ![p] = out]
    BY DEF GoesOn
  <1>2. out \in Results /\ (out = "running" <=> rest # <<>>)
    BY DEF Outcome, Results, Errors
  <1> HIDE DEF out
  <1> QED
    BY <1>1, <1>2 DEF PInv, RequestsTyped

LEMMA AnsweredKeeps ==
    ASSUME PInv, NEW p \in Procs, result[p] = "running",
           NEW err \in Results \ {"running"}, Answered(p, err)
    PROVE  RequestsTyped'
  <1>1. todo[p] \in Seq(Asked) /\ todo[p] # <<>>
    BY DEF PInv
  <1>2. Tail(todo[p]) \in Seq(Asked)
    BY <1>1
  <1>3. CASE err = "ok"
    BY <1>2, <1>3, GoesOnKeeps DEF Answered
  <1>4. CASE err # "ok"
    <2>1. todo' = [todo EXCEPT ![p] = <<>>] /\ result' = [result EXCEPT ![p] = err]
      BY <1>4 DEF Answered
    <2>2. <<>> \in Seq(Asked)
      OBVIOUS
    <2> QED
      BY <2>1, <2>2 DEF PInv, RequestsTyped
  <1> QED
    BY <1>3, <1>4

LEMMA ProgramStart == Init => PInv
  BY RoomAssumption DEF Init, PInv, Results

LEMMA ProgramBegins ==
    ASSUME PInv, TInv, NEW p \in Procs, Begins(p)
    PROVE  PInv'
  <1>1. PICK c \in Commands[p] :
          /\ todo' = [todo EXCEPT ![p] = Requests(c)]
          /\ result' = [result EXCEPT ![p] = Outcome(Requests(c))]
    BY DEF Begins
  <1> DEFINE rs == Requests(c)
             out == Outcome(Requests(c))
  <1>2. rs \in Seq(Asked)
    BY RequestsAsked DEF TInv, NodeTypes
  <1>3. out \in Results /\ (out = "running" <=> rs # <<>>)
    BY DEF Outcome, Results, Errors
  <1>4. todo' = [todo EXCEPT ![p] = rs] /\ result' = [result EXCEPT ![p] = out]
    BY <1>1
  <1>5. room' \in [Procs -> Nat] /\ given' \in [Procs -> Nat]
    BY RoomAssumption DEF Begins, PInv
  <1> HIDE DEF rs, out
  <1> QED
    BY <1>2, <1>3, <1>4, <1>5 DEF PInv

\* The tables that are passed over leave requests of the file.
LEMMA RestAsked ==
    ASSUME NEW s \in Seq(Asked)
    PROVE  SubSeq(s, Len(Tables), Len(s)) \in Seq(Asked)
  <1>1. Len(Tables) = 9 /\ Len(s) \in Nat /\ \A i \in 9..Len(s) : s[i] \in Asked
    BY DEF Tables
  <1> HIDE DEF Asked
  <1> QED
    BY <1>1, SubSeqProperties

LEMMA ReturnsKeeps ==
    ASSUME PInv, NEW p \in Procs, result[p] = "running", NEW records, Returns(p, records)
    PROVE  RequestsTyped' /\ room' = [room EXCEPT ![p] = FirstRoom]
  <1>1. \/ \E err \in {"ok", "ENOENT"} : Answered(p, err)
        \/ GoesOn(p, SubSeq(todo[p], Len(Tables), Len(todo[p])))
    BY DEF Returns
  <1>2. room' = [room EXCEPT ![p] = FirstRoom]
    BY DEF Returns
  <1>3. ASSUME NEW err \in {"ok", "ENOENT"}, Answered(p, err) PROVE RequestsTyped'
    <2>1. err \in Results \ {"running"}
      BY DEF Results, Errors
    <2> QED
      BY <1>3, <2>1, AnsweredKeeps
  <1>4. CASE GoesOn(p, SubSeq(todo[p], Len(Tables), Len(todo[p])))
    <2>1. todo[p] \in Seq(Asked)
      BY DEF PInv
    <2> QED
      BY <1>2, <1>4, <2>1, RestAsked, GoesOnKeeps
  <1> QED
    BY <1>1, <1>2, <1>3, <1>4

LEMMA ProgramQueries ==
    ASSUME PInv, NEW p \in Procs, Queries(p)
    PROVE  PInv'
  <1>0. result[p] = "running" /\ given' = given /\ room \in [Procs -> Nat]
    BY DEF Queries, PInv
  <1>1. CASE room' = [room EXCEPT ![p] = @ + MoreRoom] /\ UNCHANGED <<todo, shown, lost, result>>
    <2>1. room' \in [Procs -> Nat]
      BY <1>0, <1>1, RoomAssumption
    <2> QED
      BY <1>0, <1>1, <2>1 DEF PInv
  <1>2. ASSUME NEW records, Returns(p, records) PROVE PInv'
    <2>1. RequestsTyped' /\ room' = [room EXCEPT ![p] = FirstRoom]
      BY <1>0, <1>2, ReturnsKeeps
    <2>2. room' \in [Procs -> Nat]
      BY <1>0, <2>1, RoomAssumption
    <2> QED
      BY <1>0, <2>1, <2>2 DEF PInv, RequestsTyped
  <1> QED
    BY <1>1, <1>2, Zenon DEF Queries

\* One step of the whole system.
LEMMA InvStep ==
    ASSUME TInv, PInv, [Next]_vars
    PROVE  TInv' /\ PInv'
  <1>1. CASE UNCHANGED vars
    <2>1. TInv'
      BY <1>1, TablesKept DEF vars, nofVars
    <2> QED
      BY <1>1, <2>1 DEF vars, progVars, PInv
  <1>2. CASE LinkEvent /\ UNCHANGED progVars
    BY <1>2, LinkEvents DEF progVars, PInv
  <1>3. ASSUME NEW p \in Procs, Begins(p) PROVE TInv' /\ PInv'
    BY <1>3, ProgramBegins, TablesKept DEF Begins, nofVars
  <1>4. ASSUME NEW p \in Procs, Issues(p) PROVE TInv' /\ PInv'
    <2>1. PICK err \in Errors : sna_nof(Head(todo[p]), err) /\ Answered(p, err)
      BY <1>4 DEF Issues
    <2>2. Head(todo[p]) \in Asked
      BY <1>4 DEF Issues, PInv
    <2>3. TInv'
      BY <2>1, <2>2, CallKeeps
    <2>4. err \in Results \ {"running"} /\ result[p] = "running" /\ room' = room /\ given' = given
      BY <1>4 DEF Results, Errors, Issues
    <2> QED
      BY <2>1, <2>3, <2>4, AnsweredKeeps DEF PInv, RequestsTyped
  <1>5. ASSUME NEW p \in Procs, Queries(p) PROVE TInv' /\ PInv'
    BY <1>5, ProgramQueries, TablesKept DEF Queries, nofVars
  <1>6. ASSUME NEW p \in Procs, Unreached(p) \/ Interrupted(p) PROVE TInv' /\ PInv'
    <2>1. TInv'
      BY <1>6, TablesKept DEF Unreached, Interrupted, nofVars
    <2>2. PICK err \in {"EPERM", "EINTR"} : Answered(p, err)
      BY <1>6 DEF Unreached, Interrupted
    <2>3. err \in Results \ {"running"} /\ result[p] = "running" /\ room' = room /\ given' = given
      BY <1>6 DEF Results, Errors, Unreached, Interrupted
    <2> QED
      BY <2>1, <2>2, <2>3, AnsweredKeeps DEF PInv, RequestsTyped
  <1> QED
    BY <1>1, <1>2, <1>3, <1>4, <1>5, <1>6 DEF Next, Steps

LEMMA TablesStart == Init => TInv
  <1> SUFFICES ASSUME Init PROVE TInv
    OBVIOUS
  <1>1. IsFiniteSet({})
    BY FS_EmptySet
  <1> QED
    BY <1>1, NameParts DEF Init, NofInit, TInv, NodeTypes, NodesAgree, UpStandsOnUp, NoLeftovers, AddressesUnique,
       PortsServed, sna_nof_get_by_netid

LEMMA InvAlways == Spec => [](TInv /\ PInv)
  <1>1. Init => TInv /\ PInv
    BY TablesStart, ProgramStart
  <1>2. TInv /\ PInv /\ [Next]_vars => (TInv /\ PInv)'
    BY InvStep
  <1> QED
    BY <1>1, <1>2, PTL DEF Spec

\* TablesSound: whatever several copies of snaconfig ask for, in whatever
\* order, and whatever happens to the links meanwhile, the two lists of nodes
\* of the kernel agree, ports and links are up only on what is up, a deleted
\* node leaves no port behind, and names and addresses stay unique.
THEOREM TablesStaySound == Spec => []TablesSound
  <1>1. TInv /\ PInv => TablesSound
    <2> SUFFICES ASSUME TInv, PInv PROVE TablesSound
      OBVIOUS
    <2>1. \A p \in ports :
            /\ p.node \in Nodes /\ p.running \in BOOLEAN
            /\ \A l \in p.ls :
                /\ l.running \in BOOLEAN /\ l.timer \in BOOLEAN
                /\ l.tested \in BOOLEAN /\ l.heard \in BOOLEAN
                /\ l.state \in {"defined", "activated", "active"}
      BY DEF TInv, PortRec, LinkRec
    <2>2. TypeOK
      BY <2>1 DEF TInv, PInv, NodeTypes, TypeOK, Results
    <2> QED
      BY <2>2 DEF TInv, TablesSound
  <1> QED
    BY <1>1, InvAlways, PTL

-----------------------------------------------------------------------------
(***************************************************************************)
(* Deleting.                                                               *)
(***************************************************************************)
\* Of links that are stopped and freed only active ones leave a timer.
LEMMA PendingActive ==
    ASSUME TInv, NEW p \in ports, NEW ls \in SUBSET p.ls, NEW name \in Pending(ls)
    PROVE  \E l \in LinkByName(name) : l.state = "active"
  <1>1. PICK l \in ls : sna_cs_stop_ls_gen(l).timer /\ name = l.name
    BY DEF Pending
  <1>2. l \in LinkRec /\ TimerFits(l) /\ l \in Links
    BY DEF TInv, PortRec, Links
  <1>3. l.state = "active"
    BY <1>1, <1>2, LinkStopped
  <1> QED
    BY <1>1, <1>2, <1>3 DEF LinkByName

LEMMA CallStrays ==
    ASSUME TInv, NEW r, NEW err, sna_nof(r, err), NEW name \in stray' \ stray
    PROVE  \E l \in LinkByName(name) : l.state = "active"
  <1>0. stray' # stray
    OBVIOUS
  <1>1. CASE sna_nof_node_delete(r, err)
    <2>1. stray' = stray \cup UNION {Pending(p.ls) : p \in ports \ ports'}
      BY <1>0, <1>1 DEF sna_nof_node_delete, sna_cs_destroy, Refuses, nofVars
    <2>2. PICK p \in ports : name \in Pending(p.ls)
      BY <2>1
    <2> QED
      BY <2>2, PendingActive
  <1>2. CASE sna_cs_delete_port(r, err)
    <2>1. PICK p \in ports : stray' = stray \cup Pending(p.ls)
      BY <1>0, <1>2 DEF sna_cs_delete_port, PortByName, Refuses, nofVars
    <2>2. name \in Pending(p.ls)
      BY <2>1
    <2> QED
      BY <2>2, PendingActive
  <1>3. CASE sna_cs_delete_ls(r, err)
    <2>1. PICK p \in ports : \E l \in p.ls : stray' = stray \cup Pending({l})
      BY <1>0, <1>3 DEF sna_cs_delete_ls, Refuses, nofVars
    <2>2. PICK l \in p.ls : stray' = stray \cup Pending({l})
      BY <2>1
    <2>3. name \in Pending({l}) /\ {l} \in SUBSET p.ls
      BY <2>2
    <2> QED
      BY <2>3, PendingActive
  <1>4. CASE \/ sna_nof_node_define(r, err) \/ sna_nof_node_start(r, err) \/ sna_nof_node_stop(r, err)
             \/ sna_cs_define_port(r, err) \/ sna_cs_start_port(r, err) \/ sna_cs_stop_port(r, err)
             \/ sna_cs_define_ls(r, err) \/ sna_cs_start_ls(r, err) \/ sna_cs_stop_ls(r, err)
             \/ sna_cosm_define_cos(r, err) \/ sna_rm_define_mode(r, err) \/ sna_rm_define_local_lu(r, err)
             \/ sna_rm_define_remote_lu(r, err) \/ sna_rm_start_remote_lu(r, err)
             \/ sna_cpic_register_side_info(r, err)
    <2>1. stray' = stray
      BY <1>4, Zenon DEF sna_nof_node_define, sna_nof_node_start, sna_nof_node_stop,
         sna_cs_define_port, sna_cs_start_port, sna_cs_stop_port, sna_cs_define_ls, sna_cs_start_ls, sna_cs_stop_ls,
         sna_cosm_define_cos, sna_rm_define_mode, sna_rm_define_local_lu, sna_rm_define_remote_lu,
         sna_rm_start_remote_lu, sna_cpic_register_side_info, Refuses, nofVars, PortBecomes, LinkBecomes
    <2> QED
      BY <1>0, <2>1
  <1> QED
    BY <1>1, <1>2, <1>3, <1>4 DEF sna_nof

\* IdleDeletedClean: whichever of the calls that delete links is made, and
\* whatever the other copies do, only a link that is active when it is freed
\* leaves a retry timer behind.
THEOREM IdleDeletesClean == Spec => IdleDeletedClean
  <1>1. ASSUME TInv, PInv, [Next]_vars, NEW name \in stray' \ stray
        PROVE  \E l \in LinkByName(name) : l.state = "active"
    <2>0. stray' # stray
      OBVIOUS
    <2>1. CASE \E p \in Procs : Issues(p)
      <3>1. PICK p \in Procs : Issues(p)
        BY <2>1
      <3>2. PICK err \in Errors : sna_nof(Head(todo[p]), err)
        BY <3>1 DEF Issues
      <3> QED
        BY <1>1, <3>2, CallStrays
    <2>2. CASE \E p \in Procs : Begins(p) \/ Queries(p) \/ Unreached(p) \/ Interrupted(p)
      BY <2>0, <2>2 DEF Begins, Queries, Unreached, Interrupted, nofVars
    <2>3. CASE LinkEvent
      BY <2>0, <2>3 DEF LinkEvent, Activates, GivesUp, Drops, Hears, Disconnected, TimesOut,
         LinkBecomes, PortBecomes
    <2>4. CASE UNCHANGED vars
      BY <2>0, <2>4 DEF vars, nofVars
    <2> QED
      BY <1>1, <2>1, <2>2, <2>3, <2>4 DEF Next, Steps
  <1>2. TInv /\ PInv /\ [Next]_vars
          => [\A name \in stray' \ stray : \E l \in LinkByName(name) : l.state = "active"]_vars
    BY <1>1
  <1> QED
    BY <1>2, InvAlways, PTL DEF Spec, IdleDeletedClean

-----------------------------------------------------------------------------
(***************************************************************************)
(* The tables are finite, so that a query that was not full returned all.  *)
(***************************************************************************)
TablesFinite ==
    /\ IsFiniteSet(ports) /\ \A p \in ports : IsFiniteSet(p.ls)
    /\ IsFiniteSet(cos) /\ IsFiniteSet(modes) /\ IsFiniteSet(localLus)
    /\ IsFiniteSet(remoteLus) /\ IsFiniteSet(sides)

LEMMA ImageFinite ==
    ASSUME NEW S, IsFiniteSet(S), NEW f, DOMAIN f = S, NEW T, T = {f[x] : x \in S}, f \in [S -> T]
    PROVE  IsFiniteSet(T)
  <1>1. f \in Surjection(S, T)
    BY DEF Surjection
  <1> QED
    BY <1>1, FS_Surjection

LEMMA OneMore ==
    ASSUME NEW S, IsFiniteSet(S), NEW x
    PROVE  IsFiniteSet(S \cup {x})
  BY FS_AddElement

LEMMA Fewer ==
    ASSUME NEW S, IsFiniteSet(S), NEW T, T \subseteq S
    PROVE  IsFiniteSet(T)
  BY FS_Subset

\* A port is replaced by one with finitely many links.
LEMMA PortFinite ==
    ASSUME TablesFinite, NEW p \in ports, NEW q, IsFiniteSet(q.ls), PortBecomes(p, q)
    PROVE  TablesFinite'
  <1>1. IsFiniteSet(ports \ {p})
    BY Fewer DEF TablesFinite
  <1>2. IsFiniteSet((ports \ {p}) \cup {q})
    BY <1>1, OneMore
  <1> QED
    BY <1>2 DEF TablesFinite, PortBecomes

LEMMA StoppedFinite ==
    ASSUME NEW p, IsFiniteSet(p.ls), p \in PortRec
    PROVE  IsFiniteSet(sna_cs_stop_port_gen(p).ls)
  <1> DEFINE f == [l \in p.ls |-> sna_cs_stop_ls_gen(l)]
             T == {f[l] : l \in p.ls}
  <1>1. f \in [p.ls -> T] /\ DOMAIN f = p.ls
    OBVIOUS
  <1>2. T = {sna_cs_stop_ls_gen(l) : l \in p.ls}
    OBVIOUS
  <1>3. sna_cs_stop_port_gen(p).ls = p.ls \/ sna_cs_stop_port_gen(p).ls = T
    BY <1>2 DEF sna_cs_stop_port_gen, PortRec
  <1>4. T = {f[l] : l \in p.ls}
    OBVIOUS
  <1> HIDE DEF f, T
  <1>5. IsFiniteSet(T)
    BY <1>1, <1>4, ImageFinite
  <1> QED
    BY <1>3, <1>5

LEMMA LinkFinite ==
    ASSUME TInv, TablesFinite, NEW p \in ports, NEW l, NEW k, LinkBecomes(p, l, k)
    PROVE  TablesFinite'
  <1> DEFINE S == p.ls \ {l}
             q == [p EXCEPT !.ls = S \cup {k}]
  <1>1. p \in PortRec /\ IsFiniteSet(p.ls)
    BY DEF TInv, TablesFinite
  <1>2. IsFiniteSet(S)
    BY <1>1, Fewer
  <1>3. q.ls = S \cup {k} /\ PortBecomes(p, q)
    BY <1>1 DEF PortRec, LinkBecomes
  <1> HIDE DEF S, q
  <1> QED
    BY <1>2, <1>3, OneMore, PortFinite

LEMMA FiniteKept ==
    ASSUME TablesFinite, UNCHANGED nofVars
    PROVE  TablesFinite'
  BY DEF TablesFinite, nofVars

LEMMA CallFinite ==
    ASSUME TInv, TablesFinite, NEW r, NEW err, sna_nof(r, err)
    PROVE  TablesFinite'
  <1>0. CASE UNCHANGED nofVars
    BY <1>0, FiniteKept
  <1>1. CASE UNCHANGED <<ports, cos, modes, localLus, remoteLus, sides>>
    BY <1>1 DEF TablesFinite
  <1>2. CASE sna_nof_node_stop(r, err)
    <2>1. CASE UNCHANGED ports
      BY <1>2, <2>1 DEF TablesFinite, sna_nof_node_stop, Refuses, nofVars
    <2>2. CASE ports' = {IF p.node = r.node THEN sna_cs_stop_port_gen(p) ELSE p : p \in ports}
      <3> DEFINE f == [p \in ports |-> IF p.node = r.node THEN sna_cs_stop_port_gen(p) ELSE p]
                 T == {f[p] : p \in ports}
      <3>1. f \in [ports -> T] /\ DOMAIN f = ports /\ T = {f[p] : p \in ports}
        OBVIOUS
      <3>2. ports' = T
        BY <2>2
      <3>3. \A p \in ports : IsFiniteSet(f[p].ls)
        BY StoppedFinite DEF TInv, TablesFinite
      <3> HIDE DEF f, T
      <3>4. IsFiniteSet(T)
        BY <3>1, ImageFinite DEF TablesFinite
      <3>5. \A q \in T : IsFiniteSet(q.ls)
        BY <3>1, <3>3
      <3>6. UNCHANGED <<cos, modes, localLus, remoteLus, sides>>
        BY <1>2 DEF sna_nof_node_stop, Refuses, nofVars
      <3> QED
        BY <3>2, <3>4, <3>5, <3>6 DEF TablesFinite
    <2> QED
      BY <1>2, <2>1, <2>2, Zenon DEF sna_nof_node_stop, sna_cs_stop, Refuses, nofVars
  <1>3. CASE ports' \subseteq ports /\ UNCHANGED <<cos, modes, localLus, remoteLus, sides>>
    <2>1. IsFiniteSet(ports')
      BY <1>3, Fewer DEF TablesFinite
    <2> QED
      BY <1>3, <2>1 DEF TablesFinite
  <1>4. CASE sna_cs_define_port(r, err)
    <2> DEFINE q == [name |-> r.name, node |-> r.node, saddr |-> r.saddr,
                     dev |-> r.dev, running |-> FALSE, ls |-> {}]
    <2>1. CASE ports' = ports \cup {q}
      <3>1. IsFiniteSet(q.ls)
        BY FS_EmptySet
      <3> HIDE DEF q
      <3>2. IsFiniteSet(ports')
        BY <2>1, OneMore DEF TablesFinite
      <3>3. UNCHANGED <<cos, modes, localLus, remoteLus, sides>>
        BY <1>4 DEF sna_cs_define_port, Refuses, nofVars
      <3> QED
        BY <2>1, <3>1, <3>2, <3>3 DEF TablesFinite
    <2> QED
      BY <1>0, <1>4, <2>1 DEF sna_cs_define_port, Refuses
  <1>5. CASE sna_cs_start_port(r, err)
    <2>1. ASSUME NEW p \in ports, PortBecomes(p, [p EXCEPT !.running = TRUE]) PROVE TablesFinite'
      <3>1. [p EXCEPT !.running = TRUE].ls = p.ls /\ IsFiniteSet(p.ls)
        BY DEF TInv, PortRec, TablesFinite
      <3> QED
        BY <2>1, <3>1, PortFinite
    <2> QED
      BY <1>0, <1>5, <2>1 DEF sna_cs_start_port, PortByName, Refuses
  <1>6. CASE sna_cs_stop_port(r, err)
    <2>1. ASSUME NEW p \in ports, PortBecomes(p, sna_cs_stop_port_gen(p)) PROVE TablesFinite'
      <3>1. IsFiniteSet(sna_cs_stop_port_gen(p).ls)
        BY StoppedFinite DEF TInv, TablesFinite
      <3> QED
        BY <2>1, <3>1, PortFinite
    <2> QED
      BY <1>0, <1>6, <2>1 DEF sna_cs_stop_port, PortByName, Refuses
  <1>7. CASE sna_cs_define_ls(r, err)
    <2>1. ASSUME NEW p \in ports, PortBecomes(p, [p EXCEPT !.ls = @ \cup {NewLink(r)}]) PROVE TablesFinite'
      <3>1. [p EXCEPT !.ls = @ \cup {NewLink(r)}].ls = p.ls \cup {NewLink(r)} /\ IsFiniteSet(p.ls)
        BY DEF TInv, PortRec, TablesFinite
      <3>2. IsFiniteSet(p.ls \cup {NewLink(r)})
        BY <3>1, OneMore
      <3> QED
        BY <2>1, <3>1, <3>2, PortFinite
    <2> QED
      BY <1>0, <1>7, <2>1 DEF sna_cs_define_ls, PortByAddr, Refuses
  <1>8. CASE sna_cs_start_ls(r, err)
    BY <1>0, <1>8, LinkFinite DEF sna_cs_start_ls, Refuses
  <1>9. CASE sna_cs_stop_ls(r, err)
    BY <1>0, <1>9, LinkFinite DEF sna_cs_stop_ls, Refuses
  <1>10. CASE sna_cs_delete_ls(r, err)
    <2>1. ASSUME NEW p \in ports, NEW l \in p.ls,
                 ports' = (ports \ {p}) \cup {[p EXCEPT !.ls = @ \ {l}]},
                 UNCHANGED <<cos, modes, localLus, remoteLus, sides>>
          PROVE  TablesFinite'
      <3> DEFINE q == [p EXCEPT !.ls = @ \ {l}]
                 S == ports \ {p}
      <3>1. q.ls = p.ls \ {l}
        BY DEF TInv, PortRec
      <3>2. IsFiniteSet(q.ls)
        BY <3>1, Fewer DEF TablesFinite
      <3>3. IsFiniteSet(S)
        BY Fewer DEF TablesFinite
      <3>4. ports' = S \cup {q} /\ S \subseteq ports
        BY <2>1
      <3> HIDE DEF q, S
      <3>5. IsFiniteSet(S \cup {q})
        BY <3>3, OneMore
      <3> QED
        BY <2>1, <3>2, <3>4, <3>5 DEF TablesFinite
    <2> QED
      BY <1>0, <1>10, <2>1, Zenon DEF sna_cs_delete_ls, Refuses
  <1>11. CASE sna_cosm_define_cos(r, err)
    BY <1>0, <1>11, OneMore DEF sna_cosm_define_cos, Refuses, TablesFinite
  <1>12. CASE sna_rm_define_mode(r, err)
    <2> DEFINE x == [name |-> r.name, node |-> r.node]
    <2>1. UNCHANGED nofVars \/ (modes' = modes \cup {x} /\ UNCHANGED <<ports, cos, localLus, remoteLus, sides>>)
      BY <1>12 DEF sna_rm_define_mode, Refuses
    <2> HIDE DEF x
    <2>2. IsFiniteSet(modes \cup {x})
      BY OneMore DEF TablesFinite
    <2> QED
      BY <1>0, <2>1, <2>2 DEF TablesFinite
  <1>13. CASE sna_rm_define_local_lu(r, err)
    <2> DEFINE x == [lu_name |-> r.lu_name, name |-> r.name, node |-> r.node]
    <2>1. UNCHANGED nofVars \/ (localLus' = localLus \cup {x} /\ UNCHANGED <<ports, cos, modes, remoteLus, sides>>)
      BY <1>13 DEF sna_rm_define_local_lu, Refuses
    <2> HIDE DEF x
    <2>2. IsFiniteSet(localLus \cup {x})
      BY OneMore DEF TablesFinite
    <2> QED
      BY <1>0, <2>1, <2>2 DEF TablesFinite
  <1>14. CASE sna_rm_define_remote_lu(r, err)
    <2> DEFINE x == [plu |-> r.plu, name |-> r.name, node |-> r.node]
    <2>1. UNCHANGED nofVars \/ (remoteLus' = remoteLus \cup {x} /\ UNCHANGED <<ports, cos, modes, localLus, sides>>)
      BY <1>14 DEF sna_rm_define_remote_lu, Refuses
    <2> HIDE DEF x
    <2>2. IsFiniteSet(remoteLus \cup {x})
      BY OneMore DEF TablesFinite
    <2> QED
      BY <1>0, <2>1, <2>2 DEF TablesFinite
  <1>15. CASE sna_cpic_register_side_info(r, err)
    <2> DEFINE x == [index |-> Cardinality(sides) + 1, name |-> Padded[r.name], node |-> r.node]
    <2>1. UNCHANGED nofVars \/ (sides' = sides \cup {x} /\ UNCHANGED <<ports, cos, modes, localLus, remoteLus>>)
      BY <1>15 DEF sna_cpic_register_side_info, Refuses
    <2> HIDE DEF x
    <2>2. IsFiniteSet(sides \cup {x})
      BY OneMore DEF TablesFinite
    <2> QED
      BY <1>0, <2>1, <2>2 DEF TablesFinite
  <1>16. CASE sna_rm_start_remote_lu(r, err)
    BY <1>0, <1>16 DEF sna_rm_start_remote_lu, Refuses
  <1>17. CASE sna_nof_node_define(r, err) \/ sna_nof_node_start(r, err)
    BY <1>0, <1>1, <1>17 DEF sna_nof_node_define, sna_nof_node_start, Refuses
  <1>18. CASE sna_nof_node_delete(r, err) \/ sna_cs_delete_port(r, err)
    BY <1>0, <1>3, <1>18 DEF sna_nof_node_delete, sna_cs_destroy, sna_cs_delete_port, Refuses
  <1> QED
    BY <1>2, <1>4, <1>5, <1>6, <1>7, <1>8, <1>9, <1>10, <1>11, <1>12, <1>13, <1>14, <1>15, <1>16, <1>17, <1>18
    DEF sna_nof

-----------------------------------------------------------------------------
(***************************************************************************)
(* What a command reports.                                                 *)
(***************************************************************************)
\* What a request of a load leaves in the tables that nothing takes back.
Done(r) ==
    /\ r.op = <<"define", "mode">> => \E m \in modes : m.name = r.name /\ m.node = r.node
    /\ r.op = <<"define", "local">> => \E l \in localLus : l.name = r.name /\ l.node = r.node
    /\ r.op = <<"define", "remote">> => \E l \in remoteLus : l.name = r.name /\ l.node = r.node
    /\ r.op = <<"define", "cpic">> => \E s \in sides : s.name = Padded[r.name] /\ s.node = r.node

\* A load has issued its requests in order: those that it no longer has to
\* issue are done.
Loading(f, rest) ==
    /\ f \in DOMAIN Files
    /\ LET rs == sna_execute_config_info(f) IN
       \E k \in 0..Len(rs) :
            /\ rest = SubSeq(rs, k + 1, Len(rs))
            /\ \A i \in 1..k : Done(rs[i])

LoadsTrue(p) ==
    cmd[p].verb = "load" /\ result[p] \in {"running", "ok"} => Loading(cmd[p].name, todo[p])

LInv ==
    /\ TablesFinite
    /\ DOMAIN cmd = Procs /\ DOMAIN shown = Procs /\ DOMAIN lost = Procs
    /\ \A p \in Procs : LoadsTrue(p)

\* The tables of names only grow.
Grows ==
    /\ modes \subseteq modes' /\ localLus \subseteq localLus'
    /\ remoteLus \subseteq remoteLus' /\ sides \subseteq sides'

LEMMA DoneStays ==
    ASSUME Grows, NEW r, Done(r)
    PROVE  Done(r)'
  BY DEF Grows, Done

LEMMA LoadingStays ==
    ASSUME Grows, NEW f, NEW rest, Loading(f, rest), NEW new, new = rest
    PROVE  f \in DOMAIN Files /\ LET rs == sna_execute_config_info(f) IN
           \E k \in 0..Len(rs) :
                /\ new = SubSeq(rs, k + 1, Len(rs))
                /\ \A i \in 1..k : Done(rs[i])'
  <1> DEFINE rs == sna_execute_config_info(f)
  <1>1. PICK k \in 0..Len(rs) : rest = SubSeq(rs, k + 1, Len(rs)) /\ \A i \in 1..k : Done(rs[i])
    BY DEF Loading
  <1>2. f \in DOMAIN Files
    BY DEF Loading
  <1> HIDE DEF rs
  <1>3. \A i \in 1..k : Done(rs[i])'
    BY <1>1, DoneStays
  <1> QED
    BY <1>1, <1>2, <1>3 DEF rs

LEMMA OthersLoad ==
    ASSUME Grows, NEW p \in Procs, LoadsTrue(p),
           cmd'[p] = cmd[p], result'[p] = result[p], todo'[p] = todo[p]
    PROVE  LoadsTrue(p)'
  <1> SUFFICES ASSUME cmd[p].verb = "load", result[p] \in {"running", "ok"}
               PROVE  Loading(cmd[p].name, todo[p])'
    BY DEF LoadsTrue
  <1>1. Loading(cmd[p].name, todo[p])
    BY DEF LoadsTrue
  <1> QED
    BY <1>1, LoadingStays DEF Loading

\* Every call keeps what is defined, and one that is granted does its part.
LEMMA CallGrows ==
    ASSUME NEW r, NEW err, sna_nof(r, err)
    PROVE  Grows /\ (err = "ok" => Done(r)')
  <1>1. CASE r.op = <<"define", "mode">> /\ sna_rm_define_mode(r, err)
    <2> DEFINE x == [name |-> r.name, node |-> r.node]
    <2>1. UNCHANGED <<localLus, remoteLus, sides>>
      BY <1>1 DEF sna_rm_define_mode, Refuses, nofVars
    <2>2. (err # "ok" /\ modes' = modes) \/ modes' = modes \cup {x}
      BY <1>1 DEF sna_rm_define_mode, Refuses, nofVars
    <2>3. x.name = r.name /\ x.node = r.node
      OBVIOUS
    <2> HIDE DEF x
    <2> QED
      BY <1>1, <2>1, <2>2, <2>3 DEF Grows, Done
  <1>2. CASE r.op = <<"define", "local">> /\ sna_rm_define_local_lu(r, err)
    <2> DEFINE x == [lu_name |-> r.lu_name, name |-> r.name, node |-> r.node]
    <2>1. UNCHANGED <<modes, remoteLus, sides>>
      BY <1>2 DEF sna_rm_define_local_lu, Refuses, nofVars
    <2>2. (err # "ok" /\ localLus' = localLus) \/ localLus' = localLus \cup {x}
      BY <1>2 DEF sna_rm_define_local_lu, Refuses, nofVars
    <2>3. x.name = r.name /\ x.node = r.node
      OBVIOUS
    <2> HIDE DEF x
    <2> QED
      BY <1>2, <2>1, <2>2, <2>3 DEF Grows, Done
  <1>3. CASE r.op = <<"define", "remote">> /\ sna_rm_define_remote_lu(r, err)
    <2> DEFINE x == [plu |-> r.plu, name |-> r.name, node |-> r.node]
    <2>1. UNCHANGED <<modes, localLus, sides>>
      BY <1>3 DEF sna_rm_define_remote_lu, Refuses, nofVars
    <2>2. (err # "ok" /\ remoteLus' = remoteLus) \/ remoteLus' = remoteLus \cup {x}
      BY <1>3 DEF sna_rm_define_remote_lu, Refuses, nofVars
    <2>3. x.name = r.name /\ x.node = r.node
      OBVIOUS
    <2> HIDE DEF x
    <2> QED
      BY <1>3, <2>1, <2>2, <2>3 DEF Grows, Done
  <1>4. CASE r.op = <<"define", "cpic">> /\ sna_cpic_register_side_info(r, err)
    <2> DEFINE x == [index |-> Cardinality(sides) + 1, name |-> Padded[r.name], node |-> r.node]
    <2>1. UNCHANGED <<modes, localLus, remoteLus>>
      BY <1>4 DEF sna_cpic_register_side_info, Refuses, nofVars
    <2>2. (err # "ok" /\ sides' = sides) \/ sides' = sides \cup {x}
      BY <1>4 DEF sna_cpic_register_side_info, Refuses, nofVars
    <2>3. x.name = Padded[r.name] /\ x.node = r.node
      OBVIOUS
    <2> HIDE DEF x
    <2> QED
      BY <1>4, <2>1, <2>2, <2>3 DEF Grows, Done
  <1> DEFINE Named == {<<"define", "mode">>, <<"define", "local">>, <<"define", "remote">>, <<"define", "cpic">>}
  <1>5. CASE r.op \notin Named
    <2>1. UNCHANGED <<modes, localLus, remoteLus, sides>>
      BY <1>5, Zenon DEF sna_nof, sna_nof_node_define, sna_nof_node_start, sna_nof_node_stop, sna_nof_node_delete,
         sna_cs_define_port, sna_cs_start_port, sna_cs_stop_port, sna_cs_delete_port,
         sna_cs_define_ls, sna_cs_start_ls, sna_cs_stop_ls, sna_cs_delete_ls,
         sna_cosm_define_cos, sna_rm_start_remote_lu, Refuses, nofVars, PortBecomes, LinkBecomes
    <2> QED
      BY <1>5, <2>1 DEF Grows, Done
  <1>6. CASE r.op \in Named
    BY <1>1, <1>2, <1>3, <1>4, <1>6 DEF sna_nof
  <1> QED
    BY <1>5, <1>6

\* The next request of a load is granted.
LEMMA LoadAdvances ==
    ASSUME Grows, NEW f, NEW rest, Loading(f, rest), rest # <<>>, Done(Head(rest))',
           NEW new, new = Tail(rest)
    PROVE  f \in DOMAIN Files /\ LET rs == sna_execute_config_info(f) IN
           \E k \in 0..Len(rs) :
                /\ new = SubSeq(rs, k + 1, Len(rs))
                /\ \A i \in 1..k : Done(rs[i])'
  <1> DEFINE rs == sna_execute_config_info(f)
  <1>1. PICK k \in 0..Len(rs) : rest = SubSeq(rs, k + 1, Len(rs)) /\ \A i \in 1..k : Done(rs[i])
    BY DEF Loading
  <1>2. f \in DOMAIN Files
    BY DEF Loading
  <1>3. rs \in Seq(Asked)
    BY <1>2, LoadAsked
  <1> HIDE DEF rs
  <1>4. k < Len(rs)
    <2>1. Len(rs) \in Nat /\ k \in Nat
      BY <1>3
    <2>2. k = Len(rs) => SubSeq(rs, k + 1, Len(rs)) = <<>>
      BY <2>1, SubSeqEmpty
    <2> QED
      BY <1>1, <2>1, <2>2
  <1>5. Head(rest) = rs[k + 1] /\ Tail(rest) = SubSeq(rs, (k + 1) + 1, Len(rs))
    <2>1. k + 1 \in 1..Len(rs) /\ Len(rs) \in (k + 1)..Len(rs)
      BY <1>3, <1>4
    <2> QED
      BY <1>1, <1>3, <2>1, HeadTailOfSubSeq
  <1>6. \A i \in 1..(k + 1) : Done(rs[i])'
    <2> SUFFICES ASSUME NEW i \in 1..(k + 1) PROVE Done(rs[i])'
      OBVIOUS
    <2>1. CASE i = k + 1
      BY <1>5, <2>1
    <2>2. CASE i \in 1..k
      BY <1>1, <2>2, DoneStays
    <2> QED
      BY <1>3, <2>1, <2>2
  <1>7. k + 1 \in 0..Len(rs)
    BY <1>3, <1>4
  <1> QED
    BY <1>2, <1>5, <1>6, <1>7 DEF rs

\* An answer: the copy that gets it goes on, the others are where they were.
LEMMA AnswerLoads ==
    ASSUME Grows, PInv, \A q \in Procs : LoadsTrue(q), NEW p \in Procs, result[p] = "running", cmd' = cmd,
           NEW err \in Results \ {"running"}, Answered(p, err),
           NEW r, r = Head(todo[p]), err = "ok" => Done(r)'
    PROVE  \A q \in Procs : LoadsTrue(q)'
  <1> SUFFICES ASSUME NEW q \in Procs PROVE LoadsTrue(q)'
    OBVIOUS
  <1>1. CASE q # p
    <2>1. todo'[q] = todo[q] /\ result'[q] = result[q]
      BY <1>1 DEF Answered, GoesOn, PInv
    <2> QED
      BY <2>1, OthersLoad
  <1>2. CASE q = p /\ err # "ok"
    <2>1. result'[p] = err
      BY <1>2 DEF Answered, PInv
    <2> QED
      BY <1>2, <2>1 DEF LoadsTrue
  <1>3. CASE q = p /\ err = "ok"
    <2>1. todo'[p] = Tail(todo[p]) /\ todo[p] # <<>>
      BY <1>3 DEF Answered, GoesOn, PInv
    <2> SUFFICES ASSUME cmd[p].verb = "load" PROVE Loading(cmd[p].name, todo[p])'
      BY <1>3 DEF LoadsTrue
    <2>2. Loading(cmd[p].name, todo[p])
      BY DEF LoadsTrue
    <2> QED
      <3> DEFINE f == cmd[p].name
      <3>1. PICK g, rest, new : g = f /\ rest = todo[p] /\ new = todo'[p]
        OBVIOUS
      <3>2. Loading(g, rest) /\ rest # <<>> /\ Done(Head(rest))' /\ new = Tail(rest)
        BY <1>3, <2>1, <2>2, <3>1
      <3>3. cmd'[p].name = g /\ todo'[p] = new
        BY <3>1
      <3> QED
        <4>1. g \in DOMAIN Files /\ LET rs == sna_execute_config_info(g) IN
              \E k \in 0..Len(rs) :
                   /\ new = SubSeq(rs, k + 1, Len(rs))
                   /\ \A i \in 1..k : Done(rs[i])'
          BY <3>2, LoadAdvances
        <4> QED
          BY <3>3, <4>1 DEF Loading
  <1> QED
    BY <1>1, <1>2, <1>3

LEMMA BeginLoads ==
    ASSUME PInv, LInv, NEW p \in Procs, Begins(p)
    PROVE  \A q \in Procs : LoadsTrue(q)'
  <1> SUFFICES ASSUME NEW q \in Procs PROVE LoadsTrue(q)'
    OBVIOUS
  <1>0. Grows
    BY DEF Begins, nofVars, Grows
  <1>1. PICK c \in Commands[p] :
          /\ cmd' = [cmd EXCEPT ![p] = c]
          /\ todo' = [todo EXCEPT ![p] = Requests(c)]
          /\ result' = [result EXCEPT ![p] = Outcome(Requests(c))]
    BY DEF Begins
  <1>2. CASE q # p
    <2>1. cmd'[q] = cmd[q] /\ todo'[q] = todo[q] /\ result'[q] = result[q]
      BY <1>1, <1>2 DEF PInv, LInv
    <2> QED
      BY <1>0, <2>1, OthersLoad DEF LInv
  <1>3. CASE q = p
    <2>1. cmd'[p] = c /\ todo'[p] = Requests(c)
      BY <1>1 DEF PInv, LInv
    <2> SUFFICES ASSUME c.verb = "load" PROVE Loading(cmd[p].name, todo[p])'
      BY <1>3, <2>1 DEF LoadsTrue
    <2> DEFINE rs == sna_execute_config_info(c.name)
    <2>2. Requests(c) = rs /\ c.name \in DOMAIN Files
      BY CommandsKnown DEF Requests
    <2>3. rs \in Seq(Asked)
      BY <2>2, LoadAsked
    <2>4. cmd'[p].name = c.name /\ todo'[p] = rs
      BY <2>1, <2>2
    <2> SUFFICES \E k \in 0..Len(rs) : rs = SubSeq(rs, k + 1, Len(rs)) /\ \A i \in 1..k : Done(rs[i])'
      BY <2>2, <2>4 DEF Loading
    <2> HIDE DEF rs
    <2>5. rs = SubSeq(rs, 0 + 1, Len(rs)) /\ 0 \in 0..Len(rs)
      BY <2>3, SubSeqFull
    <2> QED
      BY <2>5
  <1> QED
    BY <1>2, <1>3

\* A load never has a query to make.
LEMMA LoadsNoQuery ==
    ASSUME PInv, NEW p \in Procs, LoadsTrue(p), result[p] = "running", Head(todo[p]).op[1] = "query"
    PROVE  cmd[p].verb # "load"
  <1> SUFFICES ASSUME cmd[p].verb = "load" PROVE FALSE
    OBVIOUS
  <1> DEFINE rs == sna_execute_config_info(cmd[p].name)
             rest == todo[p]
  <1>1. Loading(cmd[p].name, rest)
    BY DEF LoadsTrue
  <1>2. rs \in Seq(Loaded)
    BY <1>1, LoadLoaded DEF Loading
  <1>3. PICK k \in 0..Len(rs) : rest = SubSeq(rs, k + 1, Len(rs))
    BY <1>1 DEF Loading
  <1>4. rest # <<>>
    BY DEF PInv
  <1> HIDE DEF rs
  <1>5. k < Len(rs)
    <2>1. Len(rs) \in Nat /\ k \in Nat
      BY <1>2
    <2>2. k = Len(rs) => SubSeq(rs, k + 1, Len(rs)) = <<>>
      BY <2>1, SubSeqEmpty
    <2> QED
      BY <1>3, <1>4, <2>1, <2>2
  <1>6. Head(rest) = rs[k + 1]
    <2>1. k + 1 \in 1..Len(rs) /\ Len(rs) \in (k + 1)..Len(rs)
      BY <1>2, <1>5
    <2> QED
      BY <1>2, <1>3, <2>1, HeadTailOfSubSeq
  <1>7. rs[k + 1] \in Loaded
    BY <1>2, <1>5
  <1> QED
    BY <1>6, <1>7, LoadedDefines

LEMMA LoadsStep ==
    ASSUME TInv, PInv, LInv, [Next]_vars
    PROVE  LInv'
  <1>0. TablesFinite /\ DOMAIN cmd = Procs /\ DOMAIN shown = Procs /\ DOMAIN lost = Procs /\ \A q \in Procs : LoadsTrue(q)
    BY DEF LInv
  <1>1. ASSUME UNCHANGED <<modes, localLus, remoteLus, sides>>
        PROVE  Grows /\ \A r : Done(r)' <=> Done(r)
    BY <1>1 DEF Grows, Done
  <1>2. ASSUME UNCHANGED <<modes, localLus, remoteLus, sides, cmd, todo, result>>
        PROVE  \A q \in Procs : LoadsTrue(q)'
    BY <1>0, <1>1, <1>2, OthersLoad
  <1>3. CASE UNCHANGED vars
    <2>1. TablesFinite'
      BY <1>0, <1>3, FiniteKept DEF vars
    <2> QED
      BY <1>0, <1>2, <1>3, <2>1 DEF LInv, vars, nofVars, progVars
  <1>4. CASE LinkEvent /\ UNCHANGED progVars
    <2>1. PICK p \in ports : \E l \in p.ls : \E k : LinkBecomes(p, l, k)
      BY <1>4 DEF LinkEvent, Activates, GivesUp, Drops, Hears, Disconnected, TimesOut
    <2>2. PICK l, k : LinkBecomes(p, l, k)
      BY <2>1
    <2>3. TablesFinite'
      BY <1>0, <2>2, LinkFinite
    <2>4. UNCHANGED <<modes, localLus, remoteLus, sides, cmd, todo, result, shown, lost>>
      BY <1>4, <2>2 DEF LinkBecomes, PortBecomes, progVars
    <2> QED
      BY <1>0, <1>2, <2>3, <2>4 DEF LInv
  <1>5. ASSUME NEW p \in Procs, Begins(p) PROVE LInv'
    <2>1. TablesFinite'
      BY <1>0, <1>5, FiniteKept DEF Begins
    <2>2. \A q \in Procs : LoadsTrue(q)'
      BY <1>5, BeginLoads
    <2>3. DOMAIN cmd' = Procs /\ DOMAIN shown' = Procs /\ DOMAIN lost' = Procs
      BY <1>0, <1>5 DEF Begins
    <2> QED
      BY <2>1, <2>2, <2>3 DEF LInv
  <1>6. ASSUME NEW p \in Procs, Issues(p) PROVE LInv'
    <2>1. PICK err \in Errors : sna_nof(Head(todo[p]), err) /\ Answered(p, err)
      BY <1>6 DEF Issues
    <2>2. err \in Results \ {"running"} /\ result[p] = "running" /\ UNCHANGED <<cmd, shown, lost>>
      BY <1>6 DEF Results, Errors, Issues
    <2> PICK r : r = Head(todo[p])
      OBVIOUS
    <2>3. Grows /\ (err = "ok" => Done(r)')
      BY <2>1, CallGrows
    <2>4. TablesFinite'
      BY <1>0, <2>1, CallFinite
    <2>5. \A q \in Procs : LoadsTrue(q)'
      BY <1>0, <2>1, <2>2, <2>3, AnswerLoads
    <2> QED
      BY <1>0, <2>2, <2>4, <2>5 DEF LInv
  <1>7. ASSUME NEW p \in Procs, Queries(p) PROVE LInv'
    <2>0. TablesFinite' /\ UNCHANGED <<modes, localLus, remoteLus, sides, cmd>> /\ result[p] = "running"
      BY <1>0, <1>7, FiniteKept DEF Queries, nofVars
    <2>1. cmd[p].verb # "load"
      BY <1>0, <1>7, LoadsNoQuery DEF Queries
    <2>2. ASSUME NEW q \in Procs PROVE LoadsTrue(q)'
      <3>1. CASE q = p
        BY <2>0, <2>1, <3>1 DEF LoadsTrue
      <3>2. CASE q # p
        <4>1. /\ todo' = todo \/ \E rest : todo' = [todo EXCEPT ![p] = rest]
              /\ result' = result \/ \E out : result' = [result EXCEPT ![p] = out]
          <5>1. UNCHANGED <<todo, result>> \/ \E records : Returns(p, records)
            BY <1>7, Zenon DEF Queries
          <5>2. ASSUME NEW records, Returns(p, records)
                PROVE  /\ \E rest : todo' = [todo EXCEPT ![p] = rest]
                       /\ \E out : result' = [result EXCEPT ![p] = out]
            <6>1. (\E err : Answered(p, err)) \/ \E rest : GoesOn(p, rest)
              BY <5>2 DEF Returns
            <6> QED
              BY <6>1, Zenon DEF Answered, GoesOn
          <5> QED
            BY <5>1, <5>2
        <4>2. todo'[q] = todo[q] /\ result'[q] = result[q]
          BY <3>2, <4>1 DEF PInv
        <4>3. Grows /\ cmd'[q] = cmd[q]
          BY <1>1, <2>0
        <4> QED
          BY <1>0, <4>2, <4>3, OthersLoad
      <3> QED
        BY <3>1, <3>2
    <2>3. DOMAIN shown' = Procs /\ DOMAIN lost' = Procs
      <3>1. shown' = shown \/ \E x : shown' = [shown EXCEPT ![p] = x]
        BY <1>7, Zenon DEF Queries, Returns
      <3>2. lost' = lost \/ \E x : lost' = [lost EXCEPT ![p] = x]
        BY <1>7, Zenon DEF Queries, Returns
      <3> QED
        BY <1>0, <3>1, <3>2
    <2> QED
      BY <1>0, <2>0, <2>2, <2>3 DEF LInv
  <1>8. ASSUME NEW p \in Procs, Unreached(p) \/ Interrupted(p) PROVE LInv'
    <2>0. TablesFinite' /\ UNCHANGED <<modes, localLus, remoteLus, sides, cmd, shown, lost>> /\ result[p] = "running"
      BY <1>0, <1>8, FiniteKept DEF Unreached, Interrupted, nofVars
    <2>1. PICK err \in {"EPERM", "EINTR"} : Answered(p, err)
      BY <1>8 DEF Unreached, Interrupted
    <2> PICK r : r = Head(todo[p])
      OBVIOUS
    <2>2. err \in Results \ {"running"} /\ err # "ok"
      BY DEF Results
    <2>3. \A q \in Procs : LoadsTrue(q)'
      BY <1>0, <1>1, <2>0, <2>1, <2>2, AnswerLoads
    <2> QED
      BY <1>0, <2>0, <2>3 DEF LInv
  <1> QED
    BY <1>3, <1>4, <1>5, <1>6, <1>7, <1>8 DEF Next, Steps

LEMMA LoadsStart == Init => LInv
  <1> SUFFICES ASSUME Init PROVE LInv
    OBVIOUS
  <1>1. TablesFinite
    BY FS_EmptySet DEF Init, NofInit, TablesFinite
  <1>2. \A p \in Procs : LoadsTrue(p)
    BY DEF Init, LoadsTrue
  <1> QED
    BY <1>1, <1>2 DEF LInv, Init

LEMMA AllAlways == Spec => [](TInv /\ PInv /\ LInv)
  <1>1. Init => TInv /\ PInv /\ LInv
    BY TablesStart, ProgramStart, LoadsStart
  <1>2. TInv /\ PInv /\ LInv /\ [Next]_vars => (TInv /\ PInv /\ LInv)'
    BY InvStep, LoadsStep
  <1> QED
    BY <1>1, <1>2, PTL DEF Spec

LEMMA LoadsReportTrue ==
    ASSUME PInv, LInv
    PROVE  LoadTrue
  <1> SUFFICES ASSUME NEW p \in Procs, cmd[p].verb = "load", result[p] = "ok",
                      NEW r \in ToSet(sna_execute_config_info(cmd[p].name))
               PROVE  Done(r)
    BY DEF LoadTrue, Done
  <1> DEFINE rs == sna_execute_config_info(cmd[p].name)
  <1>1. Loading(cmd[p].name, todo[p])
    BY DEF LInv, LoadsTrue
  <1>2. rs \in Seq(Asked)
    BY <1>1, LoadAsked DEF Loading
  <1>3. PICK k \in 0..Len(rs) : todo[p] = SubSeq(rs, k + 1, Len(rs)) /\ \A i \in 1..k : Done(rs[i])
    BY <1>1 DEF Loading
  <1>4. todo[p] = <<>>
    BY DEF PInv
  <1>5. PICK i \in DOMAIN rs : r = rs[i]
    BY DEF ToSet
  <1> HIDE DEF rs
  <1>6. Len(rs) \in Nat /\ DOMAIN rs = 1..Len(rs)
    BY <1>2
  <1>7. Len(SubSeq(rs, k + 1, Len(rs))) = 0
    BY <1>3, <1>4
  <1>8. k = Len(rs)
    <2> DEFINE m == k + 1
               n == Len(rs)
    <2>1. \A j \in m..n : rs[j] \in Asked
      BY <1>2, <1>6
    <2>2. m \in Int /\ n \in Int
      BY <1>6
    <2>3. Len(SubSeq(rs, m, n)) = IF m <= n THEN n - m + 1 ELSE 0
      BY <2>1, <2>2, SubSeqProperties
    <2>4. (IF m <= n THEN n - m + 1 ELSE 0) = 0
      BY <1>7, <2>3
    <2>5. k \in Nat /\ n \in Nat /\ k <= n /\ m = k + 1
      BY <1>6
    <2> HIDE DEF m, n
    <2>6. k = n
      BY <2>4, <2>5
    <2> QED
      BY <2>6 DEF n
  <1> QED
    BY <1>3, <1>5, <1>6, <1>8

\* Only show asks for tables, and only for those that there are.
LEMMA QueriesKnown ==
    ASSUME NEW r \in Asked, r.op[1] = "query"
    PROVE  r.op[2] \in {"node", "dlc", "port", "ls", "lu", "plu", "mode", "cpics", "cos"}
  <1>1. r \notin Loaded
    BY LoadedDefines
  <1>2. r \notin Controls
    BY DEF Controls
  <1>3. PICK t \in ToSet(Tables) : r = [op |-> <<"query", t>>]
    BY <1>1, <1>2 DEF Asked, Shows
  <1>4. ToSet(Tables) = {"node", "dlc", "port", "ls", "lu", "plu", "mode", "cpics", "cos"}
    <2>1. DOMAIN Tables = 1..9
      BY DEF Tables
    <2> QED
      BY <2>1 DEF Tables, ToSet
  <1> QED
    BY <1>3, <1>4

LEMMA NamesFinite ==
    ASSUME NEW S, IsFiniteSet(S)
    PROVE  IsFiniteSet({x.name : x \in S}) /\ IsFiniteSet({x.node : x \in S})
  <1> DEFINE f == [x \in S |-> x.name]
             g == [x \in S |-> x.node]
             F == {x.name : x \in S}
             G == {x.node : x \in S}
  <1>1. f \in [S -> F] /\ DOMAIN f = S /\ F = {f[x] : x \in S}
    OBVIOUS
  <1>2. g \in [S -> G] /\ DOMAIN g = S /\ G = {g[x] : x \in S}
    OBVIOUS
  <1> HIDE DEF f, g
  <1>3. IsFiniteSet(F)
    <2> HIDE DEF F
    <2> QED
      BY <1>1, ImageFinite
  <1>4. IsFiniteSet(G)
    <2> HIDE DEF G
    <2> QED
      BY <1>2, ImageFinite
  <1> QED
    BY <1>3, <1>4

LEMMA TableFinite ==
    ASSUME TInv, TablesFinite, NEW r \in Asked, r.op[1] = "query"
    PROVE  IsFiniteSet(Table(r.op[2]))
  <1>1. IsFiniteSet(nof)
    BY DEF TInv, NodeTypes
  <1>2. IsFiniteSet(Links)
    <2> DEFINE f == [p \in ports |-> p.ls]
               T == {p.ls : p \in ports}
    <2>1. f \in [ports -> T] /\ DOMAIN f = ports /\ T = {f[p] : p \in ports}
      OBVIOUS
    <2>2. \A t \in T : IsFiniteSet(t)
      BY DEF TablesFinite
    <2>3. Links = UNION T
      BY DEF Links
    <2> HIDE DEF f, T
    <2>4. IsFiniteSet(T)
      BY <2>1, ImageFinite DEF TablesFinite
    <2> QED
      BY <2>2, <2>3, <2>4, FS_UNION
  <1>3. /\ IsFiniteSet(nof_query_node) /\ IsFiniteSet(nof_query_dlc) /\ IsFiniteSet(nof_query_port)
        /\ IsFiniteSet(nof_query_ls) /\ IsFiniteSet(nof_query_lu) /\ IsFiniteSet(nof_query_plu)
        /\ IsFiniteSet(nof_query_mode) /\ IsFiniteSet(nof_query_cpic_side_info) /\ IsFiniteSet(nof_query_cos)
    BY <1>1, <1>2, NamesFinite, DevicesFinite
    DEF TablesFinite, nof_query_node, nof_query_dlc, nof_query_port, nof_query_ls, nof_query_lu, nof_query_plu,
        nof_query_mode, nof_query_cpic_side_info, nof_query_cos
  <1> QED
    BY <1>3, QueriesKnown, Zenon DEF Table

\* A query that was not full.
LEMMA NotFull ==
    ASSUME NEW t, IsFiniteSet(Table(t)), NEW n \in Nat, NEW records \in Fitting(t, n), Cardinality(records) # n
    PROVE  records = Table(t)
  <1> DEFINE T == Table(t)
             c == Cardinality(T)
             M == {n, c}
  <1>1. records \in SUBSET T /\ Cardinality(records) = Min(M)
    BY DEF Fitting
  <1>2. c \in Nat
    BY FS_CardinalityType
  <1>3. \E x \in M : \A y \in M : x =< y
    <2>1. CASE n <= c
      BY <1>2, <2>1
    <2>2. CASE c <= n
      BY <1>2, <2>2
    <2> QED
      BY <1>2, <2>1, <2>2
  <1> HIDE DEF M
  <1>4. Min(M) \in M
    BY <1>3, Zenon DEF Min
  <1>5. Cardinality(records) = c
    BY <1>1, <1>4 DEF M
  <1> HIDE DEF T
  <1>6. IsFiniteSet(T)
    BY DEF T
  <1>7. T = records
    BY <1>1, <1>5, <1>6, FS_Subset
  <1> QED
    BY <1>7 DEF T

LEMMA QueriesReportAll ==
    ASSUME TInv, PInv, LInv, [Next]_vars, NEW p \in Procs,
           todo'[p] # todo[p], result'[p] \in {"running", "ok"},
           todo[p] # <<>>, Head(todo[p]).op[1] = "query"
    PROVE  LET t == Head(todo[p]).op[2] IN
           shown'[p] = <<t, IF lost'[p] THEN {} ELSE Table(t)>>
  <1>1. result[p] = "running" /\ todo[p] \in Seq(Asked) /\ Head(todo[p]) \in Asked /\ room[p] \in Nat
    BY DEF PInv
  <1>2. DOMAIN todo = Procs /\ DOMAIN result = Procs /\ DOMAIN shown = Procs /\ DOMAIN lost = Procs
    BY DEF PInv, LInv
  <1>3. PICK q \in Procs : Begins(q) \/ Issues(q) \/ Queries(q) \/ Unreached(q) \/ Interrupted(q)
    BY DEF Next, Steps, vars, progVars
  <1>4. q = p
    BY <1>2, <1>3, Zenon DEF Begins, Issues, Queries, Returns, Unreached, Interrupted, Answered, GoesOn
  <1>5. ~Begins(p) /\ ~Issues(p)
    BY <1>1 DEF Begins, Issues
  <1>6. ~Unreached(p) /\ ~Interrupted(p)
    BY <1>2 DEF Unreached, Interrupted, Answered
  <1> DEFINE t == Head(todo[p]).op[2]
  <1>7. \/ \E records \in Fitting(t, room[p]) :
              /\ Cardinality(records) # room[p]
              /\ shown' = [shown EXCEPT ![p] = <<t, records>>] /\ lost' = [lost EXCEPT ![p] = FALSE]
        \/ shown' = [shown EXCEPT ![p] = <<t, {}>>] /\ lost' = [lost EXCEPT ![p] = TRUE]
    BY <1>3, <1>4, <1>5, <1>6, Zenon DEF Queries, Returns
  <1>8. IsFiniteSet(Table(t))
    BY <1>1, TableFinite DEF LInv
  <1> HIDE DEF t
  <1>9. ASSUME NEW records \in Fitting(t, room[p]), Cardinality(records) # room[p],
               shown' = [shown EXCEPT ![p] = <<t, records>>], lost' = [lost EXCEPT ![p] = FALSE]
        PROVE  shown'[p] = <<t, IF lost'[p] THEN {} ELSE Table(t)>>
    <2>1. records = Table(t)
      BY <1>1, <1>8, <1>9, NotFull
    <2>2. ~lost'[p] /\ shown'[p] = <<t, records>>
      BY <1>2, <1>9
    <2> QED
      BY <2>1, <2>2, Zenon
  <1>10. ASSUME shown' = [shown EXCEPT ![p] = <<t, {}>>], lost' = [lost EXCEPT ![p] = TRUE]
         PROVE  shown'[p] = <<t, IF lost'[p] THEN {} ELSE Table(t)>>
    <2>1. lost'[p] /\ shown'[p] = <<t, {}>>
      BY <1>2, <1>10
    <2> QED
      BY <2>1, Zenon
  <1>11. shown'[p] = <<t, IF lost'[p] THEN {} ELSE Table(t)>>
    BY <1>7, <1>9, <1>10, Zenon
  <1> QED
    BY <1>11, Zenon DEF t

\* ToldTrue: a load that returned 0 has defined all the modes, LUs and side
\* information of its file for its own node, and a query that returned
\* reported the whole table, for any size of the tables and of the buffer,
\* or nothing at all because its ioctl failed.
THEOREM ReportsAreTrue == Spec => ToldTrue
  <1>1. PInv /\ LInv => LoadTrue
    BY LoadsReportTrue
  <1>2. TInv /\ PInv /\ LInv /\ [Next]_vars
          => [\A p \in Procs :
                ( /\ todo'[p] # todo[p] /\ result'[p] \in {"running", "ok"}
                  /\ todo[p] # <<>> /\ Head(todo[p]).op[1] = "query" )
                    => LET t == Head(todo[p]).op[2] IN
                       shown'[p] = <<t, IF lost'[p] THEN {} ELSE Table(t)>>]_vars
    BY QueriesReportAll
  <1> QED
    BY <1>1, <1>2, AllAlways, PTL DEF Spec, ToldTrue, QueryComplete
=============================================================================
