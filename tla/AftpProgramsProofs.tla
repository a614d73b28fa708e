------------------------- MODULE AftpProgramsProofs -------------------------
(***************************************************************************)
(* What aftp believes of its session is so, its lists are worked through,  *)
(* and acopy tells the truth: for every set of lines the user may type,    *)
(* every set of names, directories and options, all sizes of the buffers   *)
(* and any number of commands and outages.                                 *)
(***************************************************************************)
EXTENDS AftpPrograms, SequenceTheorems, NaturalsInduction, WellFoundedInduction, TLAPS

\* Every set of naturals that is not empty has a least member.
LEMMA Least ==
    ASSUME NEW T \in SUBSET Nat, T # {}
    PROVE  \E x \in T : \A y \in T : x <= y
  <1> DEFINE R == OpToRel(<, Nat)
  <1>1. IsWellFoundedOn(R, Nat)
    BY NatLessThanWellFounded
  <1>2. \A a, b \in Nat : a < b => <<a, b>> \in R
    BY DEF OpToRel
  <1> HIDE DEF R
  <1>3. PICK x \in T : \A y \in T : ~(<<y, x>> \in R)
    BY <1>1, WFMin
  <1>4. ASSUME NEW y \in T PROVE x <= y
    <2>1. ~(y < x)
      BY <1>2, <1>3
    <2>2. x \in Nat /\ y \in Nat
      OBVIOUS
    <2> QED
      BY <2>1, <2>2
  <1> QED
    BY <1>4

\* Induction, with a set in the place of a predicate.
LEMMA SetInduction ==
    ASSUME NEW S, 0 \in S, \A n \in Nat : n \in S => n + 1 \in S
    PROVE  Nat \subseteq S
  <1> SUFFICES ASSUME Nat \ S # {} PROVE FALSE
    OBVIOUS
  <1>1. PICK x \in Nat \ S : \A y \in Nat \ S : x <= y
    BY Least
  <1>2. x # 0 /\ x - 1 \in Nat
    BY <1>1
  <1>3. x - 1 \in S
    BY <1>1, <1>2
  <1> QED
    BY <1>1, <1>2, <1>3
-----------------------------------------------------------------------------
(***************************************************************************)
(* The operators.                                                          *)
(***************************************************************************)
\* One name of the list is looked at.
ReadStep(S, g, i) ==
    IF i = 0 THEN <<>> ELSE IF Name[i] \in S THEN Append(g[i - 1], Name[i]) ELSE g[i - 1]

\* Names in their order are a sequence of names.
LEMMA InOrderType ==
    ASSUME NEW S
    PROVE  InOrder(S) \in Seq(Names)
  <1> DEFINE N == Len(Name)
             D == 0 .. N
             Reads(g, n) == \A i \in D : i < n => g[i] = ReadStep(S, g, i)
             read == CHOOSE g : g = [i \in D |-> ReadStep(S, g, i)]
  <1>0. N \in Nat /\ \A i \in 1 .. N : Name[i] \in Names
    BY NamesAssumption
  <1>1. \A n \in Nat : \E g \in [D -> Seq(Names)] : Reads(g, n)
    <2> DEFINE P == {n \in Nat : \E g \in [D -> Seq(Names)] : Reads(g, n)}
    <2>1. 0 \in P
      <3>1. [i \in D |-> <<>>] \in [D -> Seq(Names)] /\ Reads([i \in D |-> <<>>], 0)
        BY <1>0
      <3> QED
        BY <3>1
    <2>2. ASSUME NEW n \in Nat, n \in P PROVE n + 1 \in P
      <3>1. PICK g \in [D -> Seq(Names)] : Reads(g, n)
        BY <2>2
      <3> DEFINE h == [i \in D |-> ReadStep(S, g, i)]
      <3>2. \A i \in D : ReadStep(S, g, i) \in Seq(Names)
        BY <1>0 DEF ReadStep
      <3>3. h \in [D -> Seq(Names)]
        BY <3>2
      <3>4. Reads(h, n + 1)
        <4> SUFFICES ASSUME NEW i \in D, i < n + 1 PROVE h[i] = ReadStep(S, h, i)
          OBVIOUS
        <4>1. i # 0 => i - 1 \in D /\ i - 1 < n
          BY <1>0
        <4>2. i # 0 => h[i - 1] = g[i - 1]
          BY <3>1, <4>1
        <4> QED
          BY <4>2 DEF ReadStep
      <3> HIDE DEF h
      <3>5. \E f \in [D -> Seq(Names)] : Reads(f, n + 1)
        BY <3>3, <3>4, Zenon
      <3> QED
        BY <3>5
    <2> HIDE DEF P
    <2>3. Nat \subseteq P
      BY <2>1, <2>2, SetInduction
    <2> QED
      BY <2>3 DEF P
  <1>2. PICK g \in [D -> Seq(Names)] : Reads(g, N + 1)
    BY <1>0, <1>1
  <1>3. g = [i \in D |-> ReadStep(S, g, i)]
    BY <1>0, <1>2
  <1>4. read = [i \in D |-> ReadStep(S, read, i)]
    BY <1>3
  <1> HIDE DEF read
  <1>5. \A n \in Nat : n <= N => read[n] \in Seq(Names)
    <2> DEFINE P == {n \in Nat : n <= N => read[n] \in Seq(Names)}
    <2>1. 0 \in P
      BY <1>0, <1>4 DEF ReadStep
    <2>2. ASSUME NEW n \in Nat, n \in P PROVE n + 1 \in P
      <3> SUFFICES ASSUME n + 1 <= N PROVE read[n + 1] \in Seq(Names)
        OBVIOUS
      <3>1. read[n] \in Seq(Names)
        BY <1>0, <2>2
      <3>2. n + 1 \in D /\ Name[n + 1] \in Names /\ n + 1 # 0 /\ (n + 1) - 1 = n
        BY <1>0
      <3>3. read[n + 1] = ReadStep(S, read, n + 1)
        <4> HIDE DEF D
        <4> QED
          BY <1>4, <3>2
      <3>4. ReadStep(S, read, n + 1) \in {Append(read[n], Name[n + 1]), read[n]}
        BY <3>2 DEF ReadStep
      <3>5. Append(read[n], Name[n + 1]) \in Seq(Names)
        BY <3>1, <3>2, AppendProperties
      <3> QED
        BY <3>1, <3>3, <3>4, <3>5
    <2> HIDE DEF P
    <2>3. Nat \subseteq P
      BY <2>1, <2>2, SetInduction
    <2> QED
      BY <2>3 DEF P
  <1>6. InOrder(S) = read[N]
    BY DEF InOrder, read, ReadStep
  <1> QED
    BY <1>0, <1>5, <1>6

\* The probes of bsearch: what is left between r[1] and r[2] gets smaller.
Mid(r) == (r[1] + r[2]) \div 2
Probe(table, b, known, g, r) ==
    IF r[1] >= r[2] THEN "absent"
    ELSE IF Mid(r) >= Len(table) THEN "outside"
    ELSE IF Mid(r) = b /\ known THEN "found"
    ELSE IF b <= Mid(r) THEN g[<<r[1], Mid(r)>>] ELSE g[<<Mid(r) + 1, r[2]>>]

LEMMA ProbesShrink ==
    ASSUME NEW r \in (0 .. commandcnt) \X (0 .. commandcnt), ~(r[1] >= r[2])
    PROVE  /\ <<r[1], Mid(r)>> \in (0 .. commandcnt) \X (0 .. commandcnt)
           /\ <<Mid(r) + 1, r[2]>> \in (0 .. commandcnt) \X (0 .. commandcnt)
           /\ Mid(r) - r[1] < r[2] - r[1] /\ r[2] - (Mid(r) + 1) < r[2] - r[1]
  <1> DEFINE a == r[1]
             c == r[2]
  <1>1. a \in 0 .. commandcnt /\ c \in 0 .. commandcnt
    OBVIOUS
  <1>2. a < c /\ Mid(r) = (a + c) \div 2
    BY <1>1 DEF Mid, commandcnt
  <1> HIDE DEF a, c
  <1>3. Mid(r) \in 0 .. commandcnt /\ Mid(r) + 1 \in 0 .. commandcnt /\ a <= Mid(r) /\ Mid(r) < c
    BY <1>1, <1>2 DEF commandcnt
  <1>4. Mid(r) - a < c - a /\ c - (Mid(r) + 1) < c - a
    BY <1>1, <1>3 DEF commandcnt
  <1> QED
    BY <1>1, <1>3, <1>4 DEF a, c

\* bsearch finds only a word that is in the table, whatever size it is told.
LEMMA FoundIsKnown ==
    ASSUME NEW table, NEW b, NEW w, NEW W, get_command(table, b, w \in W) = "found"
    PROVE  w \in W
  <1> SUFFICES ASSUME w \notin W PROVE FALSE
    OBVIOUS
  <1> DEFINE D == (0 .. commandcnt) \X (0 .. commandcnt)
             Size(r) == r[2] - r[1]
             Probes(g, n) == \A r \in D : Size(r) < n => g[r] = Probe(table, b, w \in W, g, r)
             probe == CHOOSE g : g = [r \in D |-> Probe(table, b, w \in W, g, r)]
  <1>0. \A r \in D : Size(r) \in Int /\ Size(r) < commandcnt + 1 /\ (Size(r) < 1 => r[1] >= r[2])
    BY DEF commandcnt
  <1>1. \A n \in Nat : \E g : g = [r \in D |-> g[r]] /\ Probes(g, n + 1)
    <2> DEFINE P == {n \in Nat : \E g : g = [r \in D |-> g[r]] /\ Probes(g, n + 1)}
    <2>1. 0 \in P
      <3> DEFINE g == [r \in D |-> "absent"]
      <3>1. Probes(g, 0 + 1)
        BY <1>0 DEF Probe
      <3> QED
        BY <3>1
    <2>2. ASSUME NEW n \in Nat, n \in P PROVE n + 1 \in P
      <3>1. PICK g : g = [r \in D |-> g[r]] /\ Probes(g, n + 1)
        BY <2>2
      <3> DEFINE h == [r \in D |-> Probe(table, b, w \in W, g, r)]
      <3>2. Probes(h, (n + 1) + 1)
        <4> SUFFICES ASSUME NEW r \in D, Size(r) < (n + 1) + 1
                     PROVE  h[r] = Probe(table, b, w \in W, h, r)
          OBVIOUS
        <4>1. h[r] = Probe(table, b, w \in W, g, r)
          OBVIOUS
        <4>2. ASSUME NEW q \in D, Size(q) < Size(r) PROVE h[q] = g[q]
          <5>1. Size(q) < n + 1
            BY <1>0, <4>2
          <5> QED
            BY <3>1, <5>1
        <4>3. CASE r[1] >= r[2]
          BY <4>1, <4>3 DEF Probe
        <4>4. CASE ~(r[1] >= r[2])
          <5>1. /\ <<r[1], Mid(r)>> \in D /\ <<Mid(r) + 1, r[2]>> \in D
                /\ Size(<<r[1], Mid(r)>>) < Size(r) /\ Size(<<Mid(r) + 1, r[2]>>) < Size(r)
            BY <4>4, ProbesShrink
          <5>2. h[<<r[1], Mid(r)>>] = g[<<r[1], Mid(r)>>] /\ h[<<Mid(r) + 1, r[2]>>] = g[<<Mid(r) + 1, r[2]>>]
            BY <4>2, <5>1
          <5> HIDE DEF h
          <5> QED
            BY <4>1, <5>2 DEF Probe
        <4> QED
          BY <4>3, <4>4
      <3>3. h = [r \in D |-> h[r]]
        OBVIOUS
      <3> HIDE DEF h
      <3>4. \E f : f = [r \in D |-> f[r]] /\ Probes(f, (n + 1) + 1)
        BY <3>2, <3>3, Zenon
      <3>5. n + 1 \in Nat
        OBVIOUS
      <3> QED
        BY <3>4, <3>5, Zenon
    <2> HIDE DEF P
    <2>3. Nat \subseteq P
      BY <2>1, <2>2, SetInduction
    <2> QED
      BY <2>3 DEF P
  <1>2. PICK g : g = [r \in D |-> g[r]] /\ Probes(g, commandcnt + 1)
    BY <1>1 DEF commandcnt
  <1>3. g = [r \in D |-> Probe(table, b, w \in W, g, r)]
    BY <1>0, <1>2
  <1>4. probe = [r \in D |-> Probe(table, b, w \in W, probe, r)]
    BY <1>3
  <1> HIDE DEF probe
  <1>5. \A n \in Nat : \A r \in D : Size(r) < n + 1 => probe[r] # "found"
    <2> DEFINE P == {n \in Nat : \A r \in D : Size(r) < n + 1 => probe[r] # "found"}
    <2>1. 0 \in P
      BY <1>0, <1>4 DEF Probe
    <2>2. ASSUME NEW n \in Nat, n \in P PROVE n + 1 \in P
      <3> SUFFICES ASSUME NEW r \in D, Size(r) < (n + 1) + 1 PROVE probe[r] # "found"
        OBVIOUS
      <3>1. probe[r] = Probe(table, b, w \in W, probe, r)
        BY <1>4
      <3>2. CASE r[1] >= r[2]
        BY <3>1, <3>2 DEF Probe
      <3>3. CASE ~(r[1] >= r[2])
        <4>1. /\ <<r[1], Mid(r)>> \in D /\ <<Mid(r) + 1, r[2]>> \in D
              /\ Size(<<r[1], Mid(r)>>) < Size(r) /\ Size(<<Mid(r) + 1, r[2]>>) < Size(r)
          BY <3>3, ProbesShrink
        <4>2. \A q \in D : Size(q) < Size(r) => probe[q] # "found"
          BY <1>0, <2>2
        <4>3. probe[<<r[1], Mid(r)>>] # "found" /\ probe[<<Mid(r) + 1, r[2]>>] # "found"
          BY <4>1, <4>2
        <4> QED
          BY <3>1, <4>3 DEF Probe
      <3> QED
        BY <3>2, <3>3
    <2> HIDE DEF P
    <2>3. Nat \subseteq P
      BY <2>1, <2>2, SetInduction
    <2> QED
      BY <2>3 DEF P
  <1>6. get_command(table, b, w \in W) = probe[<<0, commandcnt>>]
    BY DEF get_command, probe, Probe, Mid
  <1>7. <<0, commandcnt>> \in D /\ commandcnt \in Nat
    BY DEF commandcnt
  <1> QED
    BY <1>0, <1>5, <1>6, <1>7

\* The buffers of a line and of a word are never shorter than what is in them.
LEMMA SizesHold ==
    ASSUME NEW n \in Nat
    PROVE  n <= LineSize(n) /\ n <= WordSize(n)
  <1>1. ASSUME NEW b \in Nat \ {0}, n > b
        PROVE  n <= b * (1 + (n - 1) \div b)
    <2> DEFINE q == (n - 1) \div b
    <2>1. n - 1 \in Nat
      BY <1>1
    <2>2. q \in Nat /\ n - 1 < b * q + b
      BY <2>1
    <2> HIDE DEF q
    <2>3. b * (1 + q) = b * q + b
      BY <2>2
    <2>4. b * q \in Nat
      BY <2>2
    <2> QED
      BY <2>2, <2>3, <2>4 DEF q
  <1>2. n <= LineSize(n)
    BY <1>1, AftpClientAssumption DEF LineSize
  <1>3. n <= WordSize(n)
    BY <1>1, AftpClientAssumption DEF WordSize
  <1> QED
    BY <1>2, <1>3

-----------------------------------------------------------------------------
(***************************************************************************)
(* The session.                                                            *)
(***************************************************************************)
Defaults == {"", "#BATCH", "AFTPD", "0", "ascii", "binary", "ebcdic", "other", "old", "new", Home}
Typed == UNION {Range(l) : l \in Lines}
Words == Defaults \cup Typed \cup Destinations \cup ModeNames \cup TpNames

LEMMA WordsThere ==
    /\ \A w \in {"", "#BATCH", "AFTPD", "0", "ascii", "binary", "ebcdic", "other", "old", "new", Home} : w \in Words
    /\ \A l \in Lines : \A i \in DOMAIN l : l[i] \in Words
    /\ \A w \in Destinations \cup ModeNames \cup TpNames : w \in Words
  <1>1. \A l \in Lines : \A i \in DOMAIN l : l[i] \in Typed
    BY DEF Typed, Range
  <1>2. \A w \in Defaults : w \in Words
    BY DEF Words
  <1> QED
    BY <1>1, <1>2, Zenon DEF Words, Defaults

SessionRec ==
    [destination : Words, symbolic : BOOLEAN, mode_name : Words, tp_name : Words,
     alloc_size : Words, block_size : Words, record_length : Words, record_format : Words,
     data_type : Words, date_mode : Words, current_directory : Words]

ConvRec ==
    [state : {"none", "open", "broken"}, destination : Words, symbolic : BOOLEAN,
     mode_name : Words, tp_name : Words]

\* a_status can show these settings.
Shows(s) ==
    /\ Length(s.mode_name) \in 1 .. NameLimit["mode_name"]
    /\ Length(s.tp_name) \in 1 .. NameLimit["tp_name"]
    /\ s.data_type \in {"ascii", "binary"} /\ s.date_mode \in {"old", "new"}
    /\ s.record_format \in Range(Formats)

\* The conversation has the settings of the session.
Uses(c, s) ==
    c.state = "open" /\ ~c.symbolic =>
        c.destination = s.destination /\ c.mode_name = s.mode_name /\ c.tp_name = s.tp_name

Over == {"exited", "aborted", "acopy"}

SessInv ==
    /\ session \in SessionRec /\ conv \in ConvRec /\ connected \in BOOLEAN
    /\ orphans = 0 /\ outages \in 0 .. MaxOutages
    /\ ConnectedTrue
    /\ Uses(conv, session)
    /\ pc # "acopy" => Shows(session)

\* Nothing happens to the session, and the program does not come back.
LEMMA SessKept ==
    ASSUME SessInv, UNCHANGED <<session, conv, orphans, outages, connected>>,
           pc \in Over => pc' = pc, pc' = "acopy" => pc = "acopy"
    PROVE  SessInv'
  BY DEF SessInv, ConnectedTrue, Over

\* A setting changes: of those that the conversation uses, only while there
\* is none.
LEMMA SessSet ==
    ASSUME SessInv, UNCHANGED <<conv, orphans, outages, connected, pc>> \/
                    (UNCHANGED <<conv, orphans, outages, connected>> /\ pc = "run" /\ pc' = "prompt"),
           NEW s, session' = s, s \in SessionRec, pc # "acopy", Shows(s),
           \/ /\ s.destination = session.destination
              /\ s.mode_name = session.mode_name /\ s.tp_name = session.tp_name
           \/ pc = "run" /\ ~connected
    PROVE  SessInv'
  <1>1. Uses(conv, s)
    BY DEF SessInv, ConnectedTrue, Uses
  <1>2. pc' # "acopy" /\ UNCHANGED <<conv, orphans, outages, connected>>
    OBVIOUS
  <1>3. ConnectedTrue'
    BY DEF SessInv, ConnectedTrue
  <1> QED
    BY <1>1, <1>2, <1>3 DEF SessInv

\* The conversation changes, and is not open afterwards unless it was.
LEMMA SessConv ==
    ASSUME SessInv, UNCHANGED <<session, orphans, connected>>, pc \notin Over,
           pc' # "acopy", outages' \in 0 .. MaxOutages,
           NEW c, conv' = c, c \in ConvRec,
           c = conv \/ (c.state # "open" /\ (c.state = "none" => pc' \in Over))
    PROVE  SessInv'
  <1>1. Uses(c, session)
    BY DEF SessInv, Uses
  <1>2. ConnectedTrue'
    BY DEF SessInv, ConnectedTrue, Over
  <1>3. pc # "acopy"
    BY DEF Over
  <1> QED
    BY <1>1, <1>2, <1>3 DEF SessInv

\* A line of n words has its argument.
LineInv ==
    /\ pc \in {"prompt", "run", "ask", "act", "free", "exited", "aborted", "acopy"}
    /\ line \in Lines \cup {<<>>}
    /\ InputFits

LEMMA ArgIsWord ==
    ASSUME LineInv, argcnt = 2
    PROVE  Arg \in Words /\ Length(Arg) \in Nat \ {0}
  <1>1. line \in Lines
    BY DEF LineInv, argcnt
  <1>2. 2 \in DOMAIN line
    BY <1>1, LinesAssumption DEF argcnt
  <1> QED
    BY <1>1, <1>2, LinesAssumption, WordsThere DEF Arg

\* A setting command.
LEMMA SetterKeeps ==
    ASSUME SessInv, LineInv, pc = "run", NEW allowed, NEW new, Setting(allowed, new),
           allowed /\ argcnt = 2 =>
               /\ new \in SessionRec /\ Shows(new) /\ new.destination = session.destination
               /\ (new.mode_name = session.mode_name /\ new.tp_name = session.tp_name) \/ ~connected
    PROVE  SessInv'
  <1>1. UNCHANGED <<conv, orphans, outages, connected>> /\ pc' = "prompt"
    BY DEF Setting, Returns, Unchanged
  <1>2. CASE allowed /\ argcnt = 2
    <2>1. session' = new
      BY <1>2 DEF Setting
    <2> QED
      BY <1>1, <1>2, <2>1, SessSet
  <1>3. CASE ~(allowed /\ argcnt = 2)
    <2>1. session' = session
      BY <1>3 DEF Setting
    <2> QED
      BY <1>1, <2>1, SessKept DEF Over
  <1> QED
    BY <1>2, <1>3

LEMMA SettersKeep ==
    ASSUME SessInv, LineInv, Setter
    PROVE  SessInv'
  <1>0. session \in SessionRec /\ (pc = "run" => Shows(session)) /\ connected \in BOOLEAN
    BY DEF SessInv
  <1>1. argcnt = 2 => Arg \in Words /\ Length(Arg) \in Nat \ {0}
    BY ArgIsWord
  <1>2. CASE a_alloc
    <2> DEFINE n == aftp_set_allocation_size(Arg)
               ok == connected /\ (argcnt = 2 => Arg \in Number)
    <2>1. pc = "run" /\ Setting(ok, n)
      BY <1>2 DEF a_alloc, Runs
    <2>2. argcnt = 2 =>
            /\ n \in SessionRec /\ Shows(n) /\ n.destination = session.destination
            /\ n.mode_name = session.mode_name /\ n.tp_name = session.tp_name
      BY <1>0, <1>1, <2>1 DEF SessionRec, Shows, aftp_set_allocation_size
    <2> HIDE DEF n, ok
    <2> QED
      BY <2>1, <2>2, SetterKeeps
  <1>3. CASE a_block
    <2> DEFINE n == aftp_set_block_size(Arg)
               ok == connected /\ (argcnt = 2 => Arg \in Number)
    <2>1. pc = "run" /\ Setting(ok, n)
      BY <1>3 DEF a_block, Runs
    <2>2. argcnt = 2 =>
            /\ n \in SessionRec /\ Shows(n) /\ n.destination = session.destination
            /\ n.mode_name = session.mode_name /\ n.tp_name = session.tp_name
      BY <1>0, <1>1, <2>1 DEF SessionRec, Shows, aftp_set_block_size
    <2> HIDE DEF n, ok
    <2> QED
      BY <2>1, <2>2, SetterKeeps
  <1>4. CASE a_lrecl
    <2> DEFINE n == aftp_set_record_length(Arg)
               ok == connected /\ (argcnt = 2 => Arg \in Number)
    <2>1. pc = "run" /\ Setting(ok, n)
      BY <1>4 DEF a_lrecl, Runs
    <2>2. argcnt = 2 =>
            /\ n \in SessionRec /\ Shows(n) /\ n.destination = session.destination
            /\ n.mode_name = session.mode_name /\ n.tp_name = session.tp_name
      BY <1>0, <1>1, <2>1 DEF SessionRec, Shows, aftp_set_record_length
    <2> HIDE DEF n, ok
    <2> QED
      BY <2>1, <2>2, SetterKeeps
  <1>5. CASE a_date
    <2> DEFINE n == aftp_set_date_mode(Arg)
               ok == connected /\ (argcnt = 2 => Arg \in {"old", "new"})
    <2>1. pc = "run" /\ Setting(ok, n)
      BY <1>5 DEF a_date, Runs
    <2>2. ok /\ argcnt = 2 =>
            /\ n \in SessionRec /\ Shows(n) /\ n.destination = session.destination
            /\ n.mode_name = session.mode_name /\ n.tp_name = session.tp_name
      BY <1>0, <1>1, <2>1 DEF SessionRec, Shows, aftp_set_date_mode
    <2> HIDE DEF n, ok
    <2> QED
      BY <2>1, <2>2, SetterKeeps
  <1>6. CASE a_tpname
    <2> DEFINE n == aftp_set_tp_name(Arg)
               ok == ~connected
    <2>1. pc = "run" /\ Setting(ok, n)
      BY <1>6 DEF a_tpname, Runs
    <2>2. argcnt = 2 => n \in SessionRec /\ n.destination = session.destination /\ Shows(n)
      <3>1. CASE n = session
        BY <1>0, <2>1, <3>1
      <3>2. ASSUME n = [session EXCEPT !.tp_name = Arg], Length(Arg) <= NameLimit["tp_name"], argcnt = 2
            PROVE  n \in SessionRec /\ n.destination = session.destination /\ Shows(n)
        <4>0. NameLimit["tp_name"] \in Nat
          BY AftpSessionAssumption
        <4>1. Length(Arg) \in 1 .. NameLimit["tp_name"]
          BY <1>1, <3>2, <4>0
        <4> QED
          BY <1>0, <1>1, <2>1, <3>2, <4>1 DEF SessionRec, Shows
      <3> QED
        BY <3>1, <3>2 DEF aftp_set_tp_name
    <2> HIDE DEF n
    <2> QED
      BY <2>1, <2>2, SetterKeeps
  <1>7. CASE a_modename
    <2> DEFINE n == aftp_set_mode_name(Arg)
               ok == ~connected
    <2>1. pc = "run" /\ Setting(ok, n)
      BY <1>7 DEF a_modename, Runs
    <2>2. argcnt = 2 => n \in SessionRec /\ n.destination = session.destination /\ Shows(n)
      <3>1. CASE n = session
        BY <1>0, <2>1, <3>1
      <3>2. ASSUME n = [session EXCEPT !.mode_name = Arg], Length(Arg) <= NameLimit["mode_name"], argcnt = 2
            PROVE  n \in SessionRec /\ n.destination = session.destination /\ Shows(n)
        <4>0. NameLimit["mode_name"] \in Nat
          BY AftpSessionAssumption
        <4>1. Length(Arg) \in 1 .. NameLimit["mode_name"]
          BY <1>1, <3>2, <4>0
        <4> QED
          BY <1>0, <1>1, <2>1, <3>2, <4>1 DEF SessionRec, Shows
      <3> QED
        BY <3>1, <3>2 DEF aftp_set_mode_name
    <2> HIDE DEF n
    <2> QED
      BY <2>1, <2>2, SetterKeeps
  <1>8. CASE a_type
    <2>1. ASSUME NEW t
          PROVE  LET n == set_data_type(t) IN
                 pc = "run" =>
                     /\ n \in SessionRec /\ Shows(n) /\ n.destination = session.destination
                     /\ n.mode_name = session.mode_name /\ n.tp_name = session.tp_name
      <3> DEFINE n == set_data_type(t)
      <3>1. n = session \/ n = [session EXCEPT !.data_type = "ascii"] \/ n = [session EXCEPT !.data_type = "binary"]
        BY DEF set_data_type, aftp_set_data_type
      <3> SUFFICES ASSUME pc = "run"
                   PROVE  /\ n \in SessionRec /\ Shows(n) /\ n.destination = session.destination
                          /\ n.mode_name = session.mode_name /\ n.tp_name = session.tp_name
        OBVIOUS
      <3> HIDE DEF n
      <3>2. CASE n = session
        BY <1>0, <3>2
      <3>3. CASE n = [session EXCEPT !.data_type = "ascii"]
        <4>1. /\ n \in SessionRec /\ n.destination = session.destination
              /\ n.mode_name = session.mode_name /\ n.tp_name = session.tp_name
              /\ n.date_mode = session.date_mode /\ n.record_format = session.record_format
              /\ n.data_type = "ascii"
          BY <1>0, <3>3, WordsThere DEF SessionRec
        <4> QED
          BY <1>0, <4>1 DEF Shows
      <3>4. CASE n = [session EXCEPT !.data_type = "binary"]
        <4>1. /\ n \in SessionRec /\ n.destination = session.destination
              /\ n.mode_name = session.mode_name /\ n.tp_name = session.tp_name
              /\ n.date_mode = session.date_mode /\ n.record_format = session.record_format
              /\ n.data_type = "binary"
          BY <1>0, <3>4, WordsThere DEF SessionRec
        <4> QED
          BY <1>0, <4>1 DEF Shows
      <3> QED
        BY <3>1, <3>2, <3>3, <3>4
    <2>2. CASE Runs({"type"}) /\ Setting(TRUE, set_data_type(Arg))
      <3> DEFINE n == set_data_type(Arg)
      <3>1. pc = "run" /\ Setting(TRUE, n)
        BY <2>2 DEF Runs
      <3>2. /\ n \in SessionRec /\ Shows(n) /\ n.destination = session.destination
            /\ n.mode_name = session.mode_name /\ n.tp_name = session.tp_name
        BY <2>1, <3>1
      <3> HIDE DEF n
      <3> QED
        BY <3>1, <3>2, SetterKeeps
    <2>3. CASE /\ Runs({"asc", "ascii", "bin", "binary"})
               /\ session' = set_data_type(IF line[1] \in {"bin", "binary"} THEN "binary" ELSE "ascii")
               /\ Returns(<<Unchanged, conv, orphans, outages, server, local, cwd>>)
      <3> DEFINE n == set_data_type(IF line[1] \in {"bin", "binary"} THEN "binary" ELSE "ascii")
      <3>1. /\ n \in SessionRec /\ Shows(n) /\ n.destination = session.destination
            /\ n.mode_name = session.mode_name /\ n.tp_name = session.tp_name
        BY <2>1, <2>3 DEF Runs
      <3>2. /\ session' = n /\ pc = "run" /\ pc' = "prompt"
            /\ UNCHANGED <<conv, orphans, outages, connected>>
        BY <2>3 DEF Runs, Returns, Unchanged
      <3> HIDE DEF n
      <3> QED
        BY <3>1, <3>2, SessSet
    <2> QED
      BY <1>8, <2>2, <2>3 DEF a_type
  <1>9. CASE a_recfm
    <2> DEFINE found == IF connected /\ argcnt = 2
                        THEN get_command(Formats, FormatBelow(Arg), Arg \in Range(Formats)) ELSE "none"
               n == aftp_set_record_format(Arg)
    <2>0. pc = "run"
      BY <1>9 DEF a_recfm, Runs
    <2>1. CASE Setting(found = "found", n)
      <3>1. found = "found" => Arg \in Range(Formats)
        BY FoundIsKnown
      <3>2. found = "found" /\ argcnt = 2 =>
              /\ n \in SessionRec /\ Shows(n) /\ n.destination = session.destination
              /\ n.mode_name = session.mode_name /\ n.tp_name = session.tp_name
        <4> HIDE DEF found
        <4> QED
          BY <1>0, <1>1, <2>0, <3>1 DEF SessionRec, Shows, aftp_set_record_format
      <3> DEFINE ok == found = "found"
      <3>3. Setting(ok, n)
        BY <2>1
      <3> HIDE DEF n, found
      <3> QED
        BY <2>0, <3>2, <3>3, SetterKeeps
    <2>2. CASE pc' = "aborted" /\ Stays(<<Unchanged, sessionVars>>)
      BY <2>0, <2>2, SessKept DEF Stays, Unchanged, sessionVars, Over
    <2> QED
      BY <1>9, <2>1, <2>2 DEF a_recfm
  <1>10. CASE a_prompt
    <2>1. UNCHANGED <<session, conv, orphans, outages, connected>> /\ pc = "run" /\ pc' = "prompt"
      BY <1>10 DEF a_prompt, Runs, Returns, sessionVars
    <2> QED
      BY <2>1, SessKept DEF Over
  <1>11. CASE a_lcd
    <2>1. UNCHANGED <<conv, orphans, outages, connected>> /\ pc = "run" /\ pc' = "prompt"
      BY <1>11 DEF a_lcd, Runs, Returns, Unchanged
    <2>2. session' = session \/ (argcnt = 2 /\ session' = [session EXCEPT !.current_directory = Arg])
      BY <1>11 DEF a_lcd
    <2>3. CASE session' = session
      BY <2>1, <2>3, SessKept DEF Over
    <2>4. CASE argcnt = 2 /\ session' = [session EXCEPT !.current_directory = Arg]
      <3> DEFINE n == [session EXCEPT !.current_directory = Arg]
      <3>1. /\ n \in SessionRec /\ Shows(n) /\ n.destination = session.destination
            /\ n.mode_name = session.mode_name /\ n.tp_name = session.tp_name
        BY <1>0, <1>1, <2>1, <2>4 DEF SessionRec, Shows
      <3>2. session' = n
        BY <2>4
      <3> HIDE DEF n
      <3> QED
        BY <2>1, <3>1, <3>2, SessSet
    <2> QED
      BY <2>2, <2>3, <2>4
  <1> QED
    BY <1>2, <1>3, <1>4, <1>5, <1>6, <1>7, <1>8, <1>9, <1>10, <1>11 DEF Setter

\* A call to the server.
LEMMA CallConv ==
    ASSUME SessInv, (conv' = conv /\ outages' = outages) \/
                    (outages < MaxOutages /\ conv' = [conv EXCEPT !.state = "broken"] /\ outages' = outages + 1),
           UNCHANGED <<session, orphans, connected>>, pc \notin Over, pc' \notin Over
    PROVE  SessInv'
  <1> DEFINE c == [conv EXCEPT !.state = "broken"]
  <1>0. outages \in 0 .. MaxOutages /\ MaxOutages \in Nat
    BY AftpSessionAssumption DEF SessInv
  <1>1. pc' # "acopy" /\ outages' \in 0 .. MaxOutages
    BY <1>0 DEF Over
  <1>2. c \in ConvRec /\ c.state = "broken" /\ conv \in ConvRec
    BY DEF SessInv, ConvRec
  <1>3. conv' = conv \/ conv' = c
    OBVIOUS
  <1> HIDE DEF c
  <1>4. CASE conv' = conv
    BY <1>1, <1>2, <1>4, SessConv
  <1>5. CASE conv' = c
    BY <1>1, <1>2, <1>5, SessConv
  <1> QED
    BY <1>3, <1>4, <1>5

LEMMA OpenKeeps ==
    ASSUME SessInv, LineInv, a_open
    PROVE  SessInv'
  <1>0. /\ session \in SessionRec /\ Shows(session) /\ connected \in BOOLEAN /\ conv \in ConvRec
        /\ pc = "run" /\ pc' = "prompt" /\ outages' = outages
    BY DEF SessInv, a_open, Runs, Returns
  <1>1. CASE UNCHANGED <<session, conv, orphans, connected>>
    BY <1>0, <1>1, SessKept DEF Over
  <1>2. CASE ~connected /\ argcnt = 2 /\ session' = aftp_set_destination(Arg)
    <2> DEFINE n == aftp_set_destination(Arg)
    <2>1. Arg \in Words
      BY <1>2, ArgIsWord
    <2>2. n = session \/ n = [session EXCEPT !.destination = Arg, !.symbolic = Arg \notin LuNames]
      BY DEF aftp_set_destination
    <2> HIDE DEF n
    <2>3. n \in SessionRec /\ Shows(n)
      <3>1. CASE n = session
        BY <1>0, <3>1
      <3>2. CASE n = [session EXCEPT !.destination = Arg, !.symbolic = Arg \notin LuNames]
        <4>1. /\ n \in SessionRec /\ n.mode_name = session.mode_name /\ n.tp_name = session.tp_name
              /\ n.date_mode = session.date_mode /\ n.record_format = session.record_format
              /\ n.data_type = session.data_type
          BY <1>0, <2>1, <3>2 DEF SessionRec
        <4> QED
          BY <1>0, <4>1 DEF Shows
      <3> QED
        BY <2>2, <3>1, <3>2
    <2>4. session' = n
      BY <1>2 DEF n
    <2>5. CASE UNCHANGED <<conv, orphans, connected>>
      BY <1>0, <1>2, <2>3, <2>4, <2>5, SessSet
    <2>6. CASE aftp_connect(n) /\ connected' = TRUE
      <3>1. conv.state # "open"
        BY <1>0, <1>2 DEF SessInv, ConnectedTrue
      <3>2. orphans' = 0
        <4>1. orphans' = orphans + 0
          BY <2>6, <3>1 DEF aftp_connect
        <4>2. orphans = 0
          BY DEF SessInv
        <4> QED
          BY <4>1, <4>2
      <3>3. conv' = [state |-> "open", destination |-> n.destination, symbolic |-> n.symbolic,
                     mode_name |-> IF n.symbolic THEN "" ELSE n.mode_name,
                     tp_name |-> IF n.symbolic THEN "" ELSE n.tp_name]
        BY <2>6 DEF aftp_connect
      <3>4. conv' \in ConvRec
        BY <2>3, <3>3, WordsThere DEF ConvRec, SessionRec
      <3>5. conv'.state = "open"
        BY <3>3
      <3>6. Uses(conv', n)
        BY <3>3 DEF Uses
      <3>7. ConnectedTrue'
        BY <1>0, <2>6, <3>5 DEF ConnectedTrue
      <3> QED
        BY <1>0, <2>3, <2>4, <2>6, <3>2, <3>4, <3>6, <3>7 DEF SessInv, Uses
    <2> QED
      BY <1>2, <2>4, <2>5, <2>6 DEF a_open
  <1> QED
    BY <1>1, <1>2 DEF a_open

LEMMA CloseKeeps ==
    ASSUME SessInv, a_close
    PROVE  SessInv'
  <1>0. /\ pc = "run" /\ pc' = "prompt" /\ UNCHANGED <<session, outages, orphans>>
        /\ connected \in BOOLEAN /\ conv \in ConvRec
    BY DEF SessInv, a_close, Runs, Returns
  <1>1. CASE UNCHANGED <<conv, connected>>
    BY <1>0, <1>1, SessKept DEF Over
  <1>2. CASE conv' = NoConv /\ connected' = FALSE
    <2>1. NoConv \in ConvRec /\ NoConv.state = "none"
      BY WordsThere DEF NoConv, ConvRec
    <2>2. Uses(conv', session)
      BY <1>2, <2>1 DEF Uses
    <2>3. ConnectedTrue'
      BY <1>2, <2>1 DEF ConnectedTrue
    <2> QED
      BY <1>0, <1>2, <2>1, <2>2, <2>3 DEF SessInv
  <1> QED
    BY <1>0, <1>1, <1>2 DEF a_close, aftp_close

LEMMA LeaveKeeps ==
    ASSUME SessInv, Quit \/ EndOfInput \/ LineLost
    PROVE  SessInv'
  <1>1. /\ pc \notin Over /\ pc' = "exited" /\ UNCHANGED <<session, outages, orphans, connected>>
        /\ conv' = conv \/ conv' = NoConv
    BY DEF Quit, EndOfInput, LineLost, InputFails, Runs, Stays, Unchanged, aftp_close, Over
  <1>2. NoConv \in ConvRec /\ NoConv.state = "none" /\ conv \in ConvRec /\ outages' \in 0 .. MaxOutages
    BY <1>1, WordsThere DEF NoConv, ConvRec, SessInv
  <1> QED
    BY <1>1, <1>2, SessConv DEF Over

\* Advances goes with a call; so do the commands with one.
LEMMA AsksKeeps ==
    ASSUME SessInv, pc = "run", NEW n, NEW done, Asks(n, done)
    PROVE  SessInv'
  <1>1. UNCHANGED <<session, orphans, connected>> /\ pc' = "prompt"
    BY DEF Asks, Returns, Unchanged
  <1>2. (conv' = conv /\ outages' = outages) \/
        (outages < MaxOutages /\ conv' = [conv EXCEPT !.state = "broken"] /\ outages' = outages + 1)
    BY Zenon DEF Asks, Call
  <1> QED
    BY <1>1, <1>2, CallConv DEF Over

LEMMA ActKeeps ==
    ASSUME SessInv, a_put \/ a_get \/ a_del
    PROVE  SessInv'
  <1>1. UNCHANGED <<session, orphans, connected>> /\ pc = "act" /\ pc' = "ask"
    BY DEF a_put, a_get, a_del, Advances, Stays
  <1>2. (conv' = conv /\ outages' = outages) \/
        (outages < MaxOutages /\ conv' = [conv EXCEPT !.state = "broken"] /\ outages' = outages + 1)
    BY Zenon DEF a_put, a_get, a_del, Call, Unnoticed
  <1> QED
    BY <1>1, <1>2, CallConv DEF Over

LEMMA ListKeeps ==
    ASSUME SessInv, NEW words, ListsServer(words)
    PROVE  SessInv'
  <1>1. UNCHANGED <<session, orphans, connected>> /\ pc = "run" /\ pc' \in {"ask", "prompt"}
    BY Zenon DEF ListsServer, Runs, Stays, StartsList, Returns, Unchanged, sessionVars
  <1>2. (conv' = conv /\ outages' = outages) \/
        (outages < MaxOutages /\ conv' = [conv EXCEPT !.state = "broken"] /\ outages' = outages + 1)
    BY Zenon DEF ListsServer, Stays, Returns, sessionVars
  <1> QED
    BY <1>1, <1>2, CallConv DEF Over

LEMMA RestKeeps ==
    ASSUME SessInv,
           \/ Informs \/ a_status \/ ListsLocal \/ NoList \/ ListEnds \/ Unprompted \/ Frees
           \/ \E l \in Lines, n \in LineLengths : GetInput(l, n)
           \/ \E a \in {"yes", "no", "go", "quit"} : GetAction(a)
           \/ UserLeaves \/ \E n \in Names : OtherUser(n)
    PROVE  SessInv'
  <1>1. UNCHANGED <<session, conv, orphans, outages, connected>>
    BY Zenon DEF Informs, a_status, ListsLocal, NoList, ListEnds, Unprompted, Frees, GetInput, GetAction, UserLeaves,
       OtherUser, OthersChange, Stays, Returns, Unchanged, sessionVars, StartsList
  <1>2. (pc \notin Over /\ pc' # "acopy") \/ pc' = pc
    BY DEF Informs, a_status, ListsLocal, NoList, ListEnds, Unprompted, Frees, GetInput, GetAction, UserLeaves,
       OtherUser, OthersChange, Returns, StartsList, Runs, Over
  <1> QED
    BY <1>1, <1>2, SessKept

LEMMA ClientSession ==
    ASSUME SessInv, LineInv, ClientNext
    PROVE  SessInv'
  <1>1. CASE a_md \/ a_rd \/ a_cd \/ a_ren \/ a_system \/ a_pwd \/ a_ls
    <2>1. pc = "run" /\ \E n, done : Asks(n, done)
      BY <1>1 DEF a_md, a_rd, a_cd, a_ren, a_system, a_pwd, a_ls, Runs
    <2> QED
      BY <2>1, AsksKeeps
  <1> QED
    BY <1>1, SettersKeep, OpenKeeps, CloseKeeps, LeaveKeeps, ActKeeps, ListKeeps, RestKeeps
    DEF ClientNext, Program, Command, User

-----------------------------------------------------------------------------
(***************************************************************************)
(* The line, the files and the lists.                                      *)
(***************************************************************************)
LEMMA ClientLine ==
    ASSUME SessInv, LineInv, ClientNext
    PROVE  LineInv'
  <1> DEFINE PCs == {"prompt", "run", "ask", "act", "free", "exited", "aborted", "acopy"}
  <1>0. pc \in PCs /\ line \in Lines \cup {<<>>} /\ InputFits
    BY DEF LineInv
  <1>1. ASSUME NEW l \in Lines, NEW n \in LineLengths, GetInput(l, n) PROVE LineInv'
    <2>1. n \in Nat
      BY AftpClientAssumption
    <2>2. n <= LineSize(n) /\ n <= WordSize(n)
      BY <2>1, SizesHold
    <2> DEFINE u == [length |-> n, size |-> LineSize(n)]
               w == [length |-> n, size |-> WordSize(n)]
    <2>3. u.length <= u.size /\ w.length <= w.size
      BY <2>2
    <2>4. line_buffer' = <<u, w>> /\ line' = l /\ pc' \in PCs
      BY <1>1 DEF GetInput
    <2> HIDE DEF u, w
    <2>5. InputFits'
      BY <2>3, <2>4 DEF InputFits
    <2> QED
      BY <2>4, <2>5 DEF LineInv
  <1>2. ASSUME line' = <<>>, line_buffer' = <<>>, pc' \in PCs PROVE LineInv'
    BY <1>2 DEF LineInv, InputFits
  <1>3. ASSUME UNCHANGED <<line, line_buffer>>, pc' \in PCs PROVE LineInv'
    BY <1>0, <1>3 DEF LineInv, InputFits
  <1>4. CASE a_status
    <2>1. Shows(session)
      BY <1>4 DEF SessInv, a_status, Runs
    <2>2. NameLimit["mode_name"] \in Nat /\ NameLimit["tp_name"] \in Nat
      BY AftpSessionAssumption
    <2>3. /\ aftp_extract_mode_name /\ aftp_extract_tp_name
          /\ aftp_get_data_type_string /\ aftp_get_date_mode_string /\ aftp_get_record_format_string
      BY <2>1, <2>2 DEF Shows, aftp_extract_mode_name, aftp_extract_tp_name,
         aftp_get_data_type_string, aftp_get_date_mode_string, aftp_get_record_format_string
    <2>4. pc' = "prompt" /\ UNCHANGED <<line, line_buffer>>
      BY <1>4, <2>3 DEF a_status, Stays
    <2> QED
      BY <1>3, <2>4
  <1>5. CASE Informs \/ a_open \/ a_close \/ Setter \/ NoList
    <2>1. (pc' = "prompt" /\ line' = <<>> /\ line_buffer' = <<>>) \/ (pc' = "aborted" /\ UNCHANGED <<line, line_buffer>>)
      BY <1>5, Zenon DEF Informs, a_open, a_close, NoList, Setter, a_alloc, a_block, a_lrecl, a_date, a_tpname, a_modename,
         a_type, a_recfm, a_prompt, a_lcd, Setting, Returns, Stays
    <2> QED
      BY <1>2, <1>3, <2>1
  <1>6. CASE a_md \/ a_rd \/ a_cd \/ a_ren \/ a_system \/ a_pwd \/ a_ls
    <2>1. pc' = "prompt" /\ line' = <<>> /\ line_buffer' = <<>>
      BY <1>6, Zenon DEF a_md, a_rd, a_cd, a_ren, a_system, a_pwd, a_ls, Asks, Returns
    <2> QED
      BY <1>2, <2>1
  <1>7. CASE ListsServer({"del", "delete", "get", "recv", "receive"}) \/ ListsLocal \/ Frees
    <2>1. \/ pc' = "prompt" /\ line' = <<>> /\ line_buffer' = <<>>
          \/ pc' \in {"ask", "aborted"} /\ UNCHANGED <<line, line_buffer>>
      BY <1>7, Zenon DEF ListsServer, ListsLocal, Frees, StartsList, Returns, Stays
    <2> QED
      BY <1>2, <1>3, <2>1
  <1>8. CASE \/ Quit \/ ListEnds \/ Unprompted \/ a_put \/ a_get \/ a_del \/ EndOfInput \/ LineLost
             \/ \E a \in {"yes", "no", "go", "quit"} : GetAction(a)
    <2>1. UNCHANGED <<line, line_buffer>>
      BY <1>8 DEF Quit, ListEnds, Unprompted, a_put, a_get, a_del, EndOfInput, LineLost, InputFails, GetAction, Advances, Stays
    <2>2. pc' \in PCs
      BY <1>8 DEF Quit, ListEnds, Unprompted, a_put, a_get, a_del, EndOfInput, LineLost, InputFails, GetAction, Advances
    <2> QED
      BY <1>3, <2>1, <2>2
  <1>9. CASE UserLeaves \/ \E n \in Names : OtherUser(n)
    BY <1>0, <1>3, <1>9 DEF UserLeaves, OtherUser
  <1> QED
    BY <1>1, <1>4, <1>5, <1>6, <1>7, <1>8, <1>9 DEF ClientNext, Program, Command, User

\* The server and the working directories.
IsServer(s) ==
    /\ s = [dirs |-> s.dirs, cwd |-> s.cwd, files |-> s.files]
    /\ s.dirs \subseteq RemoteDir /\ s.cwd \in s.dirs \cup {""}

FileInv == IsServer(server) /\ cwd \in LocalDir

\* What a request does to the server.
LEMMA ServerKeeps ==
    ASSUME IsServer(server), NEW d, NEW from, NEW to,
           \/ UNCHANGED server
           \/ aftp_create_dir(d) /\ d \in RemoteDir
           \/ aftp_remove_dir(d) \/ aftp_change_dir(d) \/ aftp_rename(from, to) \/ aftp_delete(d)
           \/ aftp_send_file(d, to) \/ aftp_receive_file(d, to) \/ OthersChange(d)
    PROVE  IsServer(server')
  <1> DEFINE D == server.dirs
             C == server.cwd
             F == server.files
  <1>0. server = [dirs |-> D, cwd |-> C, files |-> F] /\ D \subseteq RemoteDir /\ C \in D \cup {""}
    BY DEF IsServer
  <1>1. ASSUME NEW E, NEW B, NEW G, server' = [dirs |-> E, cwd |-> B, files |-> G],
               E \subseteq RemoteDir, B \in E \cup {""}
        PROVE  IsServer(server')
    BY <1>1 DEF IsServer
  <1>2. CASE \E G : server' = [server EXCEPT !.files = G]
    <2>1. PICK G : server' = [server EXCEPT !.files = G]
      BY <1>2
    <2>2. server' = [dirs |-> D, cwd |-> C, files |-> G]
      BY <1>0, <2>1
    <2> QED
      BY <1>0, <1>1, <2>2
  <1>3. CASE aftp_create_dir(d) /\ d \in RemoteDir
    <2> DEFINE G == [server.files EXCEPT ![d] = {}]
               E == D \cup {d}
    <2>1. server' = [dirs |-> E, cwd |-> C, files |-> G]
      BY <1>0, <1>3 DEF aftp_create_dir
    <2>2. E \subseteq RemoteDir /\ C \in E \cup {""}
      BY <1>0, <1>3
    <2> HIDE DEF G, E, C
    <2> QED
      BY <1>1, <2>1, <2>2
  <1>4. CASE aftp_remove_dir(d)
    <2> DEFINE B == IF C = d THEN "" ELSE C
               E == D \ {d}
    <2>1. server' = [dirs |-> E, cwd |-> B, files |-> F]
      BY <1>0, <1>4 DEF aftp_remove_dir
    <2>2. E \subseteq RemoteDir /\ B \in E \cup {""}
      BY <1>0
    <2> HIDE DEF B, E, F
    <2> QED
      BY <1>1, <2>1, <2>2
  <1>5. CASE aftp_change_dir(d)
    <2>1. server' = [dirs |-> D, cwd |-> d, files |-> F] /\ d \in D
      BY <1>0, <1>5 DEF aftp_change_dir
    <2> QED
      BY <1>0, <1>1, <2>1
  <1>6. CASE aftp_rename(from, to)
    BY <1>2, <1>6, Zenon DEF aftp_rename
  <1>7. CASE aftp_delete(d)
    BY <1>2, <1>7, Zenon DEF aftp_delete
  <1>8. CASE aftp_send_file(d, to)
    BY <1>2, <1>8, Zenon DEF aftp_send_file
  <1>9. CASE OthersChange(d)
    BY <1>2, <1>9, Zenon DEF OthersChange
  <1>10. CASE UNCHANGED server \/ aftp_receive_file(d, to)
    BY <1>10 DEF aftp_receive_file
  <1> QED
    BY <1>3, <1>4, <1>5, <1>6, <1>7, <1>8, <1>9, <1>10

LEMMA ClientFiles ==
    ASSUME FileInv, LineInv, ClientNext
    PROVE  FileInv'
  <1>0. IsServer(server) /\ cwd \in LocalDir
    BY DEF FileInv
  <1>1. ASSUME NEW d, NEW from, NEW to, UNCHANGED cwd,
               \/ UNCHANGED server
               \/ aftp_create_dir(d) /\ d \in RemoteDir
               \/ aftp_remove_dir(d) \/ aftp_change_dir(d) \/ aftp_rename(from, to) \/ aftp_delete(d)
               \/ aftp_send_file(d, to) \/ aftp_receive_file(d, to) \/ OthersChange(d)
        PROVE  FileInv'
    <2>1. IsServer(server')
      BY <1>0, <1>1, ServerKeeps
    <2> QED
      BY <1>0, <1>1, <2>1 DEF FileInv, IsServer
  <1>2. ASSUME UNCHANGED <<server, cwd>> PROVE FileInv'
    BY <1>0, <1>2 DEF FileInv, IsServer
  <1>3. CASE a_md
    <2>1. CASE argcnt = 2 /\ aftp_create_dir(Arg)
      <3>1. line \in Lines
        BY <2>1 DEF LineInv, argcnt
      <3>2. Arg \in RemoteDir
        BY <1>3, <2>1, <3>1, LinesAssumption DEF a_md, Runs, argcnt, Arg
      <3>3. UNCHANGED cwd
        BY <1>3 DEF a_md, Asks, Returns
      <3> QED
        BY <1>1, <2>1, <3>2, <3>3
    <2>2. CASE UNCHANGED server
      BY <1>2, <1>3, <2>2 DEF a_md, Asks, Returns
    <2> QED
      BY <1>3, <2>1, <2>2, Zenon DEF a_md, Asks, Call, FilesKept
  <1>4. CASE a_rd \/ a_cd \/ a_ren \/ a_system \/ a_pwd \/ a_ls
    <2>1. UNCHANGED cwd
      BY <1>4 DEF a_rd, a_cd, a_ren, a_system, a_pwd, a_ls, Asks, Returns
    <2>2. aftp_remove_dir(Arg) \/ aftp_change_dir(Arg) \/ aftp_rename(Arg, line[3]) \/ UNCHANGED server
      BY <1>4, Zenon DEF a_rd, a_cd, a_ren, a_system, a_pwd, a_ls, Asks, Call, FilesKept
    <2> QED
      BY <1>1, <2>1, <2>2
  <1>5. CASE a_put \/ a_get \/ a_del
    <2>1. UNCHANGED cwd
      BY <1>5 DEF a_put, a_get, a_del, Advances, Stays
    <2>2. \/ aftp_send_file(filelist[index + 1], filelist[index + 1])
          \/ aftp_receive_file(filelist[index + 1], filelist[index + 1])
          \/ aftp_delete(filelist[index + 1]) \/ UNCHANGED server
      BY <1>5, Zenon DEF a_put, a_get, a_del, Call, Unnoticed, FilesKept, ReceivesNothing
    <2> QED
      BY <1>1, <2>1, <2>2
  <1>6. CASE a_lcd
    <2>1. UNCHANGED server /\ cwd' \in LocalDir
      BY <1>0, <1>6 DEF a_lcd, Returns
    <2> QED
      BY <1>0, <2>1 DEF FileInv, IsServer
  <1>7. ASSUME NEW n \in Names, OtherUser(n) PROVE FileInv'
    <2>1. OthersChange(n) /\ UNCHANGED cwd
      BY <1>7 DEF OtherUser, OthersChange
    <2> QED
      BY <1>1, <2>1
  <1>8. CASE \/ Informs \/ Quit \/ a_open \/ a_close \/ a_status \/ ListsLocal \/ NoList
             \/ ListsServer({"del", "delete", "get", "recv", "receive"})
             \/ ListEnds \/ Unprompted \/ Frees \/ EndOfInput \/ LineLost
             \/ \E l \in Lines, n \in LineLengths : GetInput(l, n)
             \/ \E a \in {"yes", "no", "go", "quit"} : GetAction(a)
             \/ UserLeaves
    <2>1. UNCHANGED <<server, cwd>>
      BY <1>8, Zenon DEF Informs, Quit, a_open, a_close, a_status, ListsLocal, NoList, ListsServer, ListEnds, Unprompted,
         Frees, EndOfInput, LineLost, InputFails, GetInput, GetAction, UserLeaves, Stays, Returns, sessionVars
    <2> QED
      BY <1>2, <2>1
  <1>9. CASE a_alloc \/ a_block \/ a_lrecl \/ a_date \/ a_tpname \/ a_modename \/ a_type \/ a_recfm \/ a_prompt
    <2>1. UNCHANGED <<server, cwd>>
      BY <1>9, Zenon DEF a_alloc, a_block, a_lrecl, a_date, a_tpname, a_modename, a_type, a_recfm, a_prompt, Setting,
         Stays, Returns, sessionVars
    <2> QED
      BY <1>2, <2>1
  <1> QED
    BY <1>3, <1>4, <1>5, <1>6, <1>7, <1>8, <1>9 DEF ClientNext, Program, Command, User, Setter

\* Every element before the current one was tried or passed over, and the
\* user was asked if he wants to be.
ListInv ==
    /\ filelist \in Seq(Names) /\ tried \in Seq(Names) /\ listed \in Seq(Names)
    /\ index \in Nat /\ skipped \in Nat /\ index <= Len(filelist)
    /\ Len(filelist) = Len(listed) /\ Len(tried) + skipped = index
    /\ skipped = 0 => \A i \in 1 .. Len(tried) : tried[i] = filelist[i]
    /\ consent \in {"none", "yes", "go", "no", "quit"}
    /\ prompting \in BOOLEAN /\ prompt_user \in BOOLEAN
    /\ pc = "free" /\ consent # "quit" => index = Len(filelist)
    /\ pc = "ask" /\ prompting => prompt_user \/ consent = "go"
    /\ pc = "act" /\ prompting => (consent = "yes" /\ prompt_user) \/ consent = "go"

listAll == <<filelist, index, prompt_user, listed, tried, consent, skipped>>

LEMMA ListKept ==
    ASSUME ListInv, UNCHANGED listAll, prompting' \in BOOLEAN, pc' \notin {"free", "ask", "act"}
    PROVE  ListInv'
  BY DEF ListInv, listAll

LEMMA ListStarted ==
    ASSUME ListInv, NEW list \in Seq(Names), NEW source \in Seq(Names), Len(list) = Len(source),
           StartsList(list, source), UNCHANGED prompting
    PROVE  ListInv'
  <1>1. <<>> \in Seq(Names) /\ Len(<<>>) = 0
    OBVIOUS
  <1> QED
    BY <1>1 DEF ListInv, StartsList

LEMMA AliasedType ==
    ASSUME NEW s \in Seq(Names)
    PROVE  Aliased(s) \in Seq(Names) /\ Len(Aliased(s)) = Len(s)
  <1>1. Len(s) \in Nat /\ \A i \in 1 .. Len(s) : Last(s) \in Names
    BY DEF Last
  <1> DEFINE n == Len(s)
             v == Last(s)
  <1>2. n \in Nat /\ (\A i \in 1 .. n : v \in Names) /\ Aliased(s) = [i \in 1 .. n |-> v]
    BY <1>1 DEF Aliased
  <1> HIDE DEF n, v
  <1>3. [i \in 1 .. n |-> v] \in Seq(Names) /\ Len([i \in 1 .. n |-> v]) = n
    BY <1>2
  <1> QED
    BY <1>2, <1>3 DEF n

\* One element is acted upon.
LEMMA ListAdvances ==
    ASSUME ListInv, Advances
    PROVE  ListInv'
  <1> DEFINE x == filelist[index + 1]
  <1>0. /\ filelist \in Seq(Names) /\ tried \in Seq(Names) /\ index \in Nat /\ skipped \in Nat
        /\ index < Len(filelist) /\ Len(tried) + skipped = index
    BY DEF ListInv, Advances, AtEnd
  <1>1. x \in Names /\ index + 1 \in 1 .. Len(filelist)
    BY <1>0
  <1>2. /\ pc = "act" /\ pc' = "ask" /\ index' = index + 1 /\ tried' = Append(tried, x)
        /\ consent' = IF consent = "yes" THEN "none" ELSE consent
        /\ UNCHANGED <<filelist, prompt_user, prompting, listed, skipped>>
    BY DEF Advances, Stays
  <1>3. skipped = 0 => x = filelist[Len(tried) + 1]
    BY <1>0
  <1> HIDE DEF x
  <1>4. /\ tried' \in Seq(Names) /\ Len(tried') = Len(tried) + 1 /\ tried'[Len(tried) + 1] = x
        /\ \A i \in 1 .. Len(tried) : tried'[i] = tried[i]
    BY <1>0, <1>1, <1>2, AppendProperties
  <1>5. Len(tried) \in Nat /\ Len(filelist) \in Nat
    BY <1>0
  <1>6. skipped' = 0 => \A i \in 1 .. Len(tried') : tried'[i] = filelist'[i]
    BY <1>2, <1>3, <1>4, <1>5 DEF ListInv
  <1> DEFINE t == Len(tried)
             f == Len(filelist)
  <1>7. index' = index + 1 /\ skipped' = skipped /\ Len(tried') = t + 1 /\ Len(filelist') = f
    BY <1>2, <1>4
  <1>8. index \in Nat /\ skipped \in Nat /\ t \in Nat /\ f \in Nat /\ index < f /\ t + skipped = index
    BY <1>0, <1>5
  <1> HIDE DEF t, f
  <1>9. index' <= Len(filelist') /\ Len(tried') + skipped' = index' /\ index' \in Nat
    BY <1>7, <1>8
  <1>10. /\ consent' \in {"none", "yes", "go", "no", "quit"}
         /\ pc' = "ask" /\ prompting' => prompt_user' \/ consent' = "go"
    BY <1>2 DEF ListInv
  <1> QED
    BY <1>2, <1>4, <1>6, <1>9, <1>10 DEF ListInv

LEMMA ListAnswered ==
    ASSUME ListInv, NEW a \in {"yes", "no", "go", "quit"}, GetAction(a)
    PROVE  ListInv'
  <1>1. /\ index \in Nat /\ skipped \in Nat /\ index < Len(filelist) /\ Len(filelist) \in Nat
        /\ Len(tried) \in Nat /\ Len(tried) + skipped = index
    BY DEF ListInv, GetAction, AtEnd
  <1>2. /\ pc = "ask" /\ consent' = a /\ prompt_user' = (a # "go")
        /\ a \in {"yes", "go"} => pc' = "act"
        /\ a = "no" => pc' = "ask"
        /\ a = "quit" => pc' = "free"
        /\ UNCHANGED <<filelist, listed, tried, prompting>>
    BY DEF GetAction, Stays
  <1>3. \/ index' = index + 1 /\ skipped' = skipped + 1
        \/ index' = index + 0 /\ skipped' = skipped + 0
    BY DEF GetAction
  <1>4. /\ index' \in Nat /\ skipped' \in Nat /\ index' <= Len(filelist') /\ Len(tried') + skipped' = index'
        /\ skipped' = 0 => skipped = 0
    BY <1>1, <1>2, <1>3
  <1>5. skipped' = 0 => \A i \in 1 .. Len(tried') : tried'[i] = filelist'[i]
    BY <1>2, <1>4 DEF ListInv
  <1> QED
    BY <1>2, <1>4, <1>5 DEF ListInv

LEMMA ClientLists ==
    ASSUME ListInv, LineInv, ClientNext
    PROVE  ListInv'
  <1>0. prompting \in BOOLEAN
    BY DEF ListInv
  <1>1. CASE ListsServer({"del", "delete", "get", "recv", "receive"})
    <2> DEFINE entries == Listing(Matches(Arg))
    <2>1. entries \in Seq(Names)
      BY InOrderType DEF Listing
    <2> HIDE DEF entries
    <2>2. CASE StartsList(Aliased(entries), entries) /\ UNCHANGED prompting
      BY <2>1, <2>2, AliasedType, ListStarted
    <2>3. ASSUME NEW k \in 0 .. Len(entries), UNCHANGED prompting,
                 StartsList(Aliased(SubSeq(entries, 1, k)), SubSeq(entries, 1, k))
          PROVE  ListInv'
      <3>1. SubSeq(entries, 1, k) \in Seq(Names)
        BY <2>1
      <3> QED
        BY <2>3, <3>1, AliasedType, ListStarted
    <2>4. CASE Returns(<<Unchanged, sessionVars>>)
      BY <1>0, <2>4, ListKept DEF Returns, Unchanged, listAll, listVars, history
    <2> QED
      BY <1>1, <2>2, <2>3, <2>4 DEF ListsServer, Stays, entries
  <1>2. CASE ListsLocal
    <2> DEFINE entries == InOrder(Matches(Arg) \cap local[DirOf(Arg)])
    <2>1. entries \in Seq(Names)
      BY InOrderType
    <2> HIDE DEF entries
    <2>2. CASE StartsList(entries, entries) /\ UNCHANGED prompting
      BY <2>1, <2>2, ListStarted
    <2>3. CASE Returns(<<Unchanged, sessionVars>>)
      BY <1>0, <2>3, ListKept DEF Returns, Unchanged, listAll, listVars, history
    <2>4. CASE pc' = "aborted" /\ Stays(<<Unchanged, sessionVars>>)
      BY <1>0, <2>4, ListKept DEF Stays, Unchanged, listAll, listVars, history
    <2> QED
      BY <1>2, <2>2, <2>3, <2>4 DEF ListsLocal, Stays, entries
  <1>3. CASE ListEnds \/ Unprompted
    <2>1. UNCHANGED listAll /\ UNCHANGED prompting /\ pc = "ask"
      BY <1>3 DEF ListEnds, Unprompted, Stays, listAll, listVars, history
    <2>2. (pc' = "free" /\ index = Len(filelist)) \/ (pc' = "act" /\ ~prompt_user)
      BY <1>3 DEF ListEnds, Unprompted, AtEnd
    <2> QED
      BY <2>1, <2>2 DEF ListInv, listAll
  <1>4. CASE Frees
    <2>1. CASE pc' = "aborted"
      BY <1>0, <1>4, <2>1, ListKept DEF Frees, Stays, Returns, listAll, listVars, history
    <2>2. CASE pc' = "prompt"
      <3>1. /\ filelist' = <<>> /\ index' = 0 /\ prompt_user' = FALSE
            /\ listed' = <<>> /\ tried' = <<>> /\ consent' = "none" /\ skipped' = 0 /\ UNCHANGED prompting
        BY <1>4, <2>2 DEF Frees, Returns
      <3>2. <<>> \in Seq(Names) /\ Len(<<>>) = 0
        OBVIOUS
      <3>3. /\ filelist' \in Seq(Names) /\ tried' \in Seq(Names) /\ listed' \in Seq(Names)
            /\ Len(filelist') = 0 /\ Len(tried') = 0 /\ Len(listed') = 0
        BY <3>1, <3>2
      <3>4. \A i \in 1 .. Len(tried') : tried'[i] = filelist'[i]
        BY <3>3
      <3>5. /\ index' = 0 /\ skipped' = 0 /\ consent' = "none" /\ prompt_user' \in BOOLEAN /\ prompting' \in BOOLEAN
            /\ pc' \notin {"free", "ask", "act"}
        BY <1>0, <2>2, <3>1
      <3> QED
        BY <3>3, <3>4, <3>5 DEF ListInv
    <2> QED
      BY <1>4, <2>1, <2>2 DEF Frees, Returns
  <1>5. CASE a_put \/ a_get \/ a_del
    BY <1>5, ListAdvances DEF a_put, a_get, a_del
  <1>6. CASE \/ Informs \/ Quit \/ a_open \/ a_close \/ a_status \/ NoList \/ EndOfInput \/ LineLost
             \/ \E l \in Lines, n \in LineLengths : GetInput(l, n)
    <2>1. UNCHANGED <<listAll, prompting>>
      BY <1>6, Zenon DEF Informs, Quit, a_open, a_close, a_status, NoList, EndOfInput, LineLost, InputFails, GetInput, Stays, Returns, Unchanged,
         listAll, listVars, history
    <2>2. pc' \in {"prompt", "run", "exited", "aborted", "fatal"}
      BY <1>6 DEF Informs, Quit, a_open, a_close, a_status, NoList, EndOfInput, LineLost, InputFails, GetInput, Returns
    <2> QED
      BY <1>0, <2>1, <2>2, ListKept
  <1>7. CASE Setter
    <2>1. UNCHANGED listAll
      BY <1>7, Zenon DEF Setter, a_alloc, a_block, a_lrecl, a_date, a_tpname, a_modename, a_type, a_recfm, a_prompt, a_lcd,
         Setting, Stays, Returns, Unchanged, listAll, listVars, history
    <2>2. pc' \in {"prompt", "aborted"}
      BY <1>7, Zenon DEF Setter, a_alloc, a_block, a_lrecl, a_date, a_tpname, a_modename, a_type, a_recfm, a_prompt, a_lcd,
         Setting, Returns
    <2>3. UNCHANGED prompting \/ prompting' = (Arg = "on")
      BY <1>7, Zenon DEF Setter, a_alloc, a_block, a_lrecl, a_date, a_tpname, a_modename, a_type, a_recfm, a_prompt, a_lcd,
         Setting, Stays, Returns, Unchanged
    <2> QED
      BY <1>0, <2>1, <2>2, <2>3, ListKept
  <1>8. CASE a_md \/ a_rd \/ a_cd \/ a_ren \/ a_system \/ a_pwd \/ a_ls
    <2>1. UNCHANGED <<listAll, prompting>> /\ pc' = "prompt"
      BY <1>8, Zenon DEF a_md, a_rd, a_cd, a_ren, a_system, a_pwd, a_ls, Asks, Returns, Unchanged,
         listAll, listVars, history
    <2> QED
      BY <1>0, <2>1, ListKept
  <1>9. CASE UserLeaves \/ \E n \in Names : OtherUser(n)
    <2>1. UNCHANGED <<listAll, prompting, pc>>
      BY <1>9 DEF UserLeaves, OtherUser, listAll, listVars, history
    <2> QED
      BY <2>1 DEF ListInv, listAll
  <1> QED
    BY <1>1, <1>2, <1>3, <1>4, <1>5, <1>6, <1>7, <1>8, <1>9, ListAnswered DEF ClientNext, Program, Command, User

-----------------------------------------------------------------------------
(***************************************************************************)
(* acopy.                                                                  *)
(***************************************************************************)
\* What process_arguments may make of the command line
OptionsRec ==
    [destination : Destinations, mode_name : ModeNames, tp_name : TpNames,
     data_type : {"ascii", "ebcdic", "other"}, sending : BOOLEAN, source : Names, target : Names]

\* acopy has no conversation before it connects, comes to aftp_close with a
\* file to send only if aftpd answered it, and after an outage its
\* conversation stays broken, so that it cannot close it.
AcopyInv ==
    /\ step \in {"arguments", "connect", "transfer", "close", "ended"}
    /\ exit_status \in 0 .. 2 /\ (exit_status = 2 <=> step # "ended")
    /\ pc # "acopy" => step = "arguments"
    /\ pc = "acopy" /\ step \in {"arguments", "connect"} => conv.state = "none"
    /\ step # "arguments" => options \in OptionsRec
    /\ step = "close" /\ options.sending => result \in {"copied", "refused"}
    /\ pc = "acopy" => outages = 0 \/ conv.state = "broken"
    /\ OptionsUsed /\ ExitTold

\* While acopy runs, only the other user of the server takes steps of the
\* other program's module, and aftp does not become acopy.
LEMMA ClientNotAcopy ==
    ASSUME LineInv, ClientNext
    PROVE  /\ pc = "acopy" => UNCHANGED <<pc, conv, outages>>
           /\ pc # "acopy" => pc' # "acopy"
  <1>1. ASSUME Command PROVE pc = "run" /\ pc' \in {"prompt", "ask", "exited", "aborted", "fatal"}
    <2>1. pc = "run"
      BY <1>1 DEF Command, Setter, Informs, Quit, a_open, a_close, a_status, a_md, a_rd, a_cd, a_ren, a_system, a_pwd,
         a_ls, ListsServer, ListsLocal, NoList, a_alloc, a_block, a_lrecl, a_date, a_tpname, a_modename, a_type,
         a_recfm, a_prompt, a_lcd, Runs
    <2>2. Setter => pc' \in {"prompt", "aborted"}
      BY Zenon DEF Setter, a_alloc, a_block, a_lrecl, a_date, a_tpname, a_modename, a_type, a_recfm, a_prompt, a_lcd,
         Setting, Returns
    <2>3. a_md \/ a_rd \/ a_cd \/ a_ren \/ a_system \/ a_pwd \/ a_ls => pc' = "prompt"
      BY Zenon DEF a_md, a_rd, a_cd, a_ren, a_system, a_pwd, a_ls, Asks, Returns
    <2>4. Informs \/ Quit \/ a_open \/ a_close \/ a_status \/ NoList => pc' \in {"prompt", "exited", "fatal"}
      BY DEF Informs, Quit, a_open, a_close, a_status, NoList, Returns
    <2>5. ListsServer({"del", "delete", "get", "recv", "receive"}) \/ ListsLocal => pc' \in {"ask", "prompt", "aborted"}
      BY Zenon DEF ListsServer, ListsLocal, StartsList, Returns
    <2> QED
      BY <1>1, <2>1, <2>2, <2>3, <2>4, <2>5 DEF Command
  <1>2. ASSUME ListEnds \/ Unprompted \/ a_put \/ a_get \/ a_del \/ Frees \/ EndOfInput
        PROVE  pc # "acopy" /\ pc' # "acopy"
    BY <1>2 DEF ListEnds, Unprompted, a_put, a_get, a_del, Advances, Frees, EndOfInput, InputFails, Returns
  <1>3. ASSUME User PROVE pc # "acopy" /\ pc' # "acopy"
    BY <1>3 DEF User, GetInput, GetAction, UserLeaves, LineLost, InputFails
  <1>4. ASSUME NEW n \in Names, OtherUser(n) PROVE UNCHANGED <<pc, conv, outages>>
    BY <1>4 DEF OtherUser, OthersChange
  <1> QED
    BY <1>1, <1>2, <1>3, <1>4 DEF ClientNext, Program

LEMMA ClientAcopy ==
    ASSUME AcopyInv, LineInv, ClientNext, UNCHANGED acopyVars
    PROVE  AcopyInv'
  <1>1. /\ pc = "acopy" => UNCHANGED <<pc, conv, outages>>
        /\ pc # "acopy" => pc' # "acopy"
    BY ClientNotAcopy
  <1>2. UNCHANGED <<step, options, exit_status, result>>
    BY DEF acopyVars
  <1>3. CASE pc = "acopy"
    BY <1>1, <1>2, <1>3 DEF AcopyInv, OptionsUsed, ExitTold
  <1>4. CASE pc # "acopy"
    BY <1>1, <1>2, <1>4 DEF AcopyInv, OptionsUsed, ExitTold
  <1> QED
    BY <1>3, <1>4

LEMMA ArgumentsKeep ==
    ASSUME SessInv, AcopyInv, pc = "acopy", UNCHANGED clientVars,
           NEW d \in Destinations, NEW m \in ModeNames, NEW t \in TpNames,
           NEW y \in {"ascii", "ebcdic", "other"}, NEW sending \in BOOLEAN, NEW from \in Names, NEW to \in Names,
           ProcessArguments(d, m, t, y, sending, from, to)
    PROVE  SessInv' /\ AcopyInv'
  <1>1. UNCHANGED <<pc, connected, session, conv, orphans, outages, result>>
    BY DEF clientVars, ProcessArguments, sessionVars
  <1>2. SessInv'
    BY <1>1, SessKept
  <1>3. options' \in OptionsRec
    BY DEF ProcessArguments, OptionsRec
  <1>4. /\ step = "arguments" /\ exit_status = 2 /\ conv.state = "none"
        /\ (step' = "connect" /\ exit_status' = 2) \/ (step' = "ended" /\ exit_status' = 1)
    BY DEF ProcessArguments, AcopyInv, Ends
  <1>5. AcopyInv'
    BY <1>1, <1>3, <1>4 DEF AcopyInv, OptionsUsed, ExitTold
  <1> QED
    BY <1>2, <1>5

LEMMA ConnectsKeeps ==
    ASSUME SessInv, AcopyInv, pc = "acopy", UNCHANGED clientVars, Connects
    PROVE  SessInv' /\ AcopyInv'
  <1>0. /\ UNCHANGED <<pc, connected, options, result, outages>> /\ step = "connect"
        /\ exit_status = 2 /\ conv.state = "none" /\ options \in OptionsRec
    BY DEF clientVars, Connects, AcopyInv
  <1>1. CASE step' = "ended"
    <2>1. UNCHANGED <<session, conv, orphans>> /\ exit_status' = 1
      BY <1>1 DEF Connects, Ends
    <2>2. SessInv'
      BY <1>0, <2>1, SessKept
    <2>3. AcopyInv'
      <3>1. pc' = "acopy" /\ options' \in OptionsRec /\ conv'.state = "none"
        BY <1>0, <2>1
      <3>2. outages' = 0
        BY <1>0 DEF AcopyInv
      <3>3. OptionsUsed' /\ ExitTold'
        BY <2>1, <3>1 DEF OptionsUsed, ExitTold
      <3> QED
        BY <1>1, <2>1, <3>1, <3>2, <3>3 DEF AcopyInv
    <2> QED
      BY <2>2, <2>3
  <1>2. CASE step' = "transfer"
    <2> DEFINE s == aftp_set_destination(options.destination)
               n == [s EXCEPT !.mode_name = IF options.mode_name = "" THEN @ ELSE options.mode_name,
                              !.tp_name = IF options.tp_name = "" THEN @ ELSE options.tp_name]
    <2>1. session' = [n EXCEPT !.data_type = options.data_type] /\ aftp_connect(n) /\ exit_status' = 2
      BY <1>0, <1>2 DEF Connects, Ends
    <2>2. /\ options.destination \in Words /\ options.mode_name \in Words /\ options.tp_name \in Words
          /\ options.data_type \in Words
      BY <1>0, WordsThere DEF OptionsRec
    <2>3. s \in SessionRec
      BY <2>2 DEF SessInv, SessionRec, aftp_set_destination
    <2> HIDE DEF s
    <2>4. /\ n \in SessionRec
          /\ options.mode_name \in {"", n.mode_name} /\ options.tp_name \in {"", n.tp_name}
      BY <2>2, <2>3 DEF SessionRec
    <2> HIDE DEF n
    <2>5. /\ session' \in SessionRec /\ session'.destination = n.destination
          /\ session'.mode_name = n.mode_name /\ session'.tp_name = n.tp_name
      BY <2>1, <2>2, <2>4 DEF SessionRec
    <2>6. n.destination \in Words /\ n.symbolic \in BOOLEAN /\ n.mode_name \in Words /\ n.tp_name \in Words
      BY <2>4 DEF SessionRec
    <2>7. /\ conv' \in ConvRec /\ conv'.state = "open" /\ conv'.symbolic = n.symbolic
          /\ conv'.destination = n.destination
          /\ ~n.symbolic => conv'.mode_name = n.mode_name /\ conv'.tp_name = n.tp_name
          /\ orphans' = 0
      <3>1. conv' = [state |-> "open", destination |-> n.destination, symbolic |-> n.symbolic,
                     mode_name |-> IF n.symbolic THEN "" ELSE n.mode_name,
                     tp_name |-> IF n.symbolic THEN "" ELSE n.tp_name]
        BY <2>1 DEF aftp_connect
      <3>2. orphans' = orphans + 0 /\ orphans = 0
        BY <1>0, <2>1 DEF aftp_connect, SessInv
      <3>3. conv' \in ConvRec
        BY <2>6, <3>1, WordsThere DEF ConvRec
      <3>4. conv'.state = "open" /\ conv'.symbolic = n.symbolic /\ conv'.destination = n.destination
        BY <3>1
      <3>5. ASSUME ~n.symbolic PROVE conv'.mode_name = n.mode_name /\ conv'.tp_name = n.tp_name
        BY <3>1, <3>5
      <3>6. orphans' = 0
        BY <3>2
      <3> QED
        BY <3>3, <3>4, <3>5, <3>6
    <2>8. SessInv'
      BY <1>0, <2>5, <2>7 DEF SessInv, Uses, ConnectedTrue
    <2>9. OptionsUsed'
      BY <1>0, <2>4, <2>7 DEF OptionsUsed
    <2> QED
      BY <1>0, <1>2, <2>1, <2>8, <2>9 DEF AcopyInv, ExitTold
  <1> QED
    BY <1>1, <1>2 DEF Connects, Ends

LEMMA TransfersKeeps ==
    ASSUME SessInv, AcopyInv, pc = "acopy", UNCHANGED clientVars, Transfers
    PROVE  SessInv' /\ AcopyInv'
  <1>0. /\ UNCHANGED <<pc, connected, options, session, orphans>> /\ step = "transfer"
        /\ exit_status = 2 /\ options \in OptionsRec
    BY DEF clientVars, Transfers, AcopyInv
  <1>1. \/ conv' = conv /\ outages' = outages
        \/ outages < MaxOutages /\ conv' = [conv EXCEPT !.state = "broken"] /\ outages' = outages + 1
    BY Zenon DEF Transfers, Receives, Call, Unnoticed
  <1>2. \/ step' = "close" /\ result' \in {"copied", "refused"} /\ UNCHANGED exit_status
        \/ step' = "close" /\ ~options.sending /\ UNCHANGED exit_status
        \/ step' = "ended" /\ exit_status' = 1
    BY Zenon DEF Transfers, Receives, Call, Unnoticed, Goes, Ends
  <1> DEFINE c == [conv EXCEPT !.state = "broken"]
  <1>3. /\ conv' \in ConvRec /\ outages' \in 0 .. MaxOutages
        /\ conv' = conv \/ conv'.state = "broken"
    <2>1. outages \in 0 .. MaxOutages /\ MaxOutages \in Nat
      BY AftpSessionAssumption DEF SessInv
    <2>2. outages' \in 0 .. MaxOutages
      BY <1>1, <2>1
    <2>3. c \in ConvRec /\ c.state = "broken" /\ conv \in ConvRec
      BY DEF SessInv, ConvRec
    <2>4. conv' = conv \/ conv' = c
      BY <1>1
    <2> HIDE DEF c
    <2> QED
      BY <2>2, <2>3, <2>4
  <1>4. SessInv'
    BY <1>0, <1>3 DEF SessInv, Uses, ConnectedTrue
  <1>5. OptionsUsed'
    BY <1>0, <1>3 DEF AcopyInv, OptionsUsed
  <1>6. outages' = 0 \/ conv'.state = "broken"
    <2>1. CASE conv' = conv /\ outages' = outages
      BY <2>1 DEF AcopyInv
    <2>2. CASE conv' = c
      <3>1. c.state = "broken"
        BY DEF SessInv, ConvRec
      <3> HIDE DEF c
      <3> QED
        BY <2>2, <3>1
    <2> QED
      BY <1>1, <2>1, <2>2
  <1> QED
    BY <1>0, <1>2, <1>4, <1>5, <1>6 DEF AcopyInv, ExitTold

LEMMA ClosesKeeps ==
    ASSUME SessInv, AcopyInv, pc = "acopy", UNCHANGED clientVars, Closes
    PROVE  SessInv' /\ AcopyInv'
  <1>0. /\ UNCHANGED <<pc, connected, options, session, orphans, outages, result>> /\ step = "close"
        /\ options \in OptionsRec /\ step' = "ended" /\ exit_status' \in {0, 1}
        /\ conv' = conv \/ conv' = NoConv
        /\ exit_status' = 0 => conv.state = "open"
        /\ conv.state # "open" => conv' = conv
    BY DEF clientVars, Closes, AcopyInv, aftp_close, Ends
  <1>1. NoConv \in ConvRec /\ NoConv.state = "none"
    BY WordsThere DEF NoConv, ConvRec
  <1>2. conv' \in ConvRec /\ (conv' = conv \/ conv'.state = "none")
    BY <1>0, <1>1 DEF SessInv
  <1>3. SessInv'
    BY <1>0, <1>2 DEF SessInv, Uses, ConnectedTrue
  <1>4. OptionsUsed'
    BY <1>0, <1>2 DEF AcopyInv, OptionsUsed
  <1> QED
    BY <1>0, <1>3, <1>4 DEF AcopyInv, ExitTold

\* acopy touches the server's files like the other program, and nothing of
\* what belongs to that one.
LEMMA AcopyRest ==
    ASSUME LineInv, FileInv, ListInv, UNCHANGED <<clientVars, history>>,
           \/ \E d, m, t, y, sending, from, to : ProcessArguments(d, m, t, y, sending, from, to)
           \/ AcopyStep
    PROVE  LineInv' /\ FileInv' /\ ListInv'
  <1>1. UNCHANGED <<pc, line, line_buffer, listAll, prompting>>
    BY DEF clientVars, listVars, history, listAll
  <1>2. UNCHANGED cwd
    BY DEF ProcessArguments, AcopyStep, Connects, Transfers, Closes, sessionVars
  <1>3. \/ aftp_send_file(options.source, options.target)
        \/ aftp_receive_file(options.source, options.target) \/ UNCHANGED server
    BY Zenon DEF ProcessArguments, AcopyStep, Connects, Transfers, Closes, sessionVars, Call, Unnoticed, FilesKept,
       Sends, Receives, ReceivesNothing
  <1>4. IsServer(server')
    BY <1>3, ServerKeeps DEF FileInv
  <1>5. FileInv'
    BY <1>2, <1>4 DEF FileInv, IsServer
  <1>6. LineInv'
    BY <1>1 DEF LineInv, InputFits
  <1>7. ListInv'
    BY <1>1 DEF ListInv, listAll
  <1> QED
    BY <1>5, <1>6, <1>7

-----------------------------------------------------------------------------
(***************************************************************************)
(* The inductive invariant and the theorems.                               *)
(***************************************************************************)
Inv == SessInv /\ LineInv /\ FileInv /\ ListInv /\ AcopyInv

LEMMA InvInit == Init => Inv
  <1> SUFFICES ASSUME Init PROVE Inv
    OBVIOUS
  <1> USE DEF Init, SessionInit, ClientInit, AcopyInit
  <1>1. Created \in SessionRec /\ NoConv \in ConvRec /\ NoConv.state = "none"
    BY WordsThere DEF Created, SessionRec, NoConv, ConvRec
  <1>2. Shows(Created)
    <2>1. "0" \in Range(Formats)
      <3>1. 1 \in DOMAIN Formats /\ Formats[1] = "0"
        BY DEF Formats
      <3> QED
        BY <3>1, Zenon DEF Range
    <2> QED
      BY <2>1, NamesAssumption DEF Shows, Created
  <1>3. SessInv
    <2>1. outages \in 0 .. MaxOutages
      <3>1. outages = 0 /\ MaxOutages \in Nat
        BY AftpSessionAssumption
      <3> QED
        BY ONLY <3>1
    <2>2. conv.state = "none" /\ conv \in ConvRec /\ session \in SessionRec /\ Shows(session)
      BY <1>1, <1>2
    <2> QED
      BY <2>1, <2>2 DEF SessInv, ConnectedTrue, Uses
  <1>4. LineInv
    BY DEF LineInv, InputFits
  <1>5. FileInv
    BY AftpSessionAssumption DEF FileInv, IsServer
  <1>6. ListInv
    <2>1. <<>> \in Seq(Names) /\ Len(<<>>) = 0
      OBVIOUS
    <2>2. /\ filelist \in Seq(Names) /\ tried \in Seq(Names) /\ listed \in Seq(Names)
          /\ Len(filelist) = 0 /\ Len(tried) = 0 /\ Len(listed) = 0
      BY <2>1
    <2>3. \A i \in 1 .. Len(tried) : tried[i] = filelist[i]
      BY <2>2
    <2>4. /\ index = 0 /\ skipped = 0 /\ consent = "none" /\ prompt_user \in BOOLEAN /\ prompting \in BOOLEAN
          /\ pc \notin {"free", "ask", "act"}
      OBVIOUS
    <2> QED
      BY <2>2, <2>3, <2>4 DEF ListInv
  <1>7. AcopyInv
    BY <1>1 DEF AcopyInv, OptionsUsed, ExitTold
  <1> QED
    BY <1>3, <1>4, <1>5, <1>6, <1>7 DEF Inv

LEMMA InvNext == Inv /\ [Next]_allVars => Inv'
  <1> SUFFICES ASSUME SessInv, LineInv, FileInv, ListInv, AcopyInv, [Next]_allVars
               PROVE  SessInv' /\ LineInv' /\ FileInv' /\ ListInv' /\ AcopyInv'
    BY DEF Inv
  <1>1. CASE ClientNext /\ UNCHANGED acopyVars
    BY <1>1, ClientSession, ClientLine, ClientFiles, ClientLists, ClientAcopy
  <1>2. ASSUME pc = "acopy", UNCHANGED <<clientVars, history>>,
               NEW d \in Destinations, NEW m \in ModeNames, NEW t \in TpNames,
               NEW y \in {"ascii", "ebcdic", "other"}, NEW sending \in BOOLEAN, NEW from \in Names, NEW to \in Names,
               ProcessArguments(d, m, t, y, sending, from, to)
        PROVE  SessInv' /\ LineInv' /\ FileInv' /\ ListInv' /\ AcopyInv'
    <2>1. SessInv' /\ AcopyInv'
      BY <1>2, ArgumentsKeep
    <2>2. LineInv' /\ FileInv' /\ ListInv'
      BY <1>2, AcopyRest
    <2> QED
      BY <2>1, <2>2
  <1>3. CASE pc = "acopy" /\ UNCHANGED <<clientVars, history>> /\ AcopyStep
    <2>1. SessInv' /\ AcopyInv'
      BY <1>3, ConnectsKeeps, TransfersKeeps, ClosesKeeps DEF AcopyStep
    <2>2. LineInv' /\ FileInv' /\ ListInv'
      BY <1>3, AcopyRest
    <2> QED
      BY <2>1, <2>2
  <1>4. CASE UNCHANGED allVars
    <2>1. UNCHANGED <<session, conv, orphans, outages, server, local, cwd>>
      BY <1>4 DEF allVars, vars, sessionVars
    <2>2. UNCHANGED <<pc, line, line_buffer, listAll, prompting, connected>>
      BY <1>4 DEF allVars, vars, clientVars, listVars, history, listAll
    <2>3. UNCHANGED <<step, options, exit_status, result>>
      BY <1>4 DEF allVars, acopyVars
    <2>4. SessInv'
      BY <2>1, <2>2, SessKept
    <2>5. LineInv' /\ FileInv'
      BY <2>1, <2>2 DEF LineInv, InputFits, FileInv, IsServer
    <2>6. ListInv'
      BY <2>2 DEF ListInv, listAll
    <2>7. AcopyInv'
      BY <2>1, <2>2, <2>3 DEF AcopyInv, OptionsUsed, ExitTold
    <2> QED
      BY <2>4, <2>5, <2>6, <2>7
  <1> QED
    BY <1>1, <1>2, <1>3, <1>4 DEF Next

LEMMA InvAlways == Spec => []Inv
  <1> QED
    BY InvInit, InvNext, PTL DEF Spec

\* Whatever the user types and whenever the conversation breaks, what aftp
\* believes of its session is so: a_open and a_close leave no conversation
\* behind, the settings that a_status shows are those in use and can be
\* shown, and every line and word fits the buffer it was read into.
THEOREM SessionStaysTrue == Spec => []SessionTrue
  <1>1. Inv => SessionTrue
    <2> SUFFICES ASSUME SessInv, LineInv, FileInv, ListInv, AcopyInv PROVE SessionTrue
      BY DEF Inv
    <2>1. InputFits /\ NeverFatal /\ ConnectedTrue /\ SettingsInUse /\ NoOrphans
      BY DEF SessInv, LineInv, NeverFatal, SettingsInUse, Uses, NoOrphans
    <2>2. conv.state \in {"none", "open", "broken"} /\ orphans \in Nat /\ outages \in 0 .. MaxOutages
      BY DEF SessInv, ConvRec
    <2>3. index \in 0 .. Len(filelist) /\ skipped \in 0 .. Len(listed)
      <3> DEFINE t == Len(tried)
                 f == Len(filelist)
      <3>1. /\ t \in Nat /\ f \in Nat /\ index \in Nat /\ skipped \in Nat
            /\ index <= f /\ f = Len(listed) /\ t + skipped = index
        BY DEF ListInv
      <3> HIDE DEF t, f
      <3>2. index \in 0 .. f /\ skipped \in 0 .. f
        BY <3>1
      <3> QED
        BY <3>1, <3>2 DEF f
    <2>4. TypeOK
      BY <2>2, <2>3 DEF TypeOK, LineInv, FileInv, IsServer, ListInv, AcopyInv
    <2> QED
      BY <2>1, <2>4 DEF SessionTrue
  <1> QED
    BY <1>1, InvAlways, PTL

\* acopy allocates its conversation with the mode and the program name of
\* its command line, and exits with 0 only if the session held to the end and
\* aftpd answered the file it was to send, whichever call fails on the way.
THEOREM AcopyTellsTruth == Spec => []AcopyTrue
  <1>1. Inv => AcopyTrue
    BY DEF Inv, AcopyInv, AcopyTrue
  <1> QED
    BY <1>1, InvAlways, PTL

\* a_put, a_get and a_del take each element of their list once and in order,
\* leave out only what the user passed over, and with prompting on touch no
\* file that the user did not agree to.
THEOREM ListsAreWorked == Spec => ListsWorked
  <1>1. Inv => EachOnce
    <2> SUFFICES ASSUME ListInv, pc = "free", consent # "quit"
                 PROVE  Len(tried) = Len(listed) - skipped /\ (skipped = 0 => tried = filelist)
      BY DEF Inv, EachOnce
    <2> DEFINE t == Len(tried)
               f == Len(filelist)
    <2>1. /\ t \in Nat /\ f \in Nat /\ index \in Nat /\ skipped \in Nat
          /\ index = f /\ f = Len(listed) /\ t + skipped = index
      BY DEF ListInv
    <2> HIDE DEF t, f
    <2>2. t = f - skipped
      BY <2>1
    <2>3. ASSUME skipped = 0 PROVE tried = filelist
      <3>1. t = f
        BY <2>1, <2>3
      <3>2. tried \in Seq(Names) /\ filelist \in Seq(Names) /\ \A i \in 1 .. Len(tried) : tried[i] = filelist[i]
        BY <2>3 DEF ListInv
      <3> QED
        BY <3>1, <3>2, SeqEqual DEF t, f
    <2> QED
      BY <2>1, <2>2, <2>3 DEF t, f
  <1>2. Inv /\ [Next]_allVars =>
          [tried' # tried /\ tried' # <<>> /\ prompting => consent \in {"yes", "go"}]_vars
    <2> SUFFICES ASSUME ListInv, [Next]_allVars, tried' # tried, tried' # <<>>, prompting
                 PROVE  consent \in {"yes", "go"}
      BY DEF Inv
    <2>1. ClientNext
      <3>1. ~(UNCHANGED history)
        BY DEF history
      <3>2. ~(UNCHANGED allVars)
        BY <3>1 DEF allVars, vars
      <3>3. ~(UNCHANGED <<clientVars, history>>)
        BY <3>1
      <3> QED
        BY <3>2, <3>3 DEF Next
    <2>2. UNCHANGED tried \/ tried' = <<>> \/ a_put \/ a_get \/ a_del
      <3>1. CASE Setter
        BY <3>1, Zenon DEF Setter, a_alloc, a_block, a_lrecl, a_date, a_tpname, a_modename, a_type, a_recfm, a_prompt, a_lcd,
           Setting, Stays, Returns, Unchanged, history
      <3>2. CASE a_md \/ a_rd \/ a_cd \/ a_ren \/ a_system \/ a_pwd \/ a_ls
        BY <3>2, Zenon DEF a_md, a_rd, a_cd, a_ren, a_system, a_pwd, a_ls, Asks, Returns, Unchanged, history
      <3>3. CASE ListsServer({"del", "delete", "get", "recv", "receive"}) \/ ListsLocal \/ Frees
        BY <3>3, Zenon DEF ListsServer, ListsLocal, StartsList, Frees, Stays, Returns, Unchanged, history
      <3>4. CASE \/ Informs \/ Quit \/ a_open \/ a_close \/ a_status \/ NoList \/ EndOfInput \/ LineLost \/ ListEnds \/ Unprompted
                 \/ \E l \in Lines, n \in LineLengths : GetInput(l, n)
                 \/ \E a \in {"yes", "no", "go", "quit"} : GetAction(a)
                 \/ UserLeaves \/ \E n \in Names : OtherUser(n)
        BY <3>4, Zenon DEF Informs, Quit, a_open, a_close, a_status, NoList, EndOfInput, LineLost, InputFails, ListEnds, Unprompted, GetInput,
           GetAction, UserLeaves, OtherUser, Stays, Returns, Unchanged, history
      <3> QED
        BY <2>1, <3>1, <3>2, <3>3, <3>4 DEF ClientNext, Program, Command, User
    <2>3. pc = "act"
      BY <2>2 DEF a_put, a_get, a_del, Advances
    <2> QED
      BY <2>3 DEF ListInv
  <1> QED
    BY <1>1, <1>2, InvAlways, PTL DEF Spec, ListsWorked, Confirmed
=============================================================================
