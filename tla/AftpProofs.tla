----------------------------- MODULE AftpProofs -----------------------------
(***************************************************************************)
(* Library and server stay in step, callers are told the truth, blocks go  *)
(* only to the file they name and listings report only what was asked for: *)
(* for every list of names of any lengths, all contents of the two         *)
(* directories, every set of blocks and wildcards, and any number of calls *)
(* and outages.                                                            *)
(***************************************************************************)
EXTENDS Aftp, SequenceTheorems, NaturalsInduction, WellFoundedInduction, TLAPS

-----------------------------------------------------------------------------
(***************************************************************************)
(* The inductive invariant.                                                *)
(***************************************************************************)
Lone == {"close", "tower", "query_dir", "query_system", "change_dir", "create_dir", "remove_dir",
         "delete", "rename", "list", "request_file"}
OfPut == {"send_file", "file_data", "file_complete"}

\* The records that either side sends.
Record == [type : Lone \cup OfPut \cup {"simple", "list_entry", "list_complete", "set", "dir_read"},
           name : Names \cup {Home, Dot, NoName}, to : Names \cup {NoName},
           spec : SUBSET Names, kind : {"all", "file", "dir"}, alloc : BOOLEAN,
           block : Block \cup {NoName}, failed : BOOLEAN]

\* The parameters that a handler reads are those the library sent.
WellFormed(r) ==
    /\ r \in Record
    /\ r.type \in {"change_dir", "create_dir", "remove_dir", "delete", "rename", "request_file",
                   "send_file", "file_data"} => r.name \in Names
    /\ r.type \in {"rename", "request_file"} => r.to \in Names
    /\ r.type = "file_data" => r.block \in Block

Typed ==
    /\ TypeOK
    /\ c2s \in Seq(Record) /\ s2c \in Seq(Record)
    /\ WellFormed(call)
    /\ \A i \in 1 .. Len(c2s) : WellFormed(c2s[i])
    /\ \A i \in 1 .. Len(s2c) : s2c[i].type = "file_data" => s2c[i].block \in Block
    /\ alloc_size \in BOOLEAN /\ written \in Nat /\ dest_pos \in Nat
    /\ cpc = "file" => IsFile(local[call.to]) /\ written <= Len(local[call.to])
    /\ dest_file \in Names => dest_pos <= Len(remote[dest_file])

\* What is on its way to aftpd: one request, or the records of one put.
Stream ==
    \A i \in 1 .. Len(c2s) :
        /\ c2s[i].type \in Lone \cup OfPut
        /\ c2s[i].type \in Lone => Len(c2s) = 1
        /\ c2s[i].type = "send_file" => i = 1
        /\ c2s[i].type = "file_complete" => i = Len(c2s)

\* Where library and server may be while the conversation is open.
InTurn ==
    conv = "open" =>
        /\ cpc = "idle" => turn = "client" /\ c2s = <<>> /\ spc = "receive"
        /\ cpc = "idle" /\ listing = {} => s2c = <<>>
        /\ cpc = "put" => turn = "client" /\ spc = "receive"
        /\ cpc = "answer" => spc = "receive" /\ (turn = "server") = (s2c = <<>>)
                                             /\ (turn = "client") = (c2s = <<>>)
        /\ cpc = "file" /\ turn = "client" => spc = "receive" /\ c2s = <<>> /\ s2c # <<>>
        /\ cpc = "file" /\ turn = "server" =>
             spc \in {"receive", "sendfile"} /\ (spc = "receive") = (c2s # <<>>)

\* The call that is under way, and what it sent.
Call ==
    /\ s2c = <<>> \/ c2s = <<>>
    /\ cpc # "idle" => conv \in {"open", "broken"} /\ listing = {}
    /\ cpc = "put" => /\ call.type = "send_file" /\ s2c = <<>>
                      /\ \A i \in 1 .. Len(c2s) : c2s[i].type \in {"send_file", "file_data"}
    /\ cpc = "answer" => call.type \in (Lone \ {"close", "request_file"}) \cup {"send_file"}
    /\ cpc = "answer" /\ c2s # <<>> =>
         IF call.type = "send_file" THEN c2s[Len(c2s)].type = "file_complete" ELSE c2s = <<call>>
    /\ cpc = "file" => /\ call.type = "request_file"
                       /\ c2s # <<>> => c2s = <<call>> /\ outcome = "none" /\ written = 0
    /\ cpc = "idle" /\ rc = "ok" /\ call.type \in {"request_file", "send_file"} => c2s = <<>>

\* From the k-th record on, the entries of a listing and its end.
Entries(k, names) ==
    /\ Len(s2c) >= k /\ s2c[Len(s2c)].type = "list_complete"
    /\ \A i \in k .. Len(s2c) - 1 : s2c[i].type = "list_entry" /\ s2c[i].name \in names \cup {NoName}

\* What the server sent fits the call.
Answer ==
    /\ cpc = "answer" /\ s2c # <<>> =>
         /\ s2c[1].type = IF call.type = "tower" THEN "tower" ELSE "simple"
         /\ IF call.type = "list" /\ ~s2c[1].failed THEN Entries(2, call.spec \cup {Dot}) ELSE Len(s2c) = 1
         /\ call.type # "send_file" => outcome = IF s2c[1].failed THEN "err" ELSE "ok"
    /\ listing # {} => cpc = "idle" /\ Entries(1, listing)
    /\ listing # {} /\ first_param # "rc" => dir_entry \in listing /\ first_param \in listing
    /\ OutcomeReported

\* The records of a get under way.
FileRecords ==
    cpc = "file" =>
        /\ \/ \A i \in 1 .. Len(s2c) : /\ s2c[i].type \in OfPut
                                       /\ s2c[i].type = "send_file" => i = 1
                                       /\ s2c[i].type = "file_complete" => i = Len(s2c)
           \/ Len(s2c) = 1 /\ s2c[1].type = "simple"
        /\ s2c # <<>> => outcome = IF s2c[1].type = "simple" THEN "err" ELSE "ok"
        /\ conv = "open" /\ spc = "sendfile" => outcome = "ok"
        /\ conv = "open" /\ s2c # <<>> =>
             (turn = "client") = (s2c[Len(s2c)].type \in {"simple", "file_complete"})

\* The caller's belief
Believed ==
    /\ conv = "open" /\ belief # NoName =>
         \/ belief = cwd
         \/ cpc = "answer" /\ call.type \in {"remove_dir", "rename"}
         \/ cpc = "answer" /\ call.type = "change_dir" /\ s2c # <<>> /\ ~s2c[1].failed
    /\ conv = "open" /\ cpc = "answer" /\ s2c # <<>> =>
         /\ call.type = "change_dir" /\ ~s2c[1].failed => cwd = call.name
         /\ call.type = "query_dir" => s2c[1].name \in {NoName, cwd}

\* The blocks on their way go to the file that they name.
Pending == c2s # <<>> /\ c2s[1].type = "send_file"
GoesTo(r) == dest_file \in Names => dest_file = r.name \/ unopened
Target ==
    /\ \A i \in 1 .. Len(c2s) : c2s[i].type = "file_data" =>
         IF Pending THEN c2s[i].name = c2s[1].name /\ c2s[i].alloc = c2s[1].alloc ELSE GoesTo(c2s[i])
    /\ cpc = "put" => IF Pending THEN c2s[1] = call ELSE GoesTo(call)

\* The blocks of the local file, from pos on, on their way behind `off' records
PutBlocks(off, pos) ==
    LET L == local[call.name]
        k == Len(c2s) - off - (IF cpc = "answer" THEN 1 ELSE 0)
    IN /\ k >= 0 /\ pos + k + Len(unsent) = Len(L)
       /\ \A i \in 1 .. k : c2s[off + i].type = "file_data" /\ c2s[off + i].block = L[pos + i]
       /\ \A i \in 1 .. Len(unsent) : unsent[i] = L[pos + k + i]

PutData ==
    /\ cpc \in {"put", "answer"} /\ call.type = "send_file" =>
         IsFile(local[call.name]) /\ (cpc = "answer" => unsent = <<>>)
    /\ conv = "open" /\ cpc \in {"put", "answer"} /\ call.type = "send_file" /\ ~io_error =>
         /\ Pending => c2s[1] = call /\ PutBlocks(1, 0)
         /\ ~Pending /\ outcome = "ok" /\ s2c = <<>> =>
              /\ dest_file = call.name
              /\ PutBlocks(0, dest_pos)
              /\ \A i \in 1 .. dest_pos : remote[call.name][i] = local[call.name][i]
    /\ cpc = "answer" /\ call.type = "send_file" /\ s2c # <<>> /\ outcome = "ok" /\ ~io_error =>
         IsPrefix(local[call.name], remote[call.name])

\* The first and the last record of a get are on their way.
Opened == s2c # <<>> /\ s2c[1].type = "send_file"
Ended == s2c # <<>> /\ s2c[Len(s2c)].type = "file_complete"

\* The blocks of the remote file, from those written on, between `off'
\* records and `c' records
GetBlocks(off, c) ==
    LET R == remote[call.name]
        k == Len(s2c) - off - c
    IN /\ k >= 0 /\ written + k <= Len(R)
       /\ \A i \in 1 .. written : local[call.to][i] = R[i]
       /\ \A i \in 1 .. k : s2c[off + i].type = "file_data" /\ s2c[off + i].block = R[written + i]
       /\ c = 1 => written + k = Len(R)
       /\ conv = "open" /\ spc = "sendfile" =>
             /\ written + k + Len(unread) = Len(R)
             /\ \A i \in 1 .. Len(unread) : unread[i] = R[written + k + i]
GetData ==
    cpc = "file" /\ outcome = "ok" /\ ~io_error =>
       /\ IsFile(remote[call.name])
       /\ GetBlocks(IF Opened THEN 1 ELSE 0, IF Ended THEN 1 ELSE 0)

Inv == /\ Typed /\ Stream /\ InTurn /\ Call /\ Answer /\ FileRecords /\ Believed /\ Target
       /\ PutData /\ GetData /\ TransferComplete

-----------------------------------------------------------------------------
(***************************************************************************)
(* Sequences, files and records.                                           *)
(***************************************************************************)
\* An entry that is a file holds a sequence of blocks.
LEMMA FileIsSeq ==
    ASSUME NEW x \in Contents, IsFile(x)
    PROVE  x \in Seq(Block)
  BY DEF Contents, IsFile

\* A sequence of blocks is a file.
LEMMA SeqIsFile ==
    ASSUME NEW x \in Seq(Block)
    PROVE  x \in Contents /\ IsFile(x)
  BY AftpAssumption DEF Contents, IsFile

\* What open() leaves of an entry that is no directory is a file.
LEMMA CreatedType ==
    ASSUME NEW x \in Contents, x # Directory
    PROVE  Created(x) \in Seq(Block) /\ Created(x) \in Contents /\ IsFile(Created(x))
  <1>1. Created(x) \in Seq(Block)
    BY DEF Contents, Created
  <1> QED
    BY <1>1, SeqIsFile

\* A block written at or before the end of a file leaves a file that is as
\* long as before, or one block longer, and that differs in this block only.
LEMMA OverwrittenType ==
    ASSUME NEW x \in Seq(Block), NEW pos \in Nat, pos <= Len(x), NEW b \in Block
    PROVE  /\ Overwritten(x, pos, b) \in Seq(Block)
           /\ Len(Overwritten(x, pos, b)) = IF pos < Len(x) THEN Len(x) ELSE pos + 1
           /\ pos + 1 <= Len(Overwritten(x, pos, b))
           /\ \A i \in 1 .. pos : Overwritten(x, pos, b)[i] = x[i]
           /\ Overwritten(x, pos, b)[pos + 1] = b
  <1> DEFINE n == IF pos < Len(x) THEN Len(x) ELSE pos + 1
             h(i) == IF i = pos + 1 THEN b ELSE x[i]
             y == [i \in 1 .. n |-> h(i)]
  <1>1. n \in Nat /\ pos + 1 <= n /\ \A i \in 1 .. n : i = pos + 1 \/ i \in 1 .. Len(x)
    OBVIOUS
  <1>2. \A i \in 1 .. n : h(i) \in Block
    BY <1>1
  <1>3. y \in Seq(Block) /\ Len(y) = n
    <2> HIDE DEF n, h
    <2> QED
      BY <1>1, <1>2, IsASeq
  <1>4. Overwritten(x, pos, b) = y
    BY DEF Overwritten
  <1>5. \A i \in 1 .. pos : y[i] = x[i]
    BY <1>1
  <1>6. y[pos + 1] = b
    BY <1>1
  <1> HIDE DEF y
  <1> QED
    BY <1>1, <1>3, <1>4, <1>5, <1>6

\* What is in front of a sequence, and behind.
LEMMA TailFacts ==
    ASSUME NEW S, NEW s \in Seq(S), s # <<>>
    PROVE  /\ Head(s) = s[1] /\ Head(s) \in S /\ Len(s) \in Nat /\ Len(s) >= 1
           /\ Tail(s) \in Seq(S) /\ Len(Tail(s)) = Len(s) - 1
           /\ \A i \in 1 .. Len(s) - 1 : Tail(s)[i] = s[i + 1]
           /\ (Tail(s) = <<>>) = (Len(s) = 1)
  <1>1. Len(s) \in Nat /\ Len(s) >= 1
    OBVIOUS
  <1>2. Tail(s) \in Seq(S) /\ Len(Tail(s)) = Len(s) - 1
    OBVIOUS
  <1>3. \A i \in 1 .. Len(s) - 1 : Tail(s)[i] = s[i + 1]
    OBVIOUS
  <1>4. Head(s) = s[1] /\ Head(s) \in S
    OBVIOUS
  <1>5. Tail(s) = <<>> <=> Len(Tail(s)) = 0
    BY <1>2, EmptySeq
  <1> QED
    BY <1>1, <1>2, <1>3, <1>4, <1>5

LEMMA AppendFacts ==
    ASSUME NEW S, NEW s \in Seq(S), NEW e \in S
    PROVE  /\ Append(s, e) \in Seq(S) /\ Len(Append(s, e)) = Len(s) + 1 /\ Len(s) \in Nat
           /\ \A i \in 1 .. Len(s) : Append(s, e)[i] = s[i]
           /\ Append(s, e)[Len(s) + 1] = e /\ Append(s, e) # <<>>
  OBVIOUS

\* A sequence that agrees with the head of another is a prefix of it.
LEMMA PrefixFromBlocks ==
    ASSUME NEW s \in Seq(Block), NEW t \in Seq(Block), Len(s) <= Len(t),
           \A i \in 1 .. Len(s) : t[i] = s[i]
    PROVE  IsPrefix(s, t)
  <1>1. SubSeq(s, 1, Len(s)) = SubSeq(t, 1, Len(s))
    OBVIOUS
  <1> QED
    BY <1>1 DEF IsPrefix

\* Records of the library, and the server's answers.
LEMMA BlankType == Blank \in Record /\ WellFormed(Blank) /\ Blank.type = "close" /\ Blank.name = NoName
  <1>1. Blank \in Record
    BY DEF Blank, Record, Lone, OfPut
  <1>2. Blank.type = "close" /\ Blank.name = NoName
    BY DEF Blank
  <1> QED
    BY <1>1, <1>2 DEF WellFormed

LEMMA SimpleType ==
    ASSUME NEW x \in BOOLEAN
    PROVE  Simple(x) \in Record /\ Simple(x).type = "simple" /\ Simple(x).failed = x
           /\ Simple(x).name = NoName
  BY DEF Simple, Blank, Record, Lone, OfPut

\* The records of the calls, one by one.
NamedCall(t, n) == [Blank EXCEPT !.type = t, !.name = n]
RenameOf(n, m) == [Blank EXCEPT !.type = "rename", !.name = n, !.to = m]
ListingOf(n, k) == [Blank EXCEPT !.type = "list", !.name = n, !.spec = {n}, !.kind = k]
WildListing(w, k) == [Blank EXCEPT !.type = "list", !.spec = w, !.kind = k]
GetOf(n, m) == [Blank EXCEPT !.type = "request_file", !.name = n, !.to = m]
PutOf(n, m) == [Blank EXCEPT !.type = "send_file", !.name = n, !.to = m, !.alloc = alloc_size]

LEMMA CallsByName ==
    /\ NamedCalls = {NamedCall(t, n) :
                       t \in {"change_dir", "create_dir", "remove_dir", "delete"}, n \in Names}
    /\ Renames = {RenameOf(n, m) : n, m \in Names}
    /\ Listings = {ListingOf(n, k) : n \in Names, k \in Kinds}
                  \cup {WildListing(w, k) : w \in Wildcards, k \in Kinds}
    /\ Gets = {GetOf(n, m) : n, m \in Names}
    /\ Puts = {PutOf(n, m) : n, m \in Names}
  <1>1. NamedCalls = {NamedCall(t, n) :
                       t \in {"change_dir", "create_dir", "remove_dir", "delete"}, n \in Names}
    BY DEF NamedCalls, NamedCall
  <1>2. Renames = {RenameOf(n, m) : n, m \in Names}
    BY DEF Renames, RenameOf
  <1>3. Listings = {ListingOf(n, k) : n \in Names, k \in Kinds}
                  \cup {WildListing(w, k) : w \in Wildcards, k \in Kinds}
    BY DEF Listings, ListingOf, WildListing
  <1>4. Gets = {GetOf(n, m) : n, m \in Names}
    BY DEF Gets, GetOf
  <1>5. Puts = {PutOf(n, m) : n, m \in Names}
    BY DEF Puts, PutOf
  <1> QED
    BY <1>1, <1>2, <1>3, <1>4, <1>5

LEMMA RequestType ==
    ASSUME NEW r \in NamedCalls \cup Queries \cup Renames \cup Listings
    PROVE  WellFormed(r) /\ r.type \in Lone \ {"close", "tower", "request_file"}
  <1>1. CASE r \in NamedCalls
    <2>1. NamedCalls = {NamedCall(t, n) :
                          t \in {"change_dir", "create_dir", "remove_dir", "delete"}, n \in Names}
      BY CallsByName
    <2>2. PICK t \in {"change_dir", "create_dir", "remove_dir", "delete"}, n \in Names :
               r = NamedCall(t, n)
      BY <1>1, <2>1
    <2>3. r \in Record /\ r.type = t /\ r.name = n
      BY <2>2 DEF NamedCall, Blank, Record, Lone, OfPut
    <2> QED
      BY <2>3 DEF WellFormed, Lone
  <1>2. CASE r \in Queries
    <2>1. r \in Record /\ r.type \in {"query_dir", "query_system"}
      BY <1>2 DEF Queries, Blank, Record, Lone, OfPut
    <2> QED
      BY <2>1 DEF WellFormed, Lone
  <1>3. CASE r \in Renames
    <2>1. Renames = {RenameOf(n, m) : n, m \in Names}
      BY CallsByName
    <2>2. PICK n \in Names, m \in Names : r = RenameOf(n, m)
      BY <1>3, <2>1
    <2>3. r \in Record /\ r.type = "rename" /\ r.name = n /\ r.to = m
      BY <2>2 DEF RenameOf, Blank, Record, Lone, OfPut
    <2> QED
      BY <2>3 DEF WellFormed, Lone
  <1>4. CASE r \in Listings
    <2>1. Listings = {ListingOf(n, k) : n \in Names, k \in Kinds}
                     \cup {WildListing(w, k) : w \in Wildcards, k \in Kinds}
      BY CallsByName
    <2>2. \/ \E n \in Names, k \in Kinds : r = ListingOf(n, k)
          \/ \E w \in Wildcards, k \in Kinds : r = WildListing(w, k)
      BY <1>4, <2>1
    <2>3. \A k \in Kinds : k \in {"all", "file", "dir"}
      BY AftpAssumption
    <2>4. \A w \in Wildcards : w \in SUBSET Names
      BY AftpAssumption
    <2>5. ASSUME NEW n \in Names, NEW k \in Kinds, r = ListingOf(n, k)
          PROVE  r \in Record /\ r.type = "list"
      BY <2>3, <2>5 DEF ListingOf, Blank, Record, Lone, OfPut
    <2>6. ASSUME NEW w \in Wildcards, NEW k \in Kinds, r = WildListing(w, k)
          PROVE  r \in Record /\ r.type = "list"
      BY <2>3, <2>4, <2>6 DEF WildListing, Blank, Record, Lone, OfPut
    <2> QED
      BY <2>2, <2>5, <2>6 DEF WellFormed, Lone
  <1> QED
    BY <1>1, <1>2, <1>3, <1>4

LEMMA TransferType ==
    /\ \A r \in Gets : WellFormed(r) /\ r.type = "request_file" /\ r.name \in Names /\ r.to \in Names
    /\ alloc_size \in BOOLEAN =>
         \A r \in Puts : WellFormed(r) /\ r.type = "send_file" /\ r.name \in Names
  <1>1. ASSUME NEW r \in Gets
        PROVE  WellFormed(r) /\ r.type = "request_file" /\ r.name \in Names /\ r.to \in Names
    <2>1. Gets = {GetOf(n, m) : n, m \in Names}
      BY CallsByName
    <2>2. PICK n \in Names, m \in Names : r = GetOf(n, m)
      BY <2>1
    <2>3. r \in Record /\ r.type = "request_file" /\ r.name = n /\ r.to = m
      BY <2>2 DEF GetOf, Blank, Record, Lone, OfPut
    <2> QED
      BY <2>3 DEF WellFormed
  <1>2. ASSUME alloc_size \in BOOLEAN, NEW r \in Puts
        PROVE  WellFormed(r) /\ r.type = "send_file" /\ r.name \in Names
    <2>1. Puts = {PutOf(n, m) : n, m \in Names}
      BY CallsByName
    <2>2. PICK n \in Names, m \in Names : r = PutOf(n, m)
      BY <2>1
    <2>3. r \in Record /\ r.type = "send_file" /\ r.name = n
      BY <1>2, <2>2 DEF PutOf, Blank, Record, Lone, OfPut
    <2> QED
      BY <2>3 DEF WellFormed
  <1> QED
    BY <1>1, <1>2

LEMMA OtherType ==
    ASSUME NEW t \in {"tower", "set", "dir_read", "send_file", "file_complete", "list_complete"}
    PROVE  [Blank EXCEPT !.type = t] \in Record /\ [Blank EXCEPT !.type = t].type = t
           /\ (t # "send_file" => WellFormed([Blank EXCEPT !.type = t]))
  <1>1. [Blank EXCEPT !.type = t] \in Record /\ [Blank EXCEPT !.type = t].type = t
    BY DEF Blank, Record, Lone, OfPut
  <1> QED
    BY <1>1 DEF WellFormed
-----------------------------------------------------------------------------
\* The initial states.
LEMMA InitInv == Init => Inv
  <1> SUFFICES ASSUME Init PROVE Inv
    OBVIOUS
  <1>1. InitLocal \in [Names -> Contents] /\ InitRemote \in [Names -> Contents]
    BY AftpAssumption DEF Contents
  <1>2. "other" \notin Names
    BY AftpAssumption
  <1>3. TypeOK
    BY <1>1, <1>2, AftpAssumption DEF Init, TypeOK, Contents
  <1>6. Typed
    <2>1. c2s \in Seq(Record) /\ s2c \in Seq(Record) /\ Len(c2s) = 0 /\ Len(s2c) = 0
      BY DEF Init
    <2>2. call = Blank /\ WellFormed(call)
      BY BlankType DEF Init
    <2>3. alloc_size \in BOOLEAN /\ written \in Nat /\ dest_pos \in Nat /\ cpc # "file"
          /\ dest_file \notin Names
      BY <1>2 DEF Init
    <2> QED
      BY <1>3, <2>1, <2>2, <2>3 DEF Typed
  <1>4. Stream /\ InTurn /\ Call /\ FileRecords /\ Believed /\ Target
    BY <1>2 DEF Init, Stream, InTurn, Call, FileRecords, Believed, Target, GoesTo, Pending
  <1>5. Answer /\ PutData /\ GetData /\ TransferComplete
    BY BlankType DEF Init, Answer, PutData, GetData, TransferComplete, OutcomeReported
  <1> QED
    BY <1>6, <1>4, <1>5 DEF Inv

-----------------------------------------------------------------------------
(***************************************************************************)
(* The library's steps.                                                    *)
(***************************************************************************)
\* A call that returns at once and sends nothing.
QuietCall ==
    /\ cpc = "idle" /\ cpc' = "idle" /\ WellFormed(call')
    /\ outcome' = "none" /\ (rc' = "ok" => call'.type = "set")
    /\ alloc_size' \in BOOLEAN /\ local' \in [Names -> Contents]
    /\ UNCHANGED <<convVars, unsent, written, first_param, dir_entry, no_more_entries, serverVars,
                   listing, belief>>

LEMMA QuietCallInv == Inv /\ QuietCall => Inv'
  <1> SUFFICES ASSUME Inv, QuietCall PROVE Inv'
    OBVIOUS
  <1> USE DEF QuietCall, convVars, serverVars
  <1>1. Typed'
    BY DEF Inv, Typed, TypeOK
  <1>2. Stream' /\ InTurn' /\ Call'
    BY DEF Inv, Stream, InTurn, Call
  <1>3. Answer'
    BY DEF Inv, Answer, Entries, OutcomeReported
  <1>4. FileRecords' /\ Believed' /\ Target'
    BY DEF Inv, FileRecords, Believed, Target, GoesTo, Pending
  <1>5. PutData' /\ GetData' /\ TransferComplete'
    BY DEF PutData, GetData, TransferComplete
  <1> QED
    BY <1>1, <1>2, <1>3, <1>4, <1>5 DEF Inv

\* The calls that are refused, that cannot open their file, that find no
\* server, and those that only set something.
LEMMA RefusedInv ==
    ASSUME Inv, NEW r, WellFormed(r), Refused(r)
    PROVE  Inv'
  <1>1. QuietCall
    BY DEF Refused, Starts, QuietCall, Inv, Typed, TypeOK
  <1> QED
    BY <1>1, QuietCallInv

LEMMA ConnectFailsInv == Inv /\ ConnectFails => Inv'
  <1> SUFFICES ASSUME Inv, ConnectFails PROVE Inv'
    OBVIOUS
  <1>1. WellFormed(call')
    BY OtherType DEF ConnectFails, Starts
  <1>2. QuietCall
    BY <1>1 DEF ConnectFails, Starts, QuietCall, Inv, Typed, TypeOK
  <1> QED
    BY <1>2, QuietCallInv

LEMMA OpenFailsInv ==
    ASSUME Inv, NEW r, WellFormed(r), OpenFails(r)
    PROVE  Inv'
  <1>1. QuietCall
    BY DEF OpenFails, Starts, QuietCall, Inv, Typed, TypeOK
  <1> QED
    BY <1>1, QuietCallInv

LEMMA SetAllocationSizeInv ==
    ASSUME Inv, NEW a \in AllocSizes, SetAllocationSize(a)
    PROVE  Inv'
  <1>1. WellFormed(call') /\ call'.type = "set"
    BY OtherType DEF SetAllocationSize, Starts
  <1>2. a \in BOOLEAN
    BY AftpAssumption
  <1>3. QuietCall
    BY <1>1, <1>2 DEF SetAllocationSize, Starts, QuietCall, Inv, Typed, TypeOK
  <1> QED
    BY <1>3, QuietCallInv

\* What the two sides know of each other between two calls, when the library
\* may send.
LEMMA MaySend ==
    ASSUME Inv, ClientMaySend, cpc = "idle"
    PROVE  /\ conv = "open" /\ turn = "client" /\ c2s = <<>> /\ s2c = <<>> /\ spc = "receive"
           /\ listing = {} /\ Typed /\ (belief # NoName => belief = cwd)
  <1>1. listing = {}
    BY DEF ClientMaySend, Inv, Answer, Entries, Typed
  <1> QED
    BY <1>1 DEF ClientMaySend, Inv, InTurn, Believed

\* A call that sends its first record and waits for the answer, or goes on.
SendsCall(r) ==
    /\ cpc = "idle" /\ ClientMaySend /\ call' = r /\ outcome' = "none" /\ io_error' = FALSE
    /\ c2s' = Append(c2s, r)
    /\ UNCHANGED <<conv, s2c, outages, rc, alloc_size, first_param, dir_entry, no_more_entries,
                   serverVars, listing, belief>>

\* The one record under way.
LEMMA FirstRecord ==
    ASSUME Inv, ClientMaySend, cpc = "idle", NEW r, WellFormed(r)
    PROVE  /\ Append(c2s, r) = <<r>> /\ Append(c2s, r) \in Seq(Record)
           /\ Append(c2s, r) # <<>> /\ Len(Append(c2s, r)) = 1 /\ Append(c2s, r)[1] = r
  <1>1. c2s = <<>>
    BY MaySend
  <1>2. r \in Record
    BY DEF WellFormed
  <1> QED
    BY <1>1, <1>2

\* Everything that the first record of a call does not touch.
LEMMA SendsCallInv ==
    ASSUME Inv, NEW r, WellFormed(r), SendsCall(r), cpc' # "idle"
    PROVE  /\ c2s' = <<r>> /\ c2s' # <<>> /\ Len(c2s') = 1 /\ c2s'[1] = r
           /\ Answer' /\ TransferComplete' /\ Believed'
           /\ conv = "open" /\ conv' = "open" /\ turn = "client" /\ s2c = <<>> /\ s2c' = <<>>
           /\ spc' = "receive" /\ listing' = {} /\ call' = r /\ outcome' = "none"
           /\ c2s' \in Seq(Record) /\ s2c' \in Seq(Record)
  <1>1. c2s' = <<r>> /\ c2s' # <<>> /\ Len(c2s') = 1 /\ c2s'[1] = r /\ c2s' \in Seq(Record)
    BY FirstRecord DEF SendsCall
  <1>2. conv = "open" /\ turn = "client" /\ s2c = <<>> /\ spc = "receive" /\ listing = {}
        /\ Typed /\ (belief # NoName => belief = cwd)
    BY MaySend DEF SendsCall
  <1>3. conv' = "open" /\ s2c' = <<>> /\ spc' = "receive" /\ listing' = {} /\ call' = r
        /\ s2c' \in Seq(Record) /\ outcome' = "none"
    BY <1>2 DEF SendsCall, serverVars, Typed
  <1>4. Answer' /\ TransferComplete' /\ Believed'
    BY <1>2, <1>3 DEF SendsCall, serverVars, Answer, OutcomeReported, TransferComplete, Believed
  <1> QED
    BY <1>1, <1>2, <1>3, <1>4

\* Requests of one record.
LEMMA RequestInv ==
    ASSUME Inv, NEW r \in NamedCalls \cup Queries \cup Renames \cup Listings, Request(r)
    PROVE  Inv'
  <1>1. WellFormed(r) /\ r.type \in Lone \ {"close", "tower", "request_file"}
    BY RequestType
  <1>2. SendsCall(r) /\ cpc' = "answer" /\ turn' = "server"
        /\ UNCHANGED <<local, unsent, written>>
    BY DEF Request, Starts, SendsCall, serverVars
  <1>3. r.type \notin {"send_file", "file_data", "file_complete"}
    BY <1>1 DEF Lone
  <1>4. /\ c2s' = <<r>> /\ c2s' # <<>> /\ Len(c2s') = 1 /\ c2s'[1] = r
        /\ Answer' /\ TransferComplete' /\ Believed'
        /\ conv' = "open" /\ s2c' = <<>> /\ spc' = "receive" /\ listing' = {} /\ call' = r
        /\ c2s' \in Seq(Record) /\ s2c' \in Seq(Record)
    BY <1>1, <1>2, SendsCallInv
  <1>5. Typed'
    BY <1>1, <1>2, <1>4 DEF Inv, Typed, TypeOK, SendsCall, serverVars
  <1>6. Stream' /\ InTurn' /\ Call'
    BY <1>1, <1>2, <1>3, <1>4 DEF Stream, InTurn, Call, Lone, OfPut
  <1>7. FileRecords' /\ Target' /\ PutData' /\ GetData'
    BY <1>2, <1>3, <1>4 DEF FileRecords, Target, PutData, GetData
  <1> QED
    BY <1>4, <1>5, <1>6, <1>7 DEF Inv

\* aftp_receive_file: its dest_file is a file from now on.
LEMMA GetInv ==
    ASSUME Inv, NEW r \in Gets, Get(r)
    PROVE  Inv'
  <1>1. WellFormed(r) /\ r.type = "request_file" /\ r.name \in Names /\ r.to \in Names
    BY TransferType
  <1>2. local \in [Names -> Contents]
    BY DEF Inv, Typed, TypeOK
  <1>3. local[r.to] \in Contents /\ local[r.to] # Directory
    BY <1>1, <1>2 DEF Get
  <1>4. /\ Created(local[r.to]) \in Seq(Block) /\ Created(local[r.to]) \in Contents
        /\ IsFile(Created(local[r.to]))
    BY <1>3, CreatedType
  <1>5. local' \in [Names -> Contents] /\ local'[r.to] = Created(local[r.to])
    BY <1>1, <1>2, <1>4 DEF Get
  <1>6. CASE ~ClientMaySend
    <2>1. QuietCall
      BY <1>1, <1>5, <1>6 DEF Get, Starts, QuietCall, Inv, Typed, TypeOK, convVars
    <2> QED
      BY <2>1, QuietCallInv
  <1>7. CASE ClientMaySend
    <2>1. SendsCall(r) /\ cpc' = "file" /\ turn' = "server" /\ written' = 0 /\ UNCHANGED unsent
      BY <1>7 DEF Get, Starts, SendsCall, serverVars
    <2>2. /\ c2s' = <<r>> /\ c2s' # <<>> /\ Len(c2s') = 1 /\ c2s'[1] = r
          /\ Answer' /\ TransferComplete' /\ Believed'
          /\ conv' = "open" /\ s2c' = <<>> /\ spc' = "receive" /\ listing' = {} /\ call' = r
          /\ c2s' \in Seq(Record) /\ s2c' \in Seq(Record) /\ outcome' = "none"
      BY <1>1, <2>1, SendsCallInv
    <2>3. IsFile(local'[call'.to]) /\ written' <= Len(local'[call'.to])
      BY <1>4, <1>5, <2>1, <2>2
    <2>4. Typed'
      BY <1>1, <1>5, <2>1, <2>2, <2>3 DEF Inv, Typed, TypeOK, SendsCall, serverVars
    <2>5. Stream' /\ InTurn' /\ Call'
      BY <1>1, <2>1, <2>2 DEF Stream, InTurn, Call, Lone, OfPut
    <2>6. FileRecords' /\ Target' /\ PutData' /\ GetData'
      BY <1>1, <2>1, <2>2 DEF FileRecords, Target, PutData, GetData
    <2> QED
      BY <2>2, <2>4, <2>5, <2>6 DEF Inv
  <1> QED
    BY <1>6, <1>7

\* aftp_send_file: all blocks of the local file are still to be sent.
LEMMA PutInv ==
    ASSUME Inv, NEW r \in Puts, Put(r)
    PROVE  Inv'
  <1>1. WellFormed(r) /\ r.type = "send_file" /\ r.name \in Names
    BY TransferType DEF Inv, Typed
  <1>2. local \in [Names -> Contents] /\ IsFile(local[r.name]) /\ local[r.name] \in Contents
    BY <1>1 DEF Inv, Typed, TypeOK, Put
  <1>3. local[r.name] \in Seq(Block)
    BY <1>2, FileIsSeq
  <1>4. SendsCall(r) /\ cpc' = "put" /\ turn' = turn /\ unsent' = local[r.name]
        /\ UNCHANGED <<local, written>>
    BY DEF Put, Starts, SendsCall, serverVars
  <1>5. /\ c2s' = <<r>> /\ c2s' # <<>> /\ Len(c2s') = 1 /\ c2s'[1] = r
        /\ Answer' /\ TransferComplete' /\ Believed' /\ turn = "client"
        /\ conv' = "open" /\ s2c' = <<>> /\ spc' = "receive" /\ listing' = {} /\ call' = r
        /\ c2s' \in Seq(Record) /\ s2c' \in Seq(Record) /\ outcome' = "none"
    BY <1>1, <1>4, SendsCallInv
  <1>6. Typed'
    BY <1>1, <1>3, <1>4, <1>5 DEF Inv, Typed, TypeOK, SendsCall, serverVars
  <1>7. Stream' /\ InTurn' /\ Call'
    BY <1>1, <1>4, <1>5 DEF Stream, InTurn, Call, Lone, OfPut
  <1>8. FileRecords' /\ Target' /\ GetData'
    BY <1>1, <1>4, <1>5 DEF FileRecords, Target, GetData, Pending
  <1>9. PutData'
    <2>1. Pending' /\ Len(c2s') - 1 - 0 = 0
      BY <1>1, <1>5 DEF Pending
    <2>2. PutBlocks(1, 0)'
      BY <1>3, <1>4, <1>5, <2>1 DEF PutBlocks
    <2> QED
      BY <1>2, <1>4, <1>5, <2>1, <2>2 DEF PutData
  <1> QED
    BY <1>5, <1>6, <1>7, <1>8, <1>9 DEF Inv

\* aftp_connect: a new conversation, with the server of the last one or a new one.
LEMMA ConnectInv == Inv /\ Connect => Inv'
  <1> SUFFICES ASSUME Inv, Connect PROVE Inv'
    OBVIOUS
  <1> DEFINE r == [Blank EXCEPT !.type = "tower"]
  <1>1. WellFormed(r) /\ r.type = "tower" /\ r \in Record
    BY OtherType
  <1>2. call' = r /\ c2s' = <<r>> /\ s2c' = <<>> /\ cpc' = "answer" /\ conv' = "open"
        /\ turn' = "server" /\ spc' = "receive" /\ listing' = {} /\ belief' = NoName
        /\ outcome' = "none" /\ UNCHANGED <<alloc_size, local, unsent, written, remote, unread>>
    BY DEF Connect, Starts
  <1> HIDE DEF r
  <1>3. Len(c2s') = 1 /\ c2s'[1] = r /\ c2s' # <<>> /\ c2s' \in Seq(Record) /\ s2c' \in Seq(Record)
        /\ Len(s2c') = 0
    BY <1>1, <1>2
  <1>4. \/ UNCHANGED <<cwd, dest_file, dest_pos>>
        \/ cwd' = Home /\ dest_file' = "other" /\ dest_pos' = 0
    BY DEF Connect
  <1>5. "other" \notin Names
    BY AftpAssumption
  <1>6. TypeOK'
    BY <1>2, <1>4, <1>5 DEF Inv, Typed, TypeOK
  <1>7. Typed'
    BY <1>1, <1>2, <1>3, <1>4, <1>5, <1>6 DEF Inv, Typed
  <1>8. Stream' /\ InTurn' /\ Call' /\ FileRecords' /\ Believed' /\ Target'
    BY <1>1, <1>2, <1>3 DEF Stream, InTurn, Call, FileRecords, Believed, Target, Lone, OfPut
  <1>9. Answer' /\ PutData' /\ GetData' /\ TransferComplete'
    BY <1>1, <1>2, <1>3 DEF Answer, PutData, GetData, TransferComplete, OutcomeReported
  <1> QED
    BY <1>7, <1>8, <1>9 DEF Inv

\* aftp_close
LEMMA CloseInv == Inv /\ Close => Inv'
  <1> SUFFICES ASSUME Inv, Close PROVE Inv'
    OBVIOUS
  <1>1. cpc = "idle" /\ ClientMaySend
    BY DEF Close, Starts
  <1>2. conv = "open" /\ turn = "client" /\ c2s = <<>> /\ s2c = <<>> /\ spc = "receive"
        /\ listing = {} /\ Typed
    BY <1>1, MaySend
  <1>3. call' = Blank /\ cpc' = "idle" /\ conv' = "closed" /\ c2s' = Append(c2s, Blank)
        /\ s2c' = <<>> /\ rc' = "ok" /\ outcome' = "none" /\ listing' = {}
        /\ UNCHANGED <<turn, alloc_size, local, unsent, written, serverVars>>
    BY <1>1, <1>2 DEF Close, Starts
  <1>4. Len(c2s') = 1 /\ c2s'[1] = Blank /\ c2s' # <<>> /\ c2s' \in Seq(Record)
        /\ s2c' \in Seq(Record) /\ Len(s2c') = 0
    BY <1>1, <1>3, BlankType, FirstRecord
  <1>5. TypeOK'
    BY <1>2, <1>3 DEF Typed, TypeOK, serverVars
  <1>6. Typed'
    BY <1>2, <1>3, <1>4, <1>5, BlankType DEF Typed, serverVars
  <1>7. Stream' /\ InTurn' /\ Call' /\ FileRecords' /\ Believed' /\ Target'
    BY <1>3, <1>4, BlankType DEF Stream, InTurn, Call, FileRecords, Believed, Target, Lone, OfPut
  <1>8. Answer' /\ PutData' /\ GetData' /\ TransferComplete'
    BY <1>3, <1>4, BlankType DEF Answer, PutData, GetData, TransferComplete, OutcomeReported
  <1> QED
    BY <1>6, <1>7, <1>8 DEF Inv

\* The session fails, and the server may have faulted.
LEMMA BreaksInv ==
    ASSUME Inv, conv = "open", conv' = "broken", spc' \in {spc, "exited"},
           UNCHANGED <<turn, c2s, s2c, clientVars, remote, cwd, dest_file, dest_pos, unopened, unread,
                       history>>
    PROVE  Inv'
  <1> USE DEF clientVars, history
  <1>1. TypeOK'
    BY DEF Inv, Typed, TypeOK
  <1>2. Typed'
    BY <1>1 DEF Inv, Typed
  <1>3. Stream' /\ InTurn' /\ Call'
    BY DEF Inv, Stream, InTurn, Call
  <1>4. Answer'
    BY DEF Inv, Answer, Entries, OutcomeReported, SeesCategory
  <1>5. FileRecords' /\ Believed' /\ Target' /\ TransferComplete'
    BY DEF Inv, FileRecords, Believed, Target, GoesTo, Pending, TransferComplete
  <1>6. PutData'
    BY DEF Inv, PutData
  <1>7. GetData'
    BY DEF Inv, GetData, GetBlocks, Opened, Ended
  <1> QED
    BY <1>2, <1>3, <1>4, <1>5, <1>6, <1>7 DEF Inv

LEMMA OutageInv == Inv /\ Outage => Inv'
  BY BreaksInv DEF Outage, serverVars

LEMMA AListFaultsInv == Inv /\ AListFaults => Inv'
  BY BreaksInv DEF AListFaults

\* A call that ends because the session failed.
LEMMA CallFailsInv == Inv /\ CallFails => Inv'
  <1> SUFFICES ASSUME Inv, CallFails PROVE Inv'
    OBVIOUS
  <1> USE DEF CallFails, convVars, serverVars, history
  <1>1. Typed'
    BY DEF Inv, Typed, TypeOK
  <1>2. Stream' /\ InTurn' /\ Call'
    BY DEF Inv, Stream, InTurn, Call
  <1>3. Answer'
    BY DEF Inv, Answer, Call, OutcomeReported
  <1>4. FileRecords' /\ Believed' /\ Target' /\ TransferComplete'
    BY DEF Inv, FileRecords, Believed, Target, GoesTo, Pending, TransferComplete
  <1>5. PutData' /\ GetData'
    BY DEF PutData, GetData
  <1> QED
    BY <1>1, <1>2, <1>3, <1>4, <1>5 DEF Inv

\* The answer to a call: what it makes of it, and what is left to read.
LEMMA GetsAnswerInv == Inv /\ GetsAnswer => Inv'
  <1> SUFFICES ASSUME Inv, GetsAnswer PROVE Inv'
    OBVIOUS
  <1> DEFINE r == s2c[1]
  <1>1. /\ cpc = "answer" /\ s2c # <<>> /\ s2c' = Tail(s2c) /\ rc' = Result(r) /\ belief' = Told(r)
        /\ first_param' = "rc" /\ cpc' = "idle"
        /\ listing' = IF call.type = "list" /\ rc' = "ok" THEN call.spec \cup {Dot} ELSE {}
        /\ UNCHANGED <<conv, turn, c2s, outages, call, calls, alloc_size, local, unsent, written,
                       dir_entry, no_more_entries, serverVars, outcome, io_error>>
    BY DEF GetsAnswer, Inv, Typed
  <1>2. /\ Len(s2c) \in Nat /\ Len(s2c) >= 1 /\ Tail(s2c) \in Seq(Record)
        /\ Len(Tail(s2c)) = Len(s2c) - 1 /\ (Tail(s2c) = <<>>) = (Len(s2c) = 1)
        /\ \A i \in 1 .. Len(s2c) - 1 : Tail(s2c)[i] = s2c[i + 1]
    BY <1>1, TailFacts DEF Inv, Typed
  <1>3. /\ IF call.type = "list" /\ ~r.failed THEN Entries(2, call.spec \cup {Dot}) ELSE Len(s2c) = 1
        /\ call.type # "send_file" => outcome = IF r.failed THEN "err" ELSE "ok"
    BY <1>1 DEF Inv, Answer
  <1>4. c2s = <<>> /\ call.type \in (Lone \ {"close", "request_file"}) \cup {"send_file"}
    BY <1>1 DEF Inv, Call
  <1>5. conv = "open" => turn = "client" /\ spc = "receive"
    BY <1>1 DEF Inv, InTurn, Typed, TypeOK
  <1> HIDE DEF r
  <1>6. call.type = "list" => (rc' = "ok") = ~r.failed
    BY <1>1 DEF Result
  <1>7. ASSUME call.type = "list", ~r.failed PROVE Entries(1, listing)' /\ listing' # {}
    <2>1. listing' = call.spec \cup {Dot} /\ Len(s2c) >= 2 /\ s2c[Len(s2c)].type = "list_complete"
          /\ \A i \in 2 .. Len(s2c) - 1 : s2c[i].type = "list_entry"
                                         /\ s2c[i].name \in (call.spec \cup {Dot}) \cup {NoName}
      BY <1>1, <1>3, <1>6, <1>7 DEF Entries
    <2>2. Len(s2c') = Len(s2c) - 1 /\ Len(s2c') >= 1 /\ s2c'[Len(s2c')] = s2c[Len(s2c)]
      BY <1>1, <1>2, <2>1
    <2>3. \A i \in 1 .. Len(s2c') - 1 : i + 1 \in 2 .. Len(s2c) - 1 /\ s2c'[i] = s2c[i + 1]
      BY <1>1, <1>2, <2>2
    <2> QED
      BY <2>1, <2>2, <2>3 DEF Entries
  <1>8. ~(call.type = "list" /\ ~r.failed) => listing' = {} /\ s2c' = <<>>
    BY <1>1, <1>2, <1>3, <1>6
  <1>9. OutcomeReported'
    <2>1. \/ rc' = "ok" /\ call.type \in {"rename", "remove_dir", "list"}
          \/ rc' = "ok" /\ call.type \in {"change_dir", "create_dir"} /\ SeesCategory
          => ~r.failed
      BY <1>1 DEF Result
    <2>2. rc' \in {"fail", "input_error"} =>
             r.failed /\ call.type \in {"rename", "remove_dir", "list", "change_dir", "create_dir"}
      BY <1>1 DEF Result
    <2>3. call.type # "request_file" /\ SeesCategory' = SeesCategory
      BY <1>1, <1>4 DEF Lone, SeesCategory
    <2> QED
      BY <1>1, <1>3, <2>1, <2>2, <2>3 DEF OutcomeReported
  <1>10. Typed'
    BY <1>1, <1>2 DEF Inv, Typed, TypeOK, serverVars
  <1>11. Stream' /\ InTurn' /\ Call'
    BY <1>1, <1>4, <1>5, <1>7, <1>8 DEF Inv, Stream, InTurn, Call, serverVars
  <1>12. Answer'
    BY <1>1, <1>7, <1>8, <1>9 DEF Answer
  <1>13. Believed'
    <2>1. conv = "open" /\ belief # NoName =>
             \/ belief = cwd
             \/ call.type \in {"remove_dir", "rename"}
             \/ call.type = "change_dir" /\ ~r.failed
      <3>1. cpc = "answer" /\ s2c # <<>>
        BY <1>1
      <3> QED
        BY <3>1 DEF Inv, Believed, r
    <2>2. conv = "open" =>
             /\ call.type = "change_dir" /\ ~r.failed => cwd = call.name
             /\ call.type = "query_dir" => r.name \in {NoName, cwd}
      BY <1>1 DEF Inv, Believed, r
    <2>3. conv = "open" /\ Told(r) # NoName => Told(r) = cwd
      <3> SUFFICES ASSUME conv = "open", Told(r) # NoName PROVE Told(r) = cwd
        OBVIOUS
      <3>1. CASE call.type = "change_dir"
        <4>1. SeesCategory
          BY <3>1 DEF Told
        <4>2. CASE r.failed
          <5>1. Result(r) = "fail"
            BY <3>1, <4>1, <4>2 DEF Result
          <5>2. Told(r) = belief
            BY <3>1, <4>1, <5>1 DEF Told
          <5> QED
            BY <2>1, <3>1, <4>2, <5>2
        <4>3. CASE ~r.failed
          <5>1. Result(r) = "ok"
            BY <3>1, <4>3 DEF Result
          <5>2. Told(r) = call.name
            BY <3>1, <4>1, <5>1 DEF Told
          <5> QED
            BY <2>2, <3>1, <4>3, <5>2
        <4> QED
          BY <4>2, <4>3
      <3>2. CASE call.type = "query_dir"
        BY <2>2, <3>2 DEF Told
      <3>3. CASE call.type \in {"rename", "remove_dir"}
        BY <3>3 DEF Told
      <3>4. CASE call.type \notin {"change_dir", "query_dir", "rename", "remove_dir"}
        <4>1. Told(r) = belief
          BY <3>4 DEF Told
        <4> QED
          BY <2>1, <3>4, <4>1
      <3> QED
        BY <3>1, <3>2, <3>3, <3>4
    <2> QED
      BY <1>1, <2>3 DEF Believed, serverVars
  <1>14. FileRecords' /\ Target' /\ PutData' /\ GetData'
    BY <1>1, <1>4 DEF Inv, FileRecords, Target, PutData, GetData
  <1>15. TransferComplete'
    BY <1>1, <1>4 DEF Inv, PutData, TransferComplete, Lone, serverVars
  <1> QED
    BY <1>10, <1>11, <1>12, <1>13, <1>14, <1>15 DEF Inv

\* aftp_dir_read: an entry that was asked for, or the end.
LEMMA DirReadFacts ==
    ASSUME Inv, DirRead, s2c # <<>>, s2c' = Tail(s2c)
    PROVE  /\ Len(s2c) \in Nat /\ Len(s2c) >= 1 /\ s2c' \in Seq(Record)
           /\ Len(s2c') = Len(s2c) - 1 /\ (s2c' = <<>>) = (Len(s2c) = 1) /\ Head(s2c) = s2c[1]
           /\ \A i \in 1 .. Len(s2c) - 1 : s2c'[i] = s2c[i + 1]
           /\ IF s2c[1].type = "list_entry"
                THEN s2c[1].name \in listing \cup {NoName} /\ Len(s2c) > 1
                ELSE Len(s2c) = 1
  <1>1. /\ Len(s2c) \in Nat /\ Len(s2c) >= 1 /\ s2c' \in Seq(Record) /\ Head(s2c) = s2c[1]
        /\ Len(s2c') = Len(s2c) - 1 /\ (s2c' = <<>>) = (Len(s2c) = 1)
        /\ \A i \in 1 .. Len(s2c) - 1 : s2c'[i] = s2c[i + 1]
    BY TailFacts DEF Inv, Typed
  <1>2. Entries(1, listing)
    BY DEF Inv, Answer, DirRead
  <1>3. IF s2c[1].type = "list_entry"
                THEN s2c[1].name \in listing \cup {NoName} /\ Len(s2c) > 1
                ELSE Len(s2c) = 1
    BY <1>1, <1>2 DEF Entries
  <1> QED
    BY <1>1, <1>3

LEMMA DirReadInv == Inv /\ DirRead => Inv'
  <1> SUFFICES ASSUME Inv, DirRead PROVE Inv'
    OBVIOUS
  <1>1. /\ cpc = "idle" /\ cpc' = "idle" /\ call' = [Blank EXCEPT !.type = "dir_read"]
        /\ UNCHANGED <<conv, turn, c2s, outages, alloc_size, local, unsent, written, serverVars,
                       outcome, io_error, belief>>
        /\ listing # {} /\ rc' \in {"ok", "comm"}
    BY DEF DirRead
  <1>2. call'.type = "dir_read" /\ WellFormed(call')
    BY <1>1, OtherType
  <1>3. CASE s2c # <<>> /\ s2c' = Tail(s2c)
            /\ LET p == IF s2c[1].name # NoName THEN s2c[1].name ELSE first_param
               IN IF s2c[1].type = "list_entry"
                    THEN /\ first_param' = p
                         /\ IF p # "rc" THEN dir_entry' = p ELSE UNCHANGED dir_entry
                         /\ UNCHANGED listing
                    ELSE listing' = {}
    <2>1. /\ Len(s2c) \in Nat /\ Len(s2c) >= 1 /\ s2c' \in Seq(Record)
          /\ Len(s2c') = Len(s2c) - 1 /\ (s2c' = <<>>) = (Len(s2c) = 1)
          /\ \A i \in 1 .. Len(s2c) - 1 : s2c'[i] = s2c[i + 1]
          /\ IF s2c[1].type = "list_entry"
               THEN s2c[1].name \in listing \cup {NoName} /\ Len(s2c) > 1
               ELSE Len(s2c) = 1
      BY <1>3, DirReadFacts
    <2>2. Entries(1, listing) /\ (first_param # "rc" => dir_entry \in listing /\ first_param \in listing)
      BY <1>1 DEF Inv, Answer
    <2>3. /\ listing' # {} => Entries(1, listing)'
          /\ listing' # {} /\ first_param' # "rc" => dir_entry' \in listing' /\ first_param' \in listing'
      <3>1. CASE s2c[1].type = "list_entry"
        <4>1. s2c'[Len(s2c')] = s2c[Len(s2c)] /\ Len(s2c') >= 1
          BY <2>1, <3>1
        <4>2. \A i \in 1 .. Len(s2c') - 1 : i + 1 \in 1 .. Len(s2c) - 1 /\ s2c'[i] = s2c[i + 1]
          BY <2>1
        <4>3. listing' = listing
          BY <1>3, <3>1
        <4>4. Entries(1, listing)'
          BY <2>2, <4>1, <4>2, <4>3 DEF Entries
        <4> QED
          BY <1>3, <2>1, <2>2, <3>1, <4>3, <4>4
      <3>2. CASE s2c[1].type # "list_entry"
        BY <1>3, <3>2
      <3> QED
        BY <3>1, <3>2
    <2>4. listing' = {} => s2c' = <<>>
      BY <1>1, <1>3, <2>1
    <2>5. \A i \in 1 .. Len(s2c') : s2c'[i].type = "file_data" => s2c'[i].block \in Block
      <3> SUFFICES ASSUME NEW i \in 1 .. Len(s2c'), s2c'[i].type = "file_data"
                   PROVE  s2c'[i].block \in Block
        OBVIOUS
      <3>1. Len(s2c) \in Nat /\ Len(s2c') = Len(s2c) - 1
        BY <2>1
      <3>2. i \in 1 .. Len(s2c) - 1 /\ i + 1 \in 1 .. Len(s2c)
        BY ONLY <3>1, i \in 1 .. Len(s2c')
      <3>3. s2c'[i] = s2c[i + 1]
        BY <2>1, <3>2
      <3> QED
        BY <3>2, <3>3 DEF Inv, Typed
    <2>6. Typed'
      BY <1>1, <1>2, <2>1, <2>5 DEF Inv, Typed, TypeOK, serverVars
    <2>7. Stream' /\ InTurn' /\ Call'
      BY <1>1, <1>2, <1>3, <2>4 DEF Inv, Stream, InTurn, Call, serverVars
    <2>8. Answer'
      BY <1>1, <1>2, <2>3 DEF Answer, OutcomeReported
    <2>9. FileRecords' /\ Believed' /\ Target' /\ PutData' /\ GetData' /\ TransferComplete'
      BY <1>1, <1>2 DEF Inv, FileRecords, Believed, Target, GoesTo, Pending, PutData, GetData,
                        TransferComplete, serverVars
    <2> QED
      BY <2>6, <2>7, <2>8, <2>9 DEF Inv
  <1>4. CASE conv = "broken" /\ listing' = {} /\ UNCHANGED s2c
    <2>1. Typed'
      BY <1>1, <1>2, <1>4 DEF Inv, Typed, TypeOK, serverVars
    <2>2. Stream' /\ InTurn' /\ Call'
      BY <1>1, <1>2, <1>4 DEF Inv, Stream, InTurn, Call, serverVars
    <2>3. Answer'
      BY <1>1, <1>2, <1>4 DEF Answer, OutcomeReported
    <2>4. FileRecords' /\ Believed' /\ Target' /\ PutData' /\ GetData' /\ TransferComplete'
      BY <1>1, <1>2, <1>4 DEF Inv, FileRecords, Believed, Target, GoesTo, Pending, PutData, GetData,
                              TransferComplete, serverVars
    <2> QED
      BY <2>1, <2>2, <2>3, <2>4 DEF Inv
  <1>5. s2c # <<>> => Head(s2c) = s2c[1]
    BY TailFacts DEF Inv, Typed
  <1> QED
    BY <1>3, <1>4, <1>5 DEF DirRead

\* The blocks still to be sent move into the stream.
LEMMA BlockSent ==
    ASSUME Inv, NEW CONSTANT off \in {0, 1}, NEW CONSTANT pos \in Nat, PutBlocks(off, pos),
           cpc = "put", cpc' = "put", unsent # <<>>, NEW d \in Record, d.type = "file_data",
           d.block = Head(unsent), c2s' = Append(c2s, d), unsent' = Tail(unsent),
           call' = call, local' = local
    PROVE  PutBlocks(off, pos)'
  <1> DEFINE L == local[call.name]
             k == Len(c2s) - off
  <1>1. /\ Len(c2s) \in Nat /\ Len(c2s') = Len(c2s) + 1 /\ c2s'[Len(c2s) + 1] = d
        /\ \A i \in 1 .. Len(c2s) : c2s'[i] = c2s[i]
    BY AppendFacts DEF Inv, Typed
  <1>2. /\ Head(unsent) = unsent[1] /\ Len(unsent) \in Nat /\ Len(unsent) >= 1
        /\ Len(unsent') = Len(unsent) - 1
        /\ \A i \in 1 .. Len(unsent) - 1 : unsent'[i] = unsent[i + 1]
    BY TailFacts DEF Inv, Typed, TypeOK
  <1>3. /\ k \in Nat /\ pos + k + Len(unsent) = Len(L)
        /\ \A i \in 1 .. k : c2s[off + i].type = "file_data" /\ c2s[off + i].block = L[pos + i]
        /\ \A i \in 1 .. Len(unsent) : unsent[i] = L[pos + k + i]
    BY <1>1 DEF PutBlocks
  <1> HIDE DEF L
  <1>4. pos + (k + 1) + Len(unsent') = Len(L) /\ k + 1 >= 0 /\ Len(c2s') - off = k + 1
    <2>1. Len(c2s) \in Nat /\ Len(c2s') = Len(c2s) + 1 /\ Len(unsent) \in Nat
          /\ Len(unsent') = Len(unsent) - 1
      BY <1>1, <1>2
    <2>2. k \in Nat /\ pos + k + Len(unsent) = Len(L) /\ off \in Nat
      BY <1>3
    <2> QED
      BY ONLY <2>1, <2>2, pos \in Nat
  <1>5. ASSUME NEW i \in 1 .. k + 1
        PROVE  c2s'[off + i].type = "file_data" /\ c2s'[off + i].block = L[pos + i]
    <2>1. CASE i \in 1 .. k
      <3>1. off + i \in 1 .. Len(c2s)
        BY <1>1, <1>3, <2>1
      <3> QED
        BY <1>1, <1>3, <2>1, <3>1
    <2>2. CASE i = k + 1
      <3>1. off + i = Len(c2s) + 1 /\ pos + i = pos + k + 1
        BY <1>1, <1>3, <2>2
      <3>2. unsent[1] = L[pos + k + 1]
        <4>1. 1 \in 1 .. Len(unsent)
          BY <1>2
        <4> QED
          BY <1>3, <4>1
      <3> QED
        BY <1>1, <1>2, <3>1, <3>2
    <2> QED
      BY <1>3, <2>1, <2>2
  <1>6. ASSUME NEW i \in 1 .. Len(unsent')
        PROVE  unsent'[i] = L[pos + (k + 1) + i]
    <2>1. i \in 1 .. Len(unsent) - 1 /\ i + 1 \in 1 .. Len(unsent)
          /\ pos + k + (i + 1) = pos + (k + 1) + i
      BY <1>2, <1>3
    <2>2. unsent[i + 1] = L[pos + k + (i + 1)]
      BY <1>3, <2>1
    <2> QED
      BY <1>2, <2>1, <2>2
  <1>7. L = local'[call'.name]
    BY DEF L
  <1> HIDE DEF k
  <1>8. Len(c2s') - off - 0 = k + 1
    BY <1>1, <1>4
  <1> QED
    BY <1>4, <1>5, <1>6, <1>7, <1>8 DEF PutBlocks

\* A further record does not change which record is the first.
LEMMA StillPending ==
    ASSUME Inv, NEW d \in Record, d.type # "send_file", c2s' = Append(c2s, d)
    PROVE  Pending' = Pending /\ (Pending => c2s'[1] = c2s[1])
  <1>1. c2s \in Seq(Record)
    BY DEF Inv, Typed
  <1>2. CASE c2s = <<>>
    BY <1>2 DEF Pending
  <1>3. CASE c2s # <<>>
    <2>1. c2s' # <<>> /\ c2s'[1] = c2s[1]
      BY <1>1, <1>3
    <2> QED
      BY <1>3, <2>1 DEF Pending
  <1> QED
    BY <1>2, <1>3

LEMMA PutsBlockInv == Inv /\ PutsBlock => Inv'
  <1> SUFFICES ASSUME Inv, PutsBlock PROVE Inv'
    OBVIOUS
  <1>1. /\ cpc = "put" /\ cpc' = "put" /\ unsent # <<>> /\ conv = "open" /\ conv' = "open"
        /\ UNCHANGED <<turn, s2c, outages, call, rc, calls, alloc_size, local, written, first_param,
                       dir_entry, no_more_entries, serverVars, outcome, listing, belief>>
    BY DEF PutsBlock
  <1>2. /\ turn = "client" /\ spc = "receive" /\ s2c = <<>> /\ call.type = "send_file" /\ listing = {}
        /\ \A i \in 1 .. Len(c2s) : c2s[i].type \in {"send_file", "file_data"}
        /\ c2s \in Seq(Record) /\ Len(c2s) \in Nat
    BY <1>1 DEF Inv, InTurn, Call, Typed
  <1>3. FileRecords' /\ GetData' /\ TransferComplete' /\ Believed' /\ Answer'
    BY <1>1, <1>2 DEF Inv, FileRecords, GetData, TransferComplete, Believed, Answer, OutcomeReported,
                      serverVars
  <1> DEFINE d == [Blank EXCEPT !.type = "file_data", !.name = call.name,
                                !.alloc = call.alloc, !.block = Head(unsent)]
  <1>4. CASE c2s' = Append(c2s, d) /\ unsent' = Tail(unsent) /\ UNCHANGED io_error
    <2>1. call \in Record /\ call.name \in Names /\ call.alloc \in BOOLEAN
      BY <1>2 DEF Inv, Typed, WellFormed, Record
    <2>2. Head(unsent) \in Block /\ Tail(unsent) \in Seq(Block)
      BY <1>1 DEF Inv, Typed, TypeOK
    <2>3. /\ d \in Record /\ d.type = "file_data" /\ d.name = call.name /\ d.alloc = call.alloc
          /\ d.block = Head(unsent)
      BY <2>1, <2>2 DEF Blank, Record, Lone, OfPut
    <2> HIDE DEF d
    <2>4. WellFormed(d)
      BY <2>1, <2>2, <2>3 DEF WellFormed
    <2>5. /\ c2s' \in Seq(Record) /\ Len(c2s') = Len(c2s) + 1 /\ c2s' # <<>>
          /\ \A i \in 1 .. Len(c2s') : \/ i = Len(c2s') /\ c2s'[i] = d
                                       \/ i \in 1 .. Len(c2s) /\ c2s'[i] = c2s[i]
      BY <1>2, <1>4, <2>3, AppendFacts
    <2>6. Pending' = Pending /\ (Pending => c2s'[1] = c2s[1])
      BY <1>4, <2>3, StillPending
    <2>7. \A i \in 1 .. Len(c2s') : WellFormed(c2s'[i])
      BY <2>4, <2>5 DEF Inv, Typed
    <2>8. Typed'
      BY <1>1, <1>4, <2>2, <2>5, <2>7 DEF Inv, Typed, TypeOK, serverVars
    <2>9. Stream'
      <3> SUFFICES ASSUME NEW i \in 1 .. Len(c2s')
                   PROVE  c2s'[i].type \in {"send_file", "file_data"}
                          /\ (c2s'[i].type = "send_file" => i = 1)
        BY DEF Stream, Lone, OfPut
      <3> QED
        BY <1>2, <2>3, <2>5 DEF Inv, Stream
    <2>10. \A i \in 1 .. Len(c2s') : c2s'[i].type \in {"send_file", "file_data"}
      BY <1>2, <2>3, <2>5
    <2>11. InTurn' /\ Call'
      BY <1>1, <1>2, <2>5, <2>10 DEF Inv, InTurn, Call, serverVars
    <2>12. Target'
      <3>2. IF Pending THEN c2s[1] = call ELSE GoesTo(call)
        BY <1>1 DEF Inv, Target
      <3>3. dest_file' = dest_file /\ unopened' = unopened
        BY <1>1 DEF serverVars
      <3>4. ASSUME NEW i \in 1 .. Len(c2s'), c2s'[i].type = "file_data"
            PROVE  IF Pending' THEN c2s'[i].name = c2s'[1].name /\ c2s'[i].alloc = c2s'[1].alloc
                               ELSE dest_file' \in Names => dest_file' = c2s'[i].name \/ unopened'
        <4>1. CASE c2s'[i] = d
          BY <2>3, <2>6, <3>2, <3>3, <4>1 DEF GoesTo
        <4>2. CASE i \in 1 .. Len(c2s) /\ c2s'[i] = c2s[i]
          <5>1. IF Pending THEN c2s[i].name = c2s[1].name /\ c2s[i].alloc = c2s[1].alloc ELSE GoesTo(c2s[i])
            BY <3>4, <4>2 DEF Inv, Target
          <5> QED
            BY <2>6, <3>3, <4>2, <5>1 DEF GoesTo
        <4> QED
          BY <2>5, <4>1, <4>2
      <3>5. IF Pending' THEN c2s'[1] = call' ELSE GoesTo(call)'
        BY <1>1, <2>6, <3>2, <3>3 DEF GoesTo
      <3> QED
        BY <3>4, <3>5 DEF Target, GoesTo
    <2>13. PutData'
      <3>1. IsFile(local'[call'.name])
        BY <1>1, <1>2 DEF Inv, PutData
      <3>2. ASSUME ~io_error', Pending' PROVE c2s'[1] = call' /\ PutBlocks(1, 0)'
        <4>1. c2s[1] = call /\ PutBlocks(1, 0)
          BY <1>1, <1>2, <1>4, <2>6, <3>2 DEF Inv, PutData
        <4>2. PutBlocks(1, 0)'
          BY <1>1, <1>4, <2>3, <4>1, BlockSent
        <4> QED
          BY <1>1, <2>6, <3>2, <4>1, <4>2
      <3>3. ASSUME ~io_error', ~Pending', outcome' = "ok"
            PROVE  /\ dest_file' = call'.name /\ PutBlocks(0, dest_pos)'
                   /\ \A i \in 1 .. dest_pos' : remote'[call'.name][i] = local'[call'.name][i]
        <4>1. dest_file = call.name /\ PutBlocks(0, dest_pos)
              /\ \A i \in 1 .. dest_pos : remote[call.name][i] = local[call.name][i]
          BY <1>1, <1>2, <1>4, <2>6, <3>3 DEF Inv, PutData
        <4>2. PICK pos \in Nat : pos = dest_pos
          BY DEF Inv, Typed
        <4>3. PutBlocks(0, pos)
          BY <4>1, <4>2
        <4>4. PutBlocks(0, pos)'
          BY <1>1, <1>4, <2>3, <4>3, BlockSent
        <4>5. dest_pos' = pos
          BY <1>1, <4>2 DEF serverVars
        <4>6. PutBlocks(0, dest_pos)'
          BY <4>4, <4>5 DEF PutBlocks
        <4> QED
          BY <1>1, <4>1, <4>6 DEF serverVars
      <3> QED
        BY <1>1, <1>2, <3>1, <3>2, <3>3 DEF PutData
    <2> QED
      BY <1>3, <2>8, <2>9, <2>11, <2>12, <2>13 DEF Inv
  <1>5. CASE unsent' = <<>> /\ io_error' = TRUE /\ UNCHANGED c2s
    <2>1. Typed'
      BY <1>1, <1>5 DEF Inv, Typed, TypeOK, serverVars
    <2>2. Stream' /\ InTurn' /\ Call' /\ Target'
      BY <1>1, <1>5 DEF Inv, Stream, InTurn, Call, Target, Pending, GoesTo, serverVars
    <2>3. PutData'
      BY <1>1, <1>5 DEF Inv, PutData
    <2> QED
      BY <1>3, <2>1, <2>2, <2>3 DEF Inv
  <1> QED
    BY <1>4, <1>5 DEF PutsBlock

LEMMA PutsCompleteInv == Inv /\ PutsComplete => Inv'
  <1> SUFFICES ASSUME Inv, PutsComplete PROVE Inv'
    OBVIOUS
  <1> DEFINE d == [Blank EXCEPT !.type = "file_complete"]
  <1>1. /\ cpc = "put" /\ cpc' = "answer" /\ conv = "open" /\ conv' = "open" /\ turn' = "server"
        /\ c2s' = Append(c2s, d) /\ unsent = <<>>
        /\ UNCHANGED <<s2c, outages, call, rc, calls, alloc_size, local, unsent, written, first_param,
                       dir_entry, no_more_entries, serverVars, history>>
    BY DEF PutsComplete
  <1>2. d \in Record /\ WellFormed(d) /\ d.type = "file_complete"
    BY OtherType
  <1> HIDE DEF d
  <1>3. /\ turn = "client" /\ spc = "receive" /\ s2c = <<>> /\ call.type = "send_file" /\ listing = {}
        /\ \A i \in 1 .. Len(c2s) : c2s[i].type \in {"send_file", "file_data"}
        /\ c2s \in Seq(Record) /\ Len(c2s) \in Nat
    BY <1>1 DEF Inv, InTurn, Call, Typed
  <1>4. FileRecords' /\ GetData' /\ TransferComplete' /\ Believed' /\ Answer'
    BY <1>1, <1>3 DEF Inv, FileRecords, GetData, TransferComplete, Believed, Answer, OutcomeReported,
                      serverVars, history
  <1>5. /\ c2s' \in Seq(Record) /\ Len(c2s') = Len(c2s) + 1 /\ c2s' # <<>> /\ c2s'[Len(c2s')] = d
        /\ \A i \in 1 .. Len(c2s') : \/ i = Len(c2s') /\ c2s'[i] = d
                                     \/ i \in 1 .. Len(c2s) /\ c2s'[i] = c2s[i]
    BY <1>1, <1>2, <1>3, AppendFacts
  <1>6. Pending' = Pending /\ (Pending => c2s'[1] = c2s[1])
    BY <1>1, <1>2, StillPending
  <1>7. \A i \in 1 .. Len(c2s') : WellFormed(c2s'[i])
    BY <1>2, <1>5 DEF Inv, Typed
  <1>8. Typed'
    BY <1>1, <1>5, <1>7 DEF Inv, Typed, TypeOK, serverVars
  <1>9. Stream'
    <2> SUFFICES ASSUME NEW i \in 1 .. Len(c2s')
                 PROVE  /\ c2s'[i].type \in OfPut
                        /\ c2s'[i].type = "send_file" => i = 1
                        /\ c2s'[i].type = "file_complete" => i = Len(c2s')
      BY DEF Stream, Lone, OfPut
    <2> QED
      BY <1>2, <1>3, <1>5 DEF Inv, Stream, OfPut
  <1>10. InTurn' /\ Call'
    BY <1>1, <1>2, <1>3, <1>5 DEF Inv, InTurn, Call, serverVars, history
  <1>11. Target'
    <2>1. ASSUME NEW i \in 1 .. Len(c2s'), c2s'[i].type = "file_data"
          PROVE  IF Pending' THEN c2s'[i].name = c2s'[1].name /\ c2s'[i].alloc = c2s'[1].alloc
                             ELSE dest_file' \in Names => dest_file' = c2s'[i].name \/ unopened'
      <3>1. i \in 1 .. Len(c2s) /\ c2s'[i] = c2s[i]
        BY <1>2, <1>5, <2>1
      <3>2. IF Pending THEN c2s[i].name = c2s[1].name /\ c2s[i].alloc = c2s[1].alloc ELSE GoesTo(c2s[i])
        BY <2>1, <3>1 DEF Inv, Target
      <3> QED
        BY <1>1, <1>6, <3>1, <3>2 DEF GoesTo, serverVars
    <2> QED
      BY <1>1, <2>1 DEF Target, GoesTo
  <1>12. PutData'
    <2>1. ASSUME NEW CONSTANT off \in {0, 1}, NEW CONSTANT pos \in Nat, PutBlocks(off, pos)
          PROVE  PutBlocks(off, pos)'
      <3>1. Len(c2s') - off - 1 = Len(c2s) - off - 0
        BY <1>3, <1>5
      <3> DEFINE k == Len(c2s) - off - 0
      <3>2. k \in Int /\ \A i \in 1 .. k : off + i \in 1 .. Len(c2s)
        BY <1>3
      <3>3. \A i \in 1 .. Len(c2s) : c2s'[i] = c2s[i]
        BY <1>1, <1>2, <1>3, AppendFacts
      <3>4. /\ k >= 0 /\ pos + k + Len(unsent) = Len(local[call.name])
            /\ \A i \in 1 .. k : /\ c2s[off + i].type = "file_data"
                                 /\ c2s[off + i].block = local[call.name][pos + i]
            /\ \A i \in 1 .. Len(unsent) : unsent[i] = local[call.name][pos + k + i]
        BY <1>1, <2>1 DEF PutBlocks
      <3> HIDE DEF k
      <3>5. Len(c2s') - off - 1 = k
        BY <3>1 DEF k
      <3> QED
        BY <1>1, <3>2, <3>3, <3>4, <3>5 DEF PutBlocks
    <2>2. PICK pos \in Nat : pos = dest_pos
      BY DEF Inv, Typed
    <2>3. PutBlocks(1, 0) => PutBlocks(1, 0)'
      BY <2>1
    <2>4. PutBlocks(0, dest_pos) => PutBlocks(0, dest_pos)'
      <3>1. PutBlocks(0, pos) => PutBlocks(0, pos)'
        BY <2>1
      <3>2. dest_pos' = pos
        BY <1>1, <2>2 DEF serverVars
      <3> QED
        BY <2>2, <3>1, <3>2 DEF PutBlocks
    <2> HIDE DEF PutBlocks
    <2> QED
      BY <1>1, <1>3, <1>6, <2>3, <2>4 DEF Inv, PutData, serverVars, history
  <1> QED
    BY <1>4, <1>8, <1>9, <1>10, <1>11, <1>12 DEF Inv

\* The library reads a record of a get.
LEMMA FileRecordRead ==
    ASSUME Inv, cpc = "file", s2c # <<>>, s2c' = Tail(s2c)
    PROVE  /\ Len(s2c) \in Nat /\ Len(s2c) >= 1 /\ s2c' \in Seq(Record) /\ Head(s2c) = s2c[1]
           /\ Len(s2c') = Len(s2c) - 1 /\ (s2c' = <<>>) = (Len(s2c) = 1)
           /\ \A i \in 1 .. Len(s2c) - 1 : s2c'[i] = s2c[i + 1]
           /\ c2s = <<>> /\ listing = {} /\ call.type = "request_file" /\ conv \in {"open", "broken"}
           /\ s2c[1].type \in {"simple", "send_file", "file_data", "file_complete"}
           /\ s2c[1].type \in {"simple", "file_complete"} => Len(s2c) = 1
           /\ outcome = IF s2c[1].type = "simple" THEN "err" ELSE "ok"
           /\ call.name \in Names /\ call.to \in Names
           /\ IsFile(local[call.to]) /\ local[call.to] \in Seq(Block) /\ written <= Len(local[call.to])
           /\ written \in Nat
  <1>1. s2c \in Seq(Record) /\ local \in [Names -> Contents]
    BY DEF Inv, Typed, TypeOK
  <1>2. /\ Len(s2c) \in Nat /\ Len(s2c) >= 1 /\ s2c' \in Seq(Record) /\ Head(s2c) = s2c[1]
        /\ Len(s2c') = Len(s2c) - 1 /\ (s2c' = <<>>) = (Len(s2c) = 1)
        /\ \A i \in 1 .. Len(s2c) - 1 : s2c'[i] = s2c[i + 1]
    BY <1>1, TailFacts
  <1>3. c2s = <<>> /\ listing = {} /\ call.type = "request_file" /\ conv \in {"open", "broken"}
    BY DEF Inv, Call
  <1>4. /\ s2c[1].type \in {"simple", "send_file", "file_data", "file_complete"}
        /\ s2c[1].type \in {"simple", "file_complete"} => Len(s2c) = 1
        /\ outcome = IF s2c[1].type = "simple" THEN "err" ELSE "ok"
    <2>1. 1 \in 1 .. Len(s2c)
      BY <1>2
    <2>2. \/ /\ s2c[1].type \in OfPut
             /\ s2c[1].type = "file_complete" => 1 = Len(s2c)
          \/ Len(s2c) = 1 /\ s2c[1].type = "simple"
      BY <2>1 DEF Inv, FileRecords
    <2>3. outcome = IF s2c[1].type = "simple" THEN "err" ELSE "ok"
      BY DEF Inv, FileRecords
    <2> QED
      BY <2>2, <2>3 DEF OfPut
  <1>5. call.name \in Names /\ call.to \in Names
    BY <1>3 DEF Inv, Typed, WellFormed
  <1>6. IsFile(local[call.to]) /\ written <= Len(local[call.to]) /\ written \in Nat
    BY DEF Inv, Typed
  <1>7. local[call.to] \in Seq(Block)
    BY <1>1, <1>5, <1>6, FileIsSeq
  <1> QED
    BY <1>2, <1>3, <1>4, <1>5, <1>6, <1>7

\* What is left of a get after its SEND_FILE record.
LEMMA OpenedRead ==
    ASSUME Inv, cpc = "file", s2c # <<>>, s2c' = Tail(s2c), s2c[1].type = "send_file",
           NEW CONSTANT c \in {0, 1}, GetBlocks(1, c),
           UNCHANGED <<local, written, call, remote, conv, spc, unread>>
    PROVE  GetBlocks(0, c)'
  <1> DEFINE R == remote[call.name]
             k == Len(s2c) - 1 - c
  <1>1. /\ Len(s2c) \in Nat /\ Len(s2c') = Len(s2c) - 1 /\ written \in Nat
        /\ \A i \in 1 .. Len(s2c) - 1 : s2c'[i] = s2c[i + 1]
    BY FileRecordRead
  <1>2. /\ k >= 0 /\ written + k <= Len(R)
        /\ \A i \in 1 .. written : local[call.to][i] = R[i]
        /\ \A i \in 1 .. k : s2c[1 + i].type = "file_data" /\ s2c[1 + i].block = R[written + i]
        /\ c = 1 => written + k = Len(R)
        /\ conv = "open" /\ spc = "sendfile" =>
              /\ written + k + Len(unread) = Len(R)
              /\ \A i \in 1 .. Len(unread) : unread[i] = R[written + k + i]
    BY DEF GetBlocks
  <1>3. \A i \in 1 .. k : s2c'[0 + i] = s2c[1 + i]
    BY <1>1
  <1>4. Len(s2c') - 0 - c = k
    BY <1>1
  <1> HIDE DEF k
  <1> QED
    BY <1>2, <1>3, <1>4 DEF GetBlocks

\* The block that was read is written behind the others.
LEMMA BlockRead ==
    ASSUME Inv, cpc = "file", s2c # <<>>, s2c' = Tail(s2c), s2c[1].type = "file_data",
           NEW CONSTANT c \in {0, 1}, GetBlocks(0, c), c = 1 => Len(s2c) > 1,
           local' = [local EXCEPT ![call.to] = Overwritten(@, written, s2c[1].block)],
           written' = written + 1,
           UNCHANGED <<call, remote, conv, spc, unread>>
    PROVE  GetBlocks(0, c)'
  <1> DEFINE R == remote[call.name]
             k == Len(s2c) - 0 - c
  <1>1. /\ Len(s2c) \in Nat /\ Len(s2c) >= 1 /\ Len(s2c') = Len(s2c) - 1 /\ written \in Nat
        /\ \A i \in 1 .. Len(s2c) - 1 : s2c'[i] = s2c[i + 1]
        /\ call.to \in Names /\ local[call.to] \in Seq(Block) /\ written <= Len(local[call.to])
    BY FileRecordRead
  <1>2. s2c[1].block \in Block /\ local \in [Names -> Contents]
    BY <1>1 DEF Inv, Typed, TypeOK
  <1>3. /\ \A i \in 1 .. written : local'[call'.to][i] = local[call.to][i]
        /\ local'[call'.to][written + 1] = s2c[1].block
    <2> DEFINE x == local[call.to]
               y == Overwritten(x, written, s2c[1].block)
    <2>1. x \in Seq(Block) /\ written \in Nat /\ written <= Len(x)
      BY <1>1
    <2>2. local' = [local EXCEPT ![call.to] = y] /\ call' = call
      OBVIOUS
    <2> HIDE DEF x
    <2>3. (\A i \in 1 .. written : y[i] = x[i]) /\ y[written + 1] = s2c[1].block
      <3>1. s2c[1].block \in Block
        BY <1>2
      <3> QED
        BY ONLY <2>1, <3>1, OverwrittenType
    <2> HIDE DEF y
    <2>4. local'[call'.to] = y
      BY <1>1, <1>2, <2>2
    <2> QED
      BY <2>3, <2>4 DEF x
  <1>4. /\ k >= 0 /\ written + k <= Len(R)
        /\ \A i \in 1 .. written : local[call.to][i] = R[i]
        /\ \A i \in 1 .. k : s2c[0 + i].type = "file_data" /\ s2c[0 + i].block = R[written + i]
        /\ c = 1 => written + k = Len(R)
        /\ conv = "open" /\ spc = "sendfile" =>
              /\ written + k + Len(unread) = Len(R)
              /\ \A i \in 1 .. Len(unread) : unread[i] = R[written + k + i]
    BY DEF GetBlocks
  <1>5. k \in Nat /\ k >= 1 /\ Len(s2c') - 0 - c = k - 1
    BY <1>1
  <1>6. s2c[1].block = R[written + 1]
    <2>1. 1 \in 1 .. k /\ 0 + 1 = 1
      BY <1>5
    <2> QED
      BY <1>4, <2>1
  <1>7. \A i \in 1 .. written' : local'[call'.to][i] = R[i]
    <2>1. \A i \in 1 .. written + 1 : i \in 1 .. written \/ i = written + 1
      BY <1>1
    <2> QED
      BY <1>3, <1>4, <1>6, <2>1
  <1>8. ASSUME NEW i \in 1 .. k - 1
        PROVE  s2c'[0 + i].type = "file_data" /\ s2c'[0 + i].block = R[written' + i]
    <2>1. /\ i + 1 \in 1 .. k /\ written + (i + 1) = written' + i /\ i \in 1 .. Len(s2c) - 1
          /\ 0 + (i + 1) = i + 1 /\ 0 + i = i
      BY <1>1, <1>5
    <2> HIDE DEF k
    <2> QED
      BY <1>1, <1>4, <2>1
  <1>9. written' + (k - 1) = written + k
    BY <1>1, <1>5
  <1> HIDE DEF k
  <1>10. k - 1 >= 0
    BY <1>5
  <1>11. (LET G == remote[call.name]
              q == Len(s2c) - 0 - c
          IN /\ q >= 0 /\ written + q <= Len(G)
             /\ \A i \in 1 .. written : local[call.to][i] = G[i]
             /\ \A i \in 1 .. q : s2c[0 + i].type = "file_data" /\ s2c[0 + i].block = G[written + i]
             /\ c = 1 => written + q = Len(G)
             /\ conv = "open" /\ spc = "sendfile" =>
                   /\ written + q + Len(unread) = Len(G)
                   /\ \A i \in 1 .. Len(unread) : unread[i] = G[written + q + i])'
    <2>1. Len(s2c') - 0 - c = k - 1
      BY <1>5
    <2>2. UNCHANGED <<call, remote, conv, spc, unread>>
      OBVIOUS
    <2> DEFINE j == Len(s2c') - 0 - c
               v == written'
    <2>3. j = k - 1 /\ v + j = written + k
      BY <1>9, <2>1
    <2>4. j >= 0 /\ v + j <= Len(R) /\ (c = 1 => v + j = Len(R))
      BY <1>4, <1>10, <2>3
    <2>5. \A i \in 1 .. j : s2c'[0 + i].type = "file_data" /\ s2c'[0 + i].block = R[v + i]
      BY <1>8, <2>3
    <2>6. conv = "open" /\ spc = "sendfile" =>
            /\ v + j + Len(unread) = Len(R)
            /\ \A i \in 1 .. Len(unread) : unread[i] = R[v + j + i]
      BY <1>4, <2>3
    <2>7. \A i \in 1 .. v : local'[call'.to][i] = R[i]
      BY <1>7
    <2>8. remote'[call'.name] = R
      BY <2>2
    <2> HIDE DEF R
    <2> QED
      BY <2>2, <2>4, <2>5, <2>6, <2>7, <2>8
  <1> QED
    BY <1>11 DEF GetBlocks

\* The rest of a get's records, when its first one was not the last.
LEMMA RestOfGet ==
    ASSUME Inv, cpc = "file", s2c # <<>>, s2c' = Tail(s2c), s2c[1].type \in {"send_file", "file_data"}
    PROVE  /\ \A i \in 1 .. Len(s2c') : /\ s2c'[i].type \in {"file_data", "file_complete"}
                                        /\ s2c'[i].type = "file_complete" => i = Len(s2c')
           /\ s2c' # <<>> => s2c'[Len(s2c')] = s2c[Len(s2c)]
           /\ conv = "open" /\ turn = "client" => s2c' # <<>>
           /\ ~Opened' /\ Ended' = Ended /\ (Ended => Len(s2c) > 1)
  <1>1. /\ Len(s2c) \in Nat /\ Len(s2c) >= 1
        /\ Len(s2c') = Len(s2c) - 1 /\ (s2c' = <<>>) = (Len(s2c) = 1)
        /\ \A i \in 1 .. Len(s2c) - 1 : s2c'[i] = s2c[i + 1]
    BY FileRecordRead
  <1>2. \A i \in 1 .. Len(s2c) : /\ s2c[i].type \in OfPut
                                 /\ s2c[i].type = "send_file" => i = 1
                                 /\ s2c[i].type = "file_complete" => i = Len(s2c)
    BY DEF Inv, FileRecords
  <1>3. ASSUME NEW i \in 1 .. Len(s2c')
        PROVE  /\ s2c'[i].type \in {"file_data", "file_complete"}
               /\ s2c'[i].type = "file_complete" => i = Len(s2c')
    <2>0. i \in 1 .. Len(s2c) - 1
      BY <1>1
    <2>1. i + 1 \in 1 .. Len(s2c) /\ s2c'[i] = s2c[i + 1] /\ i + 1 # 1
          /\ (i + 1 = Len(s2c) => i = Len(s2c'))
      <3>1. s2c'[i] = s2c[i + 1]
        BY <1>1, <2>0
      <3>2. Len(s2c) \in Nat /\ Len(s2c') = Len(s2c) - 1
        BY <1>1
      <3>3. i + 1 \in 1 .. Len(s2c) /\ i + 1 # 1
        BY ONLY <2>0, <3>2
      <3>4. i + 1 = Len(s2c) => i = Len(s2c')
        BY ONLY <2>0, <3>2
      <3> QED
        BY <3>1, <3>3, <3>4
    <2> QED
      BY <1>2, <2>1 DEF OfPut
  <1>4. s2c' # <<>> => s2c'[Len(s2c')] = s2c[Len(s2c)]
    BY <1>1
  <1>5. Len(s2c) = 1 => s2c[Len(s2c)].type \notin {"simple", "file_complete"}
    OBVIOUS
  <1>6. conv = "open" /\ turn = "client" => s2c' # <<>>
    BY <1>1, <1>5 DEF Inv, FileRecords
  <1>7. Ended' = Ended /\ (Ended => Len(s2c) > 1)
    BY <1>1, <1>4, <1>5 DEF Ended
  <1>8. ~Opened'
    <2>1. s2c' # <<>> => 1 \in 1 .. Len(s2c')
      BY <1>1
    <2> QED
      BY <1>3, <2>1 DEF Opened
  <1> QED
    BY <1>3, <1>4, <1>6, <1>7, <1>8

LEMMA GetsFileRecordInv == Inv /\ GetsFileRecord => Inv'
  <1> SUFFICES ASSUME Inv, GetsFileRecord PROVE Inv'
    OBVIOUS
  <1> DEFINE t == s2c[1].type
             Writes == local' = [local EXCEPT ![call.to] = Overwritten(@, written, s2c[1].block)]
                       /\ written' = written + 1 /\ UNCHANGED io_error
  <1>1. cpc = "file" /\ s2c # <<>> /\ s2c' = Tail(s2c)
    BY DEF GetsFileRecord
  <1>2. /\ Len(s2c) \in Nat /\ Len(s2c) >= 1 /\ s2c' \in Seq(Record) /\ Head(s2c) = s2c[1]
        /\ Len(s2c') = Len(s2c) - 1 /\ (s2c' = <<>>) = (Len(s2c) = 1)
        /\ \A i \in 1 .. Len(s2c) - 1 : s2c'[i] = s2c[i + 1]
        /\ c2s = <<>> /\ listing = {} /\ call.type = "request_file" /\ conv \in {"open", "broken"}
        /\ t \in {"simple", "send_file", "file_data", "file_complete"}
        /\ t \in {"simple", "file_complete"} => Len(s2c) = 1
        /\ outcome = IF t = "simple" THEN "err" ELSE "ok"
        /\ call.name \in Names /\ call.to \in Names
        /\ IsFile(local[call.to]) /\ local[call.to] \in Seq(Block) /\ written <= Len(local[call.to])
        /\ written \in Nat
    BY <1>1, FileRecordRead
  <1>3. /\ \/ t = "file_data" /\ Writes
           \/ t = "file_data" /\ io_error' = TRUE /\ UNCHANGED <<local, written>>
           \/ t # "file_data" /\ UNCHANGED <<local, written, io_error>>
        /\ cpc' = IF t \in {"simple", "file_complete"} THEN "idle" ELSE cpc
        /\ rc' = IF t = "simple" THEN "input_error" ELSE "ok"
        /\ UNCHANGED <<conv, turn, c2s, outages, call, calls, alloc_size, unsent, dir_entry,
                       no_more_entries, serverVars, outcome, listing, belief>>
    BY <1>2 DEF GetsFileRecord
  <1>4. /\ local' \in [Names -> Contents] /\ IsFile(local'[call.to])
        /\ written' \in Nat /\ written' <= Len(local'[call.to])
    <2>1. CASE t = "file_data" /\ Writes
      <3> DEFINE new == Overwritten(local[call.to], written, s2c[1].block)
      <3>0. \A i \in 1 .. Len(s2c) : s2c[i].type = "file_data" => s2c[i].block \in Block
        BY DEF Inv, Typed
      <3>1. s2c[1].block \in Block /\ local \in [Names -> Contents]
        BY <1>2, <2>1, <3>0 DEF Inv, Typed, TypeOK
      <3>2. new \in Seq(Block) /\ written + 1 <= Len(new)
        BY <1>2, <3>1, OverwrittenType
      <3>3. new \in Contents /\ IsFile(new)
        BY <3>2, SeqIsFile
      <3>4. local' = [local EXCEPT ![call.to] = new] /\ written' = written + 1
        BY <2>1
      <3> HIDE DEF new
      <3> QED
        BY <1>2, <3>1, <3>2, <3>3, <3>4
    <2>2. CASE UNCHANGED <<local, written>>
      BY <1>2, <2>2 DEF Inv, Typed, TypeOK
    <2> QED
      BY <1>3, <2>1, <2>2
  <1>5. TypeOK'
    BY <1>3, <1>4 DEF Inv, Typed, TypeOK, serverVars
  <1>6. \A i \in 1 .. Len(s2c') : s2c'[i].type = "file_data" => s2c'[i].block \in Block
    <2> SUFFICES ASSUME NEW i \in 1 .. Len(s2c'), s2c'[i].type = "file_data"
                 PROVE  s2c'[i].block \in Block
      OBVIOUS
    <2>1. Len(s2c) \in Nat /\ Len(s2c') = Len(s2c) - 1
      BY <1>2
    <2>2. i \in 1 .. Len(s2c) - 1 /\ i + 1 \in 1 .. Len(s2c)
      BY ONLY <2>1, i \in 1 .. Len(s2c')
    <2>3. s2c'[i] = s2c[i + 1]
      BY <1>2, <2>2
    <2> QED
      BY <2>2, <2>3 DEF Inv, Typed
  <1>7. Typed'
    BY <1>2, <1>3, <1>4, <1>5, <1>6 DEF Inv, Typed, serverVars
  <1>8. Believed' /\ Target' /\ PutData' /\ Stream'
    <2>1. cpc' \in {"idle", "file"} /\ c2s' = <<>> /\ Len(c2s') = 0
      BY <1>1, <1>2, <1>3
    <2>2. Believed'
      BY <1>1, <1>3, <2>1 DEF Inv, Believed, serverVars
    <2>3. Target' /\ PutData' /\ Stream'
      BY <2>1 DEF Target, PutData, Stream
    <2> QED
      BY <2>2, <2>3
  <1>9. CASE t \in {"simple", "file_complete"}
    <2>1. cpc' = "idle" /\ s2c' = <<>> /\ Len(s2c) = 1 /\ UNCHANGED <<local, written, io_error>>
      BY <1>2, <1>3, <1>9
    <2>2. conv = "open" => turn = "client" /\ spc = "receive"
      BY <1>1, <1>9, <2>1 DEF Inv, InTurn, FileRecords
    <2>3. InTurn' /\ Call' /\ FileRecords' /\ GetData'
      BY <1>2, <1>3, <2>1, <2>2 DEF InTurn, Call, FileRecords, GetData, serverVars
    <2>4. Answer'
      BY <1>2, <1>3, <1>9, <2>1 DEF Answer, OutcomeReported
    <2>5. TransferComplete'
      <3> SUFFICES ASSUME rc' = "ok", ~io_error' PROVE IsPrefix(remote'[call'.name], local'[call'.to])
        BY <1>2, <1>3 DEF TransferComplete
      <3>1. t = "file_complete" /\ outcome = "ok" /\ ~io_error
        BY <1>2, <1>3, <1>9, <2>1
      <3>2. ~Opened /\ Ended
        BY <1>1, <2>1, <3>1 DEF Opened, Ended
      <3>3. IsFile(remote[call.name]) /\ GetBlocks(0, 1)
        BY <1>1, <3>1, <3>2 DEF Inv, GetData
      <3>4. remote[call.name] \in Seq(Block)
        <4>1. remote[call.name] \in Contents
          BY <1>2 DEF Inv, Typed, TypeOK
        <4> QED
          BY <3>3, <4>1, FileIsSeq
      <3>5. Len(s2c) - 0 - 1 = 0
        BY <2>1
      <3>6. written = Len(remote[call.name])
            /\ \A i \in 1 .. written : local[call.to][i] = remote[call.name][i]
        <4>1. written + (Len(s2c) - 0 - 1) = Len(remote[call.name])
              /\ \A i \in 1 .. written : local[call.to][i] = remote[call.name][i]
          BY <3>3 DEF GetBlocks
        <4>2. Len(remote[call.name]) \in Nat /\ written \in Nat
          BY <1>2, <3>4
        <4>3. written = Len(remote[call.name])
          BY <2>1, <4>1, <4>2
        <4> QED
          BY <4>1, <4>3
      <3>7. IsPrefix(remote[call.name], local[call.to])
        BY <1>2, <3>4, <3>6, PrefixFromBlocks
      <3> QED
        BY <1>3, <2>1, <3>7 DEF serverVars
    <2> QED
      BY <1>7, <1>8, <2>3, <2>4, <2>5 DEF Inv
  <1>10. CASE t \in {"send_file", "file_data"}
    <2>1. cpc' = "file"
      BY <1>1, <1>3, <1>10
    <2>2. /\ \A i \in 1 .. Len(s2c') : /\ s2c'[i].type \in {"file_data", "file_complete"}
                                       /\ s2c'[i].type = "file_complete" => i = Len(s2c')
          /\ s2c' # <<>> => s2c'[Len(s2c')] = s2c[Len(s2c)]
          /\ conv = "open" /\ turn = "client" => s2c' # <<>>
          /\ ~Opened' /\ Ended' = Ended /\ (Ended => Len(s2c) > 1)
      BY <1>1, <1>10, RestOfGet
    <2>3. InTurn' /\ Call' /\ Answer' /\ TransferComplete'
      BY <1>1, <1>2, <1>3, <2>1, <2>2 DEF Inv, InTurn, Call, Answer, OutcomeReported,
                                          TransferComplete, serverVars
    <2>4. FileRecords'
      <3>1. s2c' # <<>> => 1 \in 1 .. Len(s2c')
        BY <1>2
      <3>2. s2c' # <<>> => s2c'[1].type # "simple"
        BY <2>2, <3>1
      <3>3. conv = "open" /\ spc = "sendfile" => outcome = "ok"
        BY <1>2, <1>10
      <3>4. conv = "open" => (turn = "client") = (s2c[Len(s2c)].type \in {"simple", "file_complete"})
        BY <1>1 DEF Inv, FileRecords
      <3> QED
        BY <1>2, <1>3, <1>10, <2>2, <3>2, <3>3, <3>4 DEF FileRecords, OfPut, serverVars
    <2>5. GetData'
      <3> SUFFICES ASSUME ~io_error'
                   PROVE  IsFile(remote'[call'.name]) /\ GetBlocks(0, IF Ended THEN 1 ELSE 0)'
        BY <2>2 DEF GetData
      <3>1. UNCHANGED <<call, remote, conv, spc, unread>>
        BY <1>3 DEF serverVars
      <3>2. outcome = "ok" /\ ~io_error
        BY <1>2, <1>3, <1>10
      <3>3. IsFile(remote[call.name]) /\ GetBlocks(IF Opened THEN 1 ELSE 0, IF Ended THEN 1 ELSE 0)
        BY <1>1, <3>2 DEF Inv, GetData
      <3>4. PICK c \in {0, 1} : c = IF Ended THEN 1 ELSE 0
        OBVIOUS
      <3>5. GetBlocks(0, c)'
        <4>1. CASE t = "send_file"
          <5>1. GetBlocks(1, c)
            BY <1>1, <3>3, <3>4, <4>1 DEF Opened
          <5>2. UNCHANGED <<local, written>>
            BY <1>3, <4>1
          <5> QED
            BY <1>1, <3>1, <4>1, <5>1, <5>2, OpenedRead
        <4>2. CASE t = "file_data"
          <5>1. GetBlocks(0, c)
            BY <1>1, <3>3, <3>4, <4>2 DEF Opened
          <5>2. Writes
            BY <1>3, <3>2, <4>2
          <5>3. c = 1 => Len(s2c) > 1
            BY <2>2, <3>4
          <5> QED
            BY <1>1, <3>1, <4>2, <5>1, <5>2, <5>3, BlockRead
        <4> QED
          BY <1>10, <4>1, <4>2
      <3>6. c = IF Ended' THEN 1 ELSE 0
        BY <2>2, <3>4
      <3> QED
        BY <3>1, <3>3, <3>5, <3>6
    <2> QED
      BY <1>7, <1>8, <2>3, <2>4, <2>5 DEF Inv
  <1> QED
    BY <1>2, <1>9, <1>10

-----------------------------------------------------------------------------
(***************************************************************************)
(* The server's steps.                                                     *)
(***************************************************************************)
\* The server's directory and what it has open are of their types.
ServerTyped ==
    /\ remote \in [Names -> Contents]
    /\ cwd \in Names \cup {Home, NoName}
    /\ dest_file \in Names \cup {"other", "closed", "failed"} /\ dest_pos \in Nat
    /\ dest_file \in Names => IsFile(remote[dest_file]) /\ dest_pos <= Len(remote[dest_file])

\* The record that is handled, and those behind it.
LEMMA Handled ==
    ASSUME Inv, c2s # <<>>, c2s' = Tail(c2s)
    PROVE  /\ c2s \in Seq(Record) /\ Len(c2s) \in Nat /\ Len(c2s) >= 1 /\ Head(c2s) = c2s[1]
           /\ c2s' \in Seq(Record) /\ Len(c2s') = Len(c2s) - 1 /\ (c2s' = <<>>) = (Len(c2s) = 1)
           /\ \A i \in 1 .. Len(c2s') : i + 1 \in 1 .. Len(c2s) /\ c2s'[i] = c2s[i + 1]
           /\ c2s' # <<>> => c2s'[Len(c2s')] = c2s[Len(c2s)]
           /\ WellFormed(c2s[1]) /\ c2s[1] \in Record /\ s2c = <<>>
           /\ c2s[1].type \in Lone \cup OfPut
           /\ c2s[1].type \in Lone \cup {"file_complete"} => Len(c2s) = 1
  <1>1. /\ c2s \in Seq(Record) /\ Len(c2s) \in Nat /\ Len(c2s) >= 1 /\ Head(c2s) = c2s[1]
        /\ c2s' \in Seq(Record) /\ Len(c2s') = Len(c2s) - 1 /\ (c2s' = <<>>) = (Len(c2s) = 1)
        /\ \A i \in 1 .. Len(c2s) - 1 : c2s'[i] = c2s[i + 1]
    BY TailFacts DEF Inv, Typed
  <1>2. ASSUME NEW i \in 1 .. Len(c2s') PROVE i + 1 \in 1 .. Len(c2s) /\ c2s'[i] = c2s[i + 1]
    <2>1. Len(c2s') = Len(c2s) - 1 /\ Len(c2s) \in Nat
      BY <1>1
    <2>2. i + 1 \in 1 .. Len(c2s) /\ i \in 1 .. Len(c2s) - 1
      BY ONLY <2>1, i \in 1 .. Len(c2s')
    <2> QED
      BY <1>1, <2>2
  <1>3. c2s' # <<>> => c2s'[Len(c2s')] = c2s[Len(c2s)]
    BY <1>1
  <1>4. 1 \in 1 .. Len(c2s)
    BY <1>1
  <1>5. WellFormed(c2s[1]) /\ c2s[1] \in Record /\ s2c = <<>>
    BY <1>4 DEF Inv, Typed, Call, WellFormed
  <1>6. /\ c2s[1].type \in Lone \cup OfPut
        /\ c2s[1].type \in Lone => Len(c2s) = 1
        /\ c2s[1].type = "file_complete" => 1 = Len(c2s)
    BY <1>4 DEF Inv, Stream
  <1> QED
    BY <1>1, <1>2, <1>3, <1>5, <1>6

\* Behind a handled record the stream is still one.
LEMMA StreamTail ==
    ASSUME Inv, c2s # <<>>, c2s' = Tail(c2s)
    PROVE  Stream' /\ ~Pending' /\ \A i \in 1 .. Len(c2s') : WellFormed(c2s'[i])
  <1>1. /\ Len(c2s) \in Nat /\ Len(c2s) >= 1 /\ Len(c2s') = Len(c2s) - 1
        /\ \A i \in 1 .. Len(c2s') : i + 1 \in 1 .. Len(c2s) /\ c2s'[i] = c2s[i + 1]
        /\ (c2s' = <<>>) = (Len(c2s) = 1)
    BY Handled
  <1>2. ASSUME NEW i \in 1 .. Len(c2s')
        PROVE  /\ c2s'[i].type \in OfPut /\ c2s'[i].type # "send_file"
               /\ c2s'[i].type = "file_complete" => i = Len(c2s')
               /\ WellFormed(c2s'[i])
    <2>1. i + 1 \in 1 .. Len(c2s) /\ c2s'[i] = c2s[i + 1]
      BY <1>1
    <2>2. i + 1 # 1 /\ Len(c2s) # 1 /\ (i + 1 = Len(c2s) => i = Len(c2s'))
      <3>1. Len(c2s') = Len(c2s) - 1 /\ Len(c2s) \in Nat
        BY <1>1
      <3> QED
        BY ONLY <3>1, i \in 1 .. Len(c2s')
    <2>3. WellFormed(c2s[i + 1])
      BY <2>1 DEF Inv, Typed
    <2>4. /\ c2s[i + 1].type \in Lone \cup OfPut
          /\ c2s[i + 1].type \in Lone => Len(c2s) = 1
          /\ c2s[i + 1].type = "send_file" => i + 1 = 1
          /\ c2s[i + 1].type = "file_complete" => i + 1 = Len(c2s)
      BY <2>1 DEF Inv, Stream
    <2> QED
      BY <2>1, <2>2, <2>3, <2>4
  <1>3. Stream'
    BY <1>2 DEF Stream, Lone, OfPut
  <1>4. ~Pending'
    <2>1. c2s' # <<>> => 1 \in 1 .. Len(c2s')
      BY <1>1
    <2> QED
      BY <1>2, <2>1 DEF Pending
  <1> QED
    BY <1>2, <1>3, <1>4

\* Blocks keep their target: behind a request there are none, and a
\* SEND_FILE record gives those behind it theirs.
LEMMA TargetTail ==
    ASSUME Inv, c2s # <<>>, c2s' = Tail(c2s), UNCHANGED <<cpc, call>>,
           c2s[1].type \in {"send_file", "file_data"} =>
               (dest_file' \in Names => dest_file' = c2s[1].name \/ unopened'),
           c2s[1].type = "file_data" => dest_file' = dest_file /\ unopened' = unopened
    PROVE  Target'
  <1>1. /\ Len(c2s) \in Nat /\ Len(c2s) >= 1 /\ Len(c2s') = Len(c2s) - 1
        /\ \A i \in 1 .. Len(c2s') : i + 1 \in 1 .. Len(c2s) /\ c2s'[i] = c2s[i + 1]
        /\ c2s[1].type \in Lone \cup OfPut
        /\ c2s[1].type \in Lone \cup {"file_complete"} => Len(c2s) = 1
    BY Handled
  <1>2. ~Pending'
    BY StreamTail
  <1>3. CASE c2s[1].type \notin {"send_file", "file_data"}
    <2>1. Len(c2s') = 0
      BY <1>1, <1>3 DEF OfPut
    <2>2. 1 \in 1 .. Len(c2s)
      BY <1>1
    <2>3. cpc # "put"
      BY <1>3, <2>2 DEF Inv, Call
    <2>4. cpc' # "put"
      BY <2>3
    <2>5. \A i \in 1 .. Len(c2s') : FALSE
      BY ONLY <2>1
    <2> QED
      BY <2>4, <2>5 DEF Target
  <1>4. CASE c2s[1].type = "send_file"
    <2>1. Pending
      BY <1>4 DEF Pending
    <2>2. ASSUME NEW i \in 1 .. Len(c2s'), c2s'[i].type = "file_data"
          PROVE  dest_file' \in Names => dest_file' = c2s'[i].name \/ unopened'
      <3>1. i + 1 \in 1 .. Len(c2s) /\ c2s'[i] = c2s[i + 1]
        BY <1>1
      <3>2. c2s[i + 1].name = c2s[1].name /\ c2s[i + 1].alloc = c2s[1].alloc
        BY <2>1, <2>2, <3>1 DEF Inv, Target
      <3> QED
        BY <1>4, <3>1, <3>2
    <2>3. cpc = "put" => call = c2s[1]
      BY <2>1 DEF Inv, Target
    <2> QED
      BY <1>2, <1>4, <2>2, <2>3 DEF Target, GoesTo
  <1>5. CASE c2s[1].type = "file_data"
    <2>1. ~Pending
      BY <1>5 DEF Pending
    <2>2. ASSUME NEW i \in 1 .. Len(c2s'), c2s'[i].type = "file_data"
          PROVE  dest_file' \in Names => dest_file' = c2s'[i].name \/ unopened'
      <3>1. i + 1 \in 1 .. Len(c2s) /\ c2s'[i] = c2s[i + 1]
        BY <1>1
      <3>2. GoesTo(c2s[i + 1])
        BY <2>1, <2>2, <3>1 DEF Inv, Target
      <3> QED
        BY <1>5, <3>1, <3>2 DEF GoesTo
    <2>3. cpc = "put" => GoesTo(call)
      BY <2>1 DEF Inv, Target
    <2> QED
      BY <1>2, <1>5, <2>2, <2>3 DEF Target, GoesTo
  <1> QED
    BY <1>3, <1>4, <1>5

\* After an outage, or a close, the server goes on with the records that it
\* has got; nobody hears of it.
LEMMA DrainInv ==
    ASSUME Inv, conv # "open", c2s # <<>>, c2s' = Tail(c2s), ServerTyped', Target',
           spc' \in {"accept", "receive", "sendfile", "exited"}, unread' \in Seq(Block),
           UNCHANGED <<conv, turn, s2c, clientVars, outcome, listing, belief>>
    PROVE  Inv'
  <1> USE DEF clientVars
  <1>1. /\ c2s' \in Seq(Record) /\ (c2s' = <<>>) = (Len(c2s) = 1) /\ Len(c2s) \in Nat
        /\ \A i \in 1 .. Len(c2s') : i + 1 \in 1 .. Len(c2s) /\ c2s'[i] = c2s[i + 1]
        /\ c2s' # <<>> => c2s'[Len(c2s')] = c2s[Len(c2s)]
        /\ s2c = <<>>
    BY Handled
  <1>2. Stream' /\ \A i \in 1 .. Len(c2s') : WellFormed(c2s'[i])
    BY StreamTail
  <1>3. TypeOK'
    BY DEF Inv, Typed, TypeOK, ServerTyped
  <1>4. Typed'
    BY <1>1, <1>2, <1>3 DEF Inv, Typed, ServerTyped
  <1>5. InTurn' /\ Believed'
    BY DEF InTurn, Believed
  <1>6. Call'
    <2>1. \A i \in 1 .. Len(c2s') : cpc = "put" => c2s'[i].type \in {"send_file", "file_data"}
      BY <1>1 DEF Inv, Call
    <2>2. c2s = <<call>> => c2s' = <<>>
      BY <1>1
    <2> QED
      BY <1>1, <2>1, <2>2 DEF Inv, Call
  <1>7. Answer'
    BY <1>1 DEF Inv, Answer, OutcomeReported, SeesCategory, Entries
  <1>8. FileRecords' /\ GetData'
    BY <1>1 DEF Inv, FileRecords, GetData, Call
  <1>9. PutData' /\ TransferComplete'
    BY <1>1 DEF Inv, PutData, TransferComplete, Call
  <1> QED
    BY <1>2, <1>4, <1>5, <1>6, <1>7, <1>8, <1>9 DEF Inv

\* An answer that fits the request r.
Fits(r, recs) ==
    /\ recs \in Seq(Record) /\ Len(recs) >= 1
    /\ recs[1].type = IF r.type = "tower" THEN "tower" ELSE "simple"
    /\ r.type = "request_file" => recs[1].failed
    /\ IF r.type = "list" /\ ~recs[1].failed
         THEN /\ Len(recs) >= 2 /\ recs[Len(recs)].type = "list_complete"
              /\ \A i \in 2 .. Len(recs) - 1 :
                   recs[i].type = "list_entry" /\ recs[i].name \in r.spec \cup {Dot, NoName}
         ELSE Len(recs) = 1

\* What the request r does to the working directory, and what the answer says of it.
Moves(r, recs) ==
    /\ \/ cwd' = cwd
       \/ r.type \in {"remove_dir", "rename"}
       \/ r.type = "change_dir" /\ ~recs[1].failed
    /\ r.type = "change_dir" /\ ~recs[1].failed => cwd' = r.name
    /\ r.type = "query_dir" => recs[1].name \in {NoName, cwd'}

\* A handler of a request, as the conversation sees it.
LoneStep(recs) ==
    /\ spc = "receive" /\ c2s # <<>> /\ c2s[1].type \in Lone \ {"close"} /\ c2s' = Tail(c2s)
    /\ Fits(c2s[1], recs) /\ Moves(c2s[1], recs) /\ Answers(recs)
    /\ Notes(IF recs[1].failed THEN "err" ELSE "ok")
    /\ ServerTyped'
    /\ UNCHANGED HandlerLeaves

\* While the conversation is open a request is that of the call under way,
\* and the server may answer.
LEMMA LoneOpen ==
    ASSUME Inv, conv = "open", c2s # <<>>, c2s[1].type \in Lone
    PROVE  /\ cpc \in {"answer", "file"} /\ turn = "server" /\ s2c = <<>> /\ listing = {}
           /\ c2s = <<call>> /\ c2s[1] = call /\ Len(c2s) = 1 /\ ServerMaySend
           /\ (cpc = "file") = (call.type = "request_file")
           /\ call.type \notin {"close", "send_file"}
  <1>1. c2s \in Seq(Record) /\ 1 \in 1 .. Len(c2s) /\ cpc \in {"idle", "answer", "file", "put"}
        /\ turn \in {"client", "server"}
    BY DEF Inv, Typed, TypeOK
  <1>2. Len(c2s) = 1 /\ c2s[1].type \notin {"send_file", "file_data", "file_complete"}
    BY <1>1 DEF Inv, Stream, Lone
  <1>3. cpc # "idle"
    BY DEF Inv, InTurn
  <1>4. cpc # "put"
    BY <1>1, <1>2 DEF Inv, Call
  <1>5. turn = "server" /\ s2c = <<>> /\ listing = {}
    BY <1>1, <1>3, <1>4 DEF Inv, InTurn, Call
  <1>6. CASE cpc = "answer"
    <2>1. call.type # "send_file"
      BY <1>2, <1>6 DEF Inv, Call
    <2>2. c2s = <<call>> /\ call.type \notin {"close", "request_file"}
      BY <1>6, <2>1 DEF Inv, Call, Lone
    <2> QED
      BY <1>2, <1>5, <1>6, <2>1, <2>2 DEF ServerMaySend
  <1>7. CASE cpc = "file"
    <2>1. c2s = <<call>> /\ call.type = "request_file"
      BY <1>7 DEF Inv, Call
    <2> QED
      BY <1>2, <1>5, <1>7, <2>1 DEF ServerMaySend
  <1> QED
    BY <1>1, <1>3, <1>4, <1>6, <1>7

LEMMA LoneStepInv ==
    ASSUME Inv, NEW recs, LoneStep(recs)
    PROVE  Inv'
  <1>1. /\ spc = "receive" /\ c2s # <<>> /\ c2s[1].type \in Lone \ {"close"} /\ c2s' = Tail(c2s)
        /\ Fits(c2s[1], recs) /\ Moves(c2s[1], recs) /\ Answers(recs)
        /\ outcome' = (IF conv = "open" THEN IF recs[1].failed THEN "err" ELSE "ok" ELSE outcome)
        /\ ServerTyped'
        /\ UNCHANGED <<conv, outages, clientVars, spc, dest_pos, unread, io_error, listing, belief>>
    BY DEF LoneStep, Notes, HandlerLeaves
  <1>2. Target'
    BY <1>1, TargetTail DEF Lone, clientVars
  <1>3. CASE conv # "open"
    <2>1. UNCHANGED <<s2c, turn, outcome>>
      BY <1>1, <1>3 DEF Answers, ServerMaySend
    <2>2. spc' \in {"accept", "receive", "sendfile", "exited"} /\ unread' \in Seq(Block)
      BY <1>1 DEF Inv, Typed, TypeOK
    <2> QED
      BY <1>1, <1>2, <1>3, <2>1, <2>2, DrainInv
  <1>4. CASE conv = "open"
    <2>1. /\ cpc \in {"answer", "file"} /\ turn = "server" /\ s2c = <<>> /\ listing = {}
          /\ c2s[1] = call /\ Len(c2s) = 1 /\ ServerMaySend
          /\ (cpc = "file") = (call.type = "request_file")
          /\ call.type \notin {"close", "send_file"}
      BY <1>1, <1>4, LoneOpen
    <2>2. recs \in Seq(Record) /\ Len(recs) \in Nat /\ Len(recs) >= 1
      BY <1>1 DEF Fits
    <2>3. s2c' = recs /\ turn' = "client"
      BY <1>1, <2>1, <2>2 DEF Answers
    <2>4. c2s' = <<>> /\ c2s' \in Seq(Record) /\ Len(c2s') = 0 /\ s2c' # <<>>
      <3>1. c2s' \in Seq(Record) /\ Len(c2s') = Len(c2s) - 1 /\ (c2s' = <<>>) = (Len(c2s) = 1)
        BY <1>1, Handled
      <3> QED
        BY <2>1, <2>2, <2>3, <3>1
    <2>5. /\ recs[1].type = IF call.type = "tower" THEN "tower" ELSE "simple"
          /\ call.type = "request_file" => recs[1].failed
          /\ IF call.type = "list" /\ ~recs[1].failed
               THEN /\ Len(recs) >= 2 /\ recs[Len(recs)].type = "list_complete"
                    /\ \A i \in 2 .. Len(recs) - 1 :
                         recs[i].type = "list_entry" /\ recs[i].name \in call.spec \cup {Dot, NoName}
               ELSE Len(recs) = 1
      BY <1>1, <2>1 DEF Fits
    <2>6. \A i \in 1 .. Len(s2c') : s2c'[i].type # "file_data"
      <3> SUFFICES ASSUME NEW i \in 1 .. Len(recs) PROVE recs[i].type # "file_data"
        BY <2>3
      <3>1. i = 1 \/ i = Len(recs) \/ i \in 2 .. Len(recs) - 1
        BY <2>2
      <3> QED
        BY <2>5, <3>1
    <2>7. TypeOK'
      BY <1>1, <2>3 DEF Inv, Typed, TypeOK, ServerTyped, clientVars
    <2>8. Typed'
      BY <1>1, <2>2, <2>3, <2>4, <2>6, <2>7 DEF Inv, Typed, ServerTyped, clientVars
    <2>9. Stream' /\ InTurn' /\ Call'
      <3>1. Stream'
        BY <1>1, StreamTail
      <3>2. cpc' = cpc /\ call' = call /\ spc' = "receive" /\ conv' = "open" /\ listing' = {}
        BY <1>1, <1>4, <2>1 DEF clientVars
      <3>3. InTurn'
        BY <2>1, <2>3, <2>4, <3>2 DEF InTurn
      <3>4. call.type \in Lone
        BY <1>1, <2>1
      <3>5. \A i \in 1 .. Len(c2s') : FALSE
        BY ONLY <2>4
      <3>6. Call'
        BY <2>1, <2>4, <3>2, <3>4, <3>5 DEF Call
      <3> QED
        BY <3>1, <3>3, <3>6
    <2>10. Answer'
      <3>1. call.type = "list" /\ ~recs[1].failed => Entries(2, call.spec \cup {Dot})'
        BY <1>1, <2>3, <2>5 DEF Entries, clientVars
      <3>2. OutcomeReported'
        BY <1>1, <2>1 DEF OutcomeReported, clientVars
      <3> QED
        BY <1>1, <1>4, <2>1, <2>3, <2>5, <3>1, <3>2 DEF Answer, clientVars
    <2>11. FileRecords'
      BY <1>1, <1>4, <2>1, <2>3, <2>5 DEF FileRecords, clientVars
    <2>12. Believed'
      BY <1>1, <1>4, <2>1, <2>3, <2>4 DEF Inv, Believed, Moves, clientVars
    <2>13. PutData' /\ GetData' /\ TransferComplete'
      BY <1>1, <1>4, <2>1, <2>5 DEF PutData, GetData, TransferComplete, clientVars
    <2> QED
      BY <1>2, <2>8, <2>9, <2>10, <2>11, <2>12, <2>13 DEF Inv
  <1> QED
    BY <1>3, <1>4

\* The state before the server's step.
LEMMA ServerBefore == Inv => ServerTyped
  BY DEF Inv, Typed, TypeOK, ServerTyped

LEMMA HandlesFacts ==
    ASSUME Inv, NEW t, Handles(t)
    PROVE  /\ spc = "receive" /\ c2s # <<>> /\ c2s' = Tail(c2s) /\ Head(c2s) = c2s[1]
           /\ c2s[1].type = t /\ WellFormed(c2s[1]) /\ c2s[1] \in Record
  <1>1. spc = "receive" /\ c2s # <<>> /\ c2s' = Tail(c2s) /\ Head(c2s).type = t
    BY DEF Handles
  <1>2. Head(c2s) = c2s[1] /\ WellFormed(c2s[1]) /\ c2s[1] \in Record
    BY <1>1, Handled
  <1> QED
    BY <1>1, <1>2

\* A handler that gave up left everything alone and said so.
LEMMA DidNotStep ==
    ASSUME Inv, NEW t \in Lone \ {"close", "tower"}, Handles(t), DidNot,
           UNCHANGED <<cwd, dest_file>>, UNCHANGED HandlerLeaves
    PROVE  Inv'
  <1> DEFINE a == Simple(TRUE)
  <1>1. a \in Record /\ a.type = "simple" /\ a.failed = TRUE /\ a.name = NoName
    BY SimpleType
  <1>2. DidNot => UNCHANGED remote /\ Notes("err") /\ Answers(<<a>>)
    BY DEF DidNot
  <1> HIDE DEF a
  <1>3. <<a>> \in Seq(Record) /\ Len(<<a>>) = 1 /\ <<a>>[1] = a
    BY <1>1
  <1>4. /\ spc = "receive" /\ c2s # <<>> /\ c2s' = Tail(c2s) /\ c2s[1].type = t
    BY HandlesFacts
  <1>5. Fits(c2s[1], <<a>>)
    BY <1>1, <1>3, <1>4 DEF Fits
  <1>6. ServerTyped'
    BY ServerBefore DEF ServerTyped, DidNot, HandlerLeaves
  <1>7. Moves(c2s[1], <<a>>)
    BY <1>1, <1>3 DEF Moves
  <1>8. Notes(IF <<a>>[1].failed THEN "err" ELSE "ok")
    BY <1>1, <1>2, <1>3
  <1>9. LoneStep(<<a>>)
    BY <1>2, <1>4, <1>5, <1>6, <1>7, <1>8 DEF LoneStep
  <1> QED
    BY <1>9, LoneStepInv

\* A handler that did its work and answered with one record.
LEMMA DidStep ==
    ASSUME Inv, NEW t \in Lone \ {"close", "list", "request_file"}, Handles(t),
           NEW fs, NEW a \in Record, a.type = (IF t = "tower" THEN "tower" ELSE "simple"),
           a.failed = FALSE, Did(fs, <<a>>), ServerTyped', Moves(c2s[1], <<a>>),
           UNCHANGED HandlerLeaves
    PROVE  Inv'
  <1>1. <<a>> \in Seq(Record) /\ Len(<<a>>) = 1 /\ <<a>>[1] = a
    OBVIOUS
  <1>2. /\ spc = "receive" /\ c2s # <<>> /\ c2s' = Tail(c2s) /\ c2s[1].type = t
    BY HandlesFacts
  <1>3. Fits(c2s[1], <<a>>)
    BY <1>1, <1>2 DEF Fits
  <1>4. Notes(IF <<a>>[1].failed THEN "err" ELSE "ok") /\ Answers(<<a>>)
    BY <1>1 DEF Did
  <1>5. LoneStep(<<a>>)
    BY <1>2, <1>3, <1>4 DEF LoneStep
  <1> QED
    BY <1>5, LoneStepInv

LEMMA ATowerRequestInv == Inv /\ ATowerRequest => Inv'
  <1> SUFFICES ASSUME Inv, ATowerRequest PROVE Inv'
    OBVIOUS
  <1> DEFINE a == [Blank EXCEPT !.type = "tower"]
  <1>1. a \in Record /\ a.type = "tower" /\ a.failed = FALSE
    BY OtherType DEF Blank
  <1>2. Handles("tower") /\ Did(remote, <<a>>) /\ UNCHANGED <<HandlerLeaves, cwd, dest_file>>
    BY DEF ATowerRequest
  <1> HIDE DEF a
  <1>3. ServerTyped'
    BY <1>2, ServerBefore DEF ServerTyped, Did, HandlerLeaves
  <1>4. Moves(c2s[1], <<a>>)
    BY <1>2, HandlesFacts DEF Moves
  <1> QED
    BY <1>1, <1>2, <1>3, <1>4, DidStep DEF Lone

\* A handler that did its work and answered so, without more.
LEMMA DoneStep ==
    ASSUME Inv, NEW t \in Lone \ {"close", "tower", "list", "request_file", "query_dir"}, Handles(t),
           NEW fs, Did(fs, <<Simple(FALSE)>>), ServerTyped', UNCHANGED HandlerLeaves,
           cwd' = cwd \/ t \in {"remove_dir", "rename", "change_dir"},
           t = "change_dir" => cwd' = c2s[1].name
    PROVE  Inv'
  <1> DEFINE a == Simple(FALSE)
  <1>1. a \in Record /\ a.type = "simple" /\ a.failed = FALSE
    BY SimpleType
  <1>2. Did(fs, <<a>>)
    OBVIOUS
  <1> HIDE DEF a
  <1>3. c2s[1].type = t
    BY HandlesFacts
  <1>4. <<a>>[1] = a
    OBVIOUS
  <1>5. Moves(c2s[1], <<a>>)
    BY <1>1, <1>3, <1>4 DEF Moves
  <1>6. t \in Lone \ {"close", "list", "request_file"} /\ t # "tower"
    OBVIOUS
  <1> QED
    BY <1>1, <1>2, <1>5, <1>6, DidStep

LEMMA AQuerySystemInv == Inv /\ AQuerySystem => Inv'
  <1> SUFFICES ASSUME Inv, AQuerySystem PROVE Inv'
    OBVIOUS
  <1>1. "query_system" \in Lone \ {"close", "tower", "list", "request_file", "query_dir"}
    BY DEF Lone
  <1>2. Handles("query_system") /\ Did(remote, <<Simple(FALSE)>>)
        /\ UNCHANGED <<HandlerLeaves, cwd, dest_file>>
    BY DEF AQuerySystem
  <1>3. ServerTyped'
    BY <1>2, ServerBefore DEF ServerTyped, Did, HandlerLeaves
  <1> QED
    BY <1>1, <1>2, <1>3, DoneStep

LEMMA AQueryDirInv == Inv /\ AQueryDir => Inv'
  <1> SUFFICES ASSUME Inv, AQueryDir PROVE Inv'
    OBVIOUS
  <1> DEFINE a == [Simple(FALSE) EXCEPT !.name = cwd]
  <1>1. Handles("query_dir") /\ UNCHANGED <<HandlerLeaves, cwd, dest_file>>
        /\ (IF cwd # NoName THEN Did(remote, <<a>>) ELSE DidNot)
    BY DEF AQueryDir
  <1>2. cwd \in Names \cup {Home, NoName}
    BY ServerBefore DEF ServerTyped
  <1>3. a \in Record /\ a.type = "simple" /\ a.failed = FALSE /\ a.name = cwd
    BY <1>2 DEF Simple, Blank, Record, Lone, OfPut
  <1> HIDE DEF a
  <1>4. CASE cwd # NoName
    <2>1. ServerTyped'
      BY <1>1, <1>4, ServerBefore DEF ServerTyped, Did, HandlerLeaves
    <2>2. Moves(c2s[1], <<a>>)
      BY <1>1, <1>3, HandlesFacts DEF Moves
    <2>3. "query_dir" \in Lone \ {"close", "list", "request_file"}
      BY DEF Lone
    <2> QED
      BY <1>1, <1>3, <1>4, <2>1, <2>2, <2>3, DidStep
  <1>5. CASE cwd = NoName
    BY <1>1, <1>5, DidNotStep DEF Lone
  <1> QED
    BY <1>4, <1>5

LEMMA AChangeDirInv == Inv /\ AChangeDir => Inv'
  <1> SUFFICES ASSUME Inv, AChangeDir PROVE Inv'
    OBVIOUS
  <1> DEFINE n == c2s[1].name
  <1>1. Handles("change_dir") /\ UNCHANGED HandlerLeaves /\ UNCHANGED dest_file
    BY DEF AChangeDir
  <1>2. Head(c2s) = c2s[1] /\ c2s[1].type = "change_dir" /\ n \in Names
    BY <1>1, HandlesFacts DEF WellFormed
  <1>3. "change_dir" \in Lone \ {"close", "tower", "list", "request_file", "query_dir"}
    BY DEF Lone
  <1>4. CASE cwd' = n /\ Did(remote, <<Simple(FALSE)>>)
    <2>1. ServerTyped'
      BY <1>1, <1>2, <1>4, ServerBefore DEF ServerTyped, Did, HandlerLeaves
    <2> QED
      BY <1>1, <1>2, <1>3, <1>4, <2>1, DoneStep
  <1>5. CASE UNCHANGED cwd /\ DidNot
    BY <1>1, <1>5, DidNotStep DEF Lone
  <1> QED
    BY <1>2, <1>4, <1>5 DEF AChangeDir

LEMMA ACreateDirInv == Inv /\ ACreateDir => Inv'
  <1> SUFFICES ASSUME Inv, ACreateDir PROVE Inv'
    OBVIOUS
  <1> DEFINE n == c2s[1].name
  <1>1. Handles("create_dir") /\ UNCHANGED HandlerLeaves /\ UNCHANGED <<cwd, dest_file>>
    BY DEF ACreateDir
  <1>2. Head(c2s) = c2s[1] /\ c2s[1].type = "create_dir" /\ n \in Names
    BY <1>1, HandlesFacts DEF WellFormed
  <1>3. "create_dir" \in Lone \ {"close", "tower", "list", "request_file", "query_dir"}
    BY DEF Lone
  <1>4. CASE remote[n] = Absent /\ Did([remote EXCEPT ![n] = Directory], <<Simple(FALSE)>>)
    <2>1. ServerTyped'
      <3>1. dest_file # n
        BY <1>2, <1>4, ServerBefore DEF ServerTyped, IsFile
      <3>2. remote' = [remote EXCEPT ![n] = Directory] /\ Directory \in Contents
        BY <1>4 DEF Did, Contents
      <3>3. remote' \in [Names -> Contents] /\ (dest_file \in Names => remote'[dest_file] = remote[dest_file])
        BY <1>2, <3>1, <3>2, ServerBefore DEF ServerTyped
      <3> QED
        BY <1>1, <3>3, ServerBefore DEF ServerTyped, HandlerLeaves
    <2> QED
      BY <1>1, <1>2, <1>3, <1>4, <2>1, DoneStep
  <1>5. CASE DidNot
    BY <1>1, <1>5, DidNotStep DEF Lone
  <1> QED
    BY <1>2, <1>4, <1>5 DEF ACreateDir

LEMMA ADeleteInv == Inv /\ ADelete => Inv'
  <1> SUFFICES ASSUME Inv, ADelete PROVE Inv'
    OBVIOUS
  <1> DEFINE n == c2s[1].name
  <1>1. Handles("delete") /\ UNCHANGED HandlerLeaves /\ UNCHANGED cwd
    BY DEF ADelete
  <1>2. Head(c2s) = c2s[1] /\ c2s[1].type = "delete" /\ n \in Names
    BY <1>1, HandlesFacts DEF WellFormed
  <1>3. "delete" \in Lone \ {"close", "tower", "list", "request_file", "query_dir"}
    BY DEF Lone
  <1>4. CASE Did([remote EXCEPT ![n] = Absent], <<Simple(FALSE)>>) /\ dest_file' = Follow(dest_file, n, "other")
    <2>1. ServerTyped'
      <3>1. remote' = [remote EXCEPT ![n] = Absent] /\ Absent \in Contents
        BY <1>4 DEF Did, Contents
      <3>2. dest_file' = IF dest_file = n THEN "other" ELSE dest_file
        BY <1>4 DEF Follow
      <3>3. remote' \in [Names -> Contents]
            /\ (dest_file' \in Names => dest_file' = dest_file /\ remote'[dest_file] = remote[dest_file])
        BY <1>2, <3>1, <3>2, ServerBefore, AftpAssumption DEF ServerTyped
      <3> QED
        BY <1>1, <3>2, <3>3, ServerBefore DEF ServerTyped, HandlerLeaves
    <2> QED
      BY <1>1, <1>2, <1>3, <1>4, <2>1, DoneStep
  <1>5. CASE DidNot /\ UNCHANGED dest_file
    BY <1>1, <1>5, DidNotStep DEF Lone
  <1> QED
    BY <1>2, <1>4, <1>5 DEF ADelete

LEMMA ARemoveDirInv == Inv /\ ARemoveDir => Inv'
  <1> SUFFICES ASSUME Inv, ARemoveDir PROVE Inv'
    OBVIOUS
  <1> DEFINE n == c2s[1].name
  <1>1. Handles("remove_dir") /\ UNCHANGED HandlerLeaves /\ UNCHANGED dest_file
    BY DEF ARemoveDir
  <1>2. Head(c2s) = c2s[1] /\ c2s[1].type = "remove_dir" /\ n \in Names
    BY <1>1, HandlesFacts DEF WellFormed
  <1>3. "remove_dir" \in Lone \ {"close", "tower", "list", "request_file", "query_dir"}
    BY DEF Lone
  <1>4. CASE /\ remote[n] = Directory
             /\ Did([remote EXCEPT ![n] = Absent], <<Simple(FALSE)>>)
             /\ cwd' = Follow(cwd, n, NoName)
    <2>1. ServerTyped'
      <3>1. dest_file # n
        BY <1>2, <1>4, ServerBefore DEF ServerTyped, IsFile
      <3>2. remote' = [remote EXCEPT ![n] = Absent] /\ Absent \in Contents
        BY <1>4 DEF Did, Contents
      <3>3. remote' \in [Names -> Contents] /\ (dest_file \in Names => remote'[dest_file] = remote[dest_file])
        BY <1>2, <3>1, <3>2, ServerBefore DEF ServerTyped
      <3>4. cwd' \in Names \cup {Home, NoName}
        BY <1>4, ServerBefore DEF ServerTyped, Follow
      <3> QED
        BY <1>1, <3>3, <3>4, ServerBefore DEF ServerTyped, HandlerLeaves
    <2> QED
      BY <1>1, <1>2, <1>3, <1>4, <2>1, DoneStep
  <1>5. CASE DidNot /\ UNCHANGED cwd
    BY <1>1, <1>5, DidNotStep DEF Lone
  <1> QED
    BY <1>2, <1>4, <1>5 DEF ARemoveDir

LEMMA ARenameInv == Inv /\ ARename => Inv'
  <1> SUFFICES ASSUME Inv, ARename PROVE Inv'
    OBVIOUS
  <1> DEFINE n == c2s[1].name
             m == c2s[1].to
  <1>1. Handles("rename") /\ UNCHANGED HandlerLeaves
    BY DEF ARename
  <1>2. Head(c2s) = c2s[1] /\ c2s[1].type = "rename" /\ n \in Names /\ m \in Names
    BY <1>1, HandlesFacts DEF WellFormed
  <1>3. "rename" \in Lone \ {"close", "tower", "list", "request_file", "query_dir"}
    BY DEF Lone
  <1>5. CASE /\ n # m
             /\ Did([remote EXCEPT ![m] = remote[n], ![n] = Absent], <<Simple(FALSE)>>)
             /\ cwd' = Follow(Follow(cwd, m, NoName), n, m)
             /\ dest_file' = Follow(Follow(dest_file, m, "other"), n, m)
    <2>1. ServerTyped'
      <3> HIDE DEF n, m
      <3>1. remote' = [remote EXCEPT ![m] = remote[n], ![n] = Absent] /\ Absent \in Contents
        BY <1>5 DEF Did, Contents
      <3>2. /\ remote' \in [Names -> Contents] /\ remote'[m] = remote[n]
            /\ \A x \in Names : x \notin {n, m} => remote'[x] = remote[x]
        BY <1>2, <1>5, <3>1, ServerBefore DEF ServerTyped
      <3>3. cwd' \in Names \cup {Home, NoName}
        BY <1>2, <1>5, ServerBefore DEF ServerTyped, Follow
      <3>4. \/ dest_file = m /\ dest_file' = "other"
            \/ dest_file = n /\ dest_file' = m
            \/ dest_file \notin {n, m} /\ dest_file' = dest_file
        <4>1. "other" # n
          BY <1>2, AftpAssumption
        <4> QED
          BY <1>5, <4>1 DEF Follow
      <3>5. "other" \notin Names
        BY AftpAssumption
      <3>6. dest_pos' = dest_pos
        BY <1>1 DEF HandlerLeaves
      <3>7. CASE dest_file = m /\ dest_file' = "other"
        BY <3>2, <3>3, <3>5, <3>6, <3>7, ServerBefore DEF ServerTyped
      <3>8. CASE dest_file = n /\ dest_file' = m
        BY <1>2, <3>2, <3>3, <3>6, <3>8, ServerBefore DEF ServerTyped
      <3>9. CASE dest_file \notin {n, m} /\ dest_file' = dest_file
        BY <3>2, <3>3, <3>6, <3>9, ServerBefore DEF ServerTyped
      <3> QED
        BY <3>4, <3>7, <3>8, <3>9
    <2> QED
      BY <1>1, <1>3, <1>5, <2>1, DoneStep
  <1>6. CASE Did(remote, <<Simple(FALSE)>>) /\ UNCHANGED <<cwd, dest_file>>
    <2>1. ServerTyped'
      BY <1>1, <1>6, ServerBefore DEF ServerTyped, Did, HandlerLeaves
    <2> QED
      BY <1>1, <1>3, <1>6, <2>1, DoneStep
  <1>7. CASE DidNot /\ UNCHANGED <<cwd, dest_file>>
    BY <1>1, <1>7, DidNotStep DEF Lone
  <1> QED
    BY <1>2, <1>5, <1>6, <1>7 DEF ARename

\* Every set of naturals that is not empty has a least member.
LEMMA LeastOf ==
    ASSUME NEW T \in SUBSET Nat, T # {}
    PROVE  \E x \in T : \A y \in T : x <= y
  <1> DEFINE R == OpToRel(<, Nat)
  <1>1. IsWellFoundedOn(R, Nat)
    BY NatLessThanWellFounded
  <1>2. \A a, b \in Nat : a < b => <<a, b>> \in R
    BY DEF OpToRel
  <1> HIDE DEF R
  <1>3. PICK x \in T : \A y \in T : ~(<<y, x>> \in R)
    BY <1>1, WFMin
  <1>4. ASSUME NEW y \in T PROVE x <= y
    <2>1. ~(y < x)
      BY <1>2, <1>3
    <2>2. x \in Nat /\ y \in Nat
      OBVIOUS
    <2> QED
      BY <2>1, <2>2
  <1> QED
    BY <1>4

\* Induction, with a set in the place of a predicate.
LEMMA SetInduction ==
    ASSUME NEW S, 0 \in S, \A n \in Nat : n \in S => n + 1 \in S
    PROVE  Nat \subseteq S
  <1> SUFFICES ASSUME Nat \ S # {} PROVE FALSE
    OBVIOUS
  <1>1. PICK x \in Nat \ S : \A y \in Nat \ S : x <= y
    BY LeastOf
  <1>2. x # 0 /\ x - 1 \in Nat
    BY <1>1
  <1>3. x - 1 \in S
    BY <1>1, <1>2
  <1> QED
    BY <1>1, <1>2, <1>3

\* One name of the directory is looked at.
ReadStep(S, g, i) ==
    IF i = 0 THEN <<>> ELSE IF Name[i] \in S THEN Append(g[i - 1], Name[i]) ELSE g[i - 1]

\* The names of a set, in their order, are members of it.
LEMMA InOrderType ==
    ASSUME NEW S
    PROVE  InOrder(S) \in Seq(S)
  <1> DEFINE N == Len(Name)
             D == 0 .. N
             Reads(g, n) == \A i \in D : i < n => g[i] = ReadStep(S, g, i)
             read == CHOOSE g : g = [i \in D |-> ReadStep(S, g, i)]
  <1>0. N \in Nat
    BY AftpAssumption
  <1>1. \A n \in Nat : \E g \in [D -> Seq(S)] : Reads(g, n)
    <2> DEFINE P == {n \in Nat : \E g \in [D -> Seq(S)] : Reads(g, n)}
    <2>1. 0 \in P
      <3>1. [i \in D |-> <<>>] \in [D -> Seq(S)] /\ Reads([i \in D |-> <<>>], 0)
        BY <1>0
      <3> QED
        BY <3>1
    <2>2. ASSUME NEW n \in Nat, n \in P PROVE n + 1 \in P
      <3>1. PICK g \in [D -> Seq(S)] : Reads(g, n)
        BY <2>2
      <3> DEFINE h == [i \in D |-> ReadStep(S, g, i)]
      <3>2. \A i \in D : ReadStep(S, g, i) \in Seq(S)
        BY <1>0 DEF ReadStep
      <3>3. h \in [D -> Seq(S)]
        BY <3>2
      <3>4. Reads(h, n + 1)
        <4> SUFFICES ASSUME NEW i \in D, i < n + 1 PROVE h[i] = ReadStep(S, h, i)
          OBVIOUS
        <4>1. i # 0 => i - 1 \in D /\ i - 1 < n
          BY <1>0
        <4>2. i # 0 => h[i - 1] = g[i - 1]
          BY <3>1, <4>1
        <4> QED
          BY <4>2 DEF ReadStep
      <3> HIDE DEF h
      <3>5. \E f \in [D -> Seq(S)] : Reads(f, n + 1)
        BY <3>3, <3>4, Zenon
      <3> QED
        BY <3>5
    <2> HIDE DEF P
    <2>3. Nat \subseteq P
      BY <2>1, <2>2, SetInduction
    <2> QED
      BY <2>3 DEF P
  <1>2. PICK g \in [D -> Seq(S)] : Reads(g, N + 1)
    <2>1. N + 1 \in Nat
      BY <1>0
    <2> HIDE DEF D, N, Reads
    <2> QED
      BY <1>1, <2>1
  <1>3. g = [i \in D |-> ReadStep(S, g, i)]
    BY <1>0, <1>2
  <1>4. read = [i \in D |-> ReadStep(S, read, i)]
    BY <1>3
  <1> HIDE DEF read
  <1>5. \A n \in Nat : n <= N => read[n] \in Seq(S)
    <2> DEFINE P == {n \in Nat : n <= N => read[n] \in Seq(S)}
    <2>1. 0 \in P
      BY <1>0, <1>4 DEF ReadStep
    <2>2. ASSUME NEW n \in Nat, n \in P PROVE n + 1 \in P
      <3> SUFFICES ASSUME n + 1 <= N PROVE read[n + 1] \in Seq(S)
        OBVIOUS
      <3>1. read[n] \in Seq(S)
        BY <1>0, <2>2
      <3>2. n + 1 \in D /\ n + 1 # 0 /\ (n + 1) - 1 = n
        BY <1>0
      <3>3. read[n + 1] = ReadStep(S, read, n + 1)
        <4> HIDE DEF D
        <4> QED
          BY <1>4, <3>2
      <3>4. CASE Name[n + 1] \in S
        <4>1. ReadStep(S, read, n + 1) = Append(read[n], Name[n + 1])
          BY <3>2, <3>4 DEF ReadStep
        <4>2. Append(read[n], Name[n + 1]) \in Seq(S)
          BY <3>1, <3>4, AppendProperties
        <4> QED
          BY <3>3, <4>1, <4>2
      <3>5. CASE Name[n + 1] \notin S
        <4>1. ReadStep(S, read, n + 1) = read[n]
          BY <3>2, <3>5 DEF ReadStep
        <4> QED
          BY <3>1, <3>3, <4>1
      <3> QED
        BY <3>4, <3>5
    <2> HIDE DEF P
    <2>3. Nat \subseteq P
      BY <2>1, <2>2, SetInduction
    <2> QED
      BY <2>3 DEF P
  <1>6. InOrder(S) = read[N]
    BY DEF InOrder, read, ReadStep
  <1> QED
    BY <1>0, <1>5, <1>6

\* A listing: its response, the entries and its end.
LEMMA ListingFacts ==
    ASSUME NEW h \in Record, NEW es \in Seq(Record), NEW e \in Record
    PROVE  LET recs == <<h>> \o es \o <<e>>
           IN  /\ recs \in Seq(Record) /\ Len(recs) = Len(es) + 2 /\ Len(es) \in Nat
               /\ recs[1] = h /\ recs[Len(recs)] = e
               /\ \A i \in 2 .. Len(recs) - 1 : i - 1 \in 1 .. Len(es) /\ recs[i] = es[i - 1]
  <1> DEFINE s == <<h>> \o es
             recs == s \o <<e>>
  <1>1. /\ s \in Seq(Record) /\ Len(s) = Len(es) + 1 /\ Len(es) \in Nat
        /\ s[1] = h /\ \A i \in 2 .. Len(es) + 1 : s[i] = es[i - 1]
    BY ConcatProperties
  <1> HIDE DEF s
  <1>2. /\ recs \in Seq(Record) /\ Len(recs) = Len(s) + 1
        /\ recs[Len(s) + 1] = e /\ \A i \in 1 .. Len(s) : recs[i] = s[i]
    BY <1>1, ConcatProperties
  <1> HIDE DEF recs
  <1>3. ASSUME NEW i \in 2 .. Len(recs) - 1 PROVE i - 1 \in 1 .. Len(es) /\ recs[i] = es[i - 1]
    <2>1. i - 1 \in 1 .. Len(es) /\ i \in 1 .. Len(s) /\ i \in 2 .. Len(es) + 1
      BY <1>1, <1>2
    <2> QED
      BY <1>1, <1>2, <2>1
  <1>4. recs[1] = h
    BY <1>1, <1>2
  <1>5. Len(recs) = Len(es) + 2
    BY <1>1, <1>2
  <1>6. recs[Len(recs)] = e
    BY <1>2
  <1> QED
    BY <1>1, <1>2, <1>3, <1>4, <1>5, <1>6 DEF recs, s

\* An entry of the listing is one of the names asked for, or has no name.
LEMMA ListEntryType ==
    ASSUME NEW r \in Record, NEW n \in r.spec \cup {Dot}
    PROVE  /\ ListEntry(r, n) \in Record /\ ListEntry(r, n).type = "list_entry"
           /\ ListEntry(r, n).name \in r.spec \cup {Dot, NoName}
  <1>1. \E m \in r.spec \cup {Dot, NoName} :
           ListEntry(r, n) = [Blank EXCEPT !.type = "list_entry", !.name = m]
    BY DEF ListEntry
  <1>2. PICK m \in r.spec \cup {Dot, NoName} :
           ListEntry(r, n) = [Blank EXCEPT !.type = "list_entry", !.name = m]
    BY <1>1
  <1>3. m \in Names \cup {Home, Dot, NoName}
    BY DEF Record
  <1> DEFINE x == [Blank EXCEPT !.type = "list_entry", !.name = m]
  <1>4. x \in Record /\ x.type = "list_entry" /\ x.name = m
    BY <1>3 DEF Blank, Record, Lone, OfPut
  <1> QED
    BY <1>2, <1>4

LEMMA FileListType ==
    ASSUME NEW r \in Record
    PROVE  FileList(r) \in Seq(r.spec \cup {Dot})
  <1> DEFINE S == {n \in r.spec : remote[n] # Absent}
  <1>1. InOrder(S) \in Seq(S)
    BY InOrderType
  <1>2. S \subseteq r.spec \cup {Dot}
    OBVIOUS
  <1>3. FileList(r) = <<Dot>> \/ FileList(r) = InOrder(S)
    BY DEF FileList
  <1> HIDE DEF S
  <1>4. InOrder(S) \in Seq(r.spec \cup {Dot})
    BY <1>1, <1>2
  <1>5. <<Dot>> \in Seq(r.spec \cup {Dot})
    OBVIOUS
  <1> QED
    BY <1>3, <1>4, <1>5

LEMMA AListRequestInv == Inv /\ AListRequest => Inv'
  <1> SUFFICES ASSUME Inv, AListRequest PROVE Inv'
    OBVIOUS
  <1> DEFINE r == c2s[1]
             L == FileList(r)
             es == [i \in DOMAIN L |-> ListEntry(r, L[i])]
             h == [Simple(FALSE) EXCEPT !.name = Home]
             e == [Blank EXCEPT !.type = "list_complete"]
             recs == <<h>> \o es \o <<e>>
  <1>1. Handles("list") /\ UNCHANGED HandlerLeaves /\ UNCHANGED <<cwd, dest_file>>
    BY DEF AListRequest
  <1>2. /\ Head(c2s) = r /\ r.type = "list" /\ r \in Record
        /\ spc = "receive" /\ c2s # <<>> /\ c2s' = Tail(c2s)
    BY <1>1, HandlesFacts
  <1>3. DidNot \/ Did(remote, recs)
    BY <1>2 DEF AListRequest
  <1>4. h \in Record /\ h.type = "simple" /\ h.failed = FALSE
    BY DEF Simple, Blank, Record, Lone, OfPut
  <1>5. e \in Record /\ e.type = "list_complete"
    BY OtherType
  <1>6. L \in Seq(r.spec \cup {Dot})
    BY <1>2, FileListType
  <1>7. /\ es \in Seq(Record)
        /\ \A i \in 1 .. Len(es) : es[i].type = "list_entry" /\ es[i].name \in r.spec \cup {Dot, NoName}
    <2> HIDE DEF r, L
    <2> DEFINE f(i) == ListEntry(r, L[i])
               n == Len(L)
    <2>1. n \in Nat /\ DOMAIN L = 1 .. n /\ \A i \in 1 .. n : L[i] \in r.spec \cup {Dot}
      BY <1>6
    <2>2. \A i \in 1 .. n : /\ f(i) \in Record /\ f(i).type = "list_entry"
                            /\ f(i).name \in r.spec \cup {Dot, NoName}
      BY <1>2, <2>1, ListEntryType
    <2>3. es = [i \in 1 .. n |-> f(i)]
      BY <2>1
    <2> HIDE DEF f, n, es
    <2>4. es \in Seq(Record) /\ Len(es) = n
      BY <2>1, <2>2, <2>3, IsASeq
    <2>5. \A i \in 1 .. n : es[i] = f(i)
      BY <2>3
    <2> QED
      BY <2>2, <2>4, <2>5
  <1> HIDE DEF es, h, e, L
  <1>8. /\ recs \in Seq(Record) /\ Len(recs) = Len(es) + 2 /\ Len(es) \in Nat
        /\ recs[1] = h /\ recs[Len(recs)] = e
        /\ \A i \in 2 .. Len(recs) - 1 : i - 1 \in 1 .. Len(es) /\ recs[i] = es[i - 1]
    BY <1>4, <1>5, <1>7, ListingFacts
  <1> HIDE DEF recs
  <1>9. CASE Did(remote, recs)
    <2>1. Len(recs) >= 1 /\ Len(recs) >= 2
      BY <1>8
    <2>2. \A i \in 2 .. Len(recs) - 1 :
            recs[i].type = "list_entry" /\ recs[i].name \in r.spec \cup {Dot, NoName}
      BY <1>7, <1>8
    <2>3. Fits(c2s[1], recs)
      BY <1>2, <1>4, <1>5, <1>8, <2>1, <2>2 DEF Fits
    <2>4. ServerTyped'
      BY <1>1, <1>9, ServerBefore DEF ServerTyped, Did, HandlerLeaves
    <2>5. Moves(c2s[1], recs)
      BY <1>1, <1>2 DEF Moves
    <2>6. Answers(recs) /\ Notes(IF recs[1].failed THEN "err" ELSE "ok")
      BY <1>4, <1>8, <1>9 DEF Did
    <2>7. LoneStep(recs)
      BY <1>1, <1>2, <2>3, <2>4, <2>5, <2>6 DEF LoneStep, Lone
    <2> QED
      BY <2>7, LoneStepInv
  <1>10. CASE DidNot
    BY <1>1, <1>10, DidNotStep DEF Lone
  <1> QED
    BY <1>3, <1>9, <1>10

\* a_request_file that opened the file: its first record is sent.
LEMMA FileOpened ==
    ASSUME Inv, conv = "open", Handles("request_file"), UNCHANGED <<conv, clientVars, listing, belief>>,
           UNCHANGED <<turn, remote, cwd, dest_file, dest_pos, unopened>>,
           unread' = (IF IsFile(remote[c2s[1].name]) THEN remote[c2s[1].name] ELSE <<>>),
           unread' \in Seq(Block), io_error' = ~IsFile(remote[c2s[1].name]), outcome' = "ok",
           NEW e \in Record, e.type = "send_file", s2c' = Append(s2c, e), spc' = "sendfile",
           Target'
    PROVE  Inv'
  <1>1. c2s # <<>> /\ c2s' = Tail(c2s) /\ c2s[1].type = "request_file" /\ c2s[1].type \in Lone
    BY HandlesFacts DEF Lone
  <1>2. /\ turn = "server" /\ s2c = <<>> /\ listing = {} /\ c2s[1] = call /\ Len(c2s) = 1
        /\ cpc = "file" /\ c2s = <<call>>
    BY <1>1, LoneOpen
  <1>3. c2s' = <<>> /\ c2s' \in Seq(Record) /\ Len(c2s') = 0
    BY <1>1, <1>2, Handled
  <1>4. s2c' \in Seq(Record) /\ Len(s2c') = 1 /\ s2c'[1] = e /\ s2c' # <<>>
    BY <1>2
  <1>5. \A i \in 1 .. Len(s2c') : i = 1 /\ i = Len(s2c')
    BY ONLY <1>4
  <1>6. \A i \in 1 .. Len(c2s') : FALSE
    BY ONLY <1>3
  <1>7. /\ cpc' = "file" /\ call' = call /\ conv' = "open" /\ turn' = "server" /\ listing' = {}
        /\ written' = written /\ local' = local
    BY <1>2 DEF clientVars
  <1>8. written = 0
    BY <1>1, <1>2 DEF Inv, Call
  <1>9. TypeOK'
    BY DEF Inv, Typed, TypeOK, clientVars
  <1>10. Typed'
    <2>1. \A i \in 1 .. Len(s2c') : s2c'[i].type # "file_data"
      BY <1>4, <1>5
    <2> QED
      BY <1>3, <1>4, <1>6, <1>9, <2>1 DEF Inv, Typed, clientVars
  <1>11. Stream'
    BY <1>1, StreamTail
  <1>12. InTurn'
    BY <1>3, <1>7 DEF InTurn
  <1>13. Call'
    BY <1>1, <1>2, <1>3, <1>7 DEF Call
  <1>14. Answer'
    BY <1>7 DEF Answer, OutcomeReported
  <1>15. FileRecords'
    BY <1>4, <1>5, <1>7 DEF FileRecords, OfPut
  <1>16. Believed'
    BY <1>2, <1>7 DEF Inv, Believed
  <1>17. PutData' /\ TransferComplete'
    BY <1>7 DEF PutData, TransferComplete
  <1>18. GetData'
    <2>1. Opened' /\ ~Ended'
      BY <1>4 DEF Opened, Ended
    <2> SUFFICES ASSUME ~io_error' PROVE IsFile(remote'[call'.name]) /\ GetBlocks(1, 0)'
      BY <2>1 DEF GetData
    <2>2. IsFile(remote[call.name]) /\ unread' = remote[call.name]
      BY <1>2
    <2>3. remote'[call'.name] = unread' /\ Len(unread') \in Nat
      BY <1>7, <2>2
    <2>4. written' = 0 /\ Len(s2c') - 1 - 0 = 0
      BY <1>4, <1>7, <1>8
    <2> DEFINE R == remote'[call'.name]
               k == Len(s2c') - 1 - 0
    <2>5. Len(s2c') = 1 /\ written' = 0
      BY <1>4, <2>4
    <2>6. k = 0
      BY ONLY <2>5
    <2> HIDE DEF k
    <2>7. k >= 0 /\ written' + k <= Len(R) /\ written' + k + Len(unread') = Len(R)
      BY <2>3, <2>5, <2>6
    <2>8. (\A i \in 1 .. written' : FALSE) /\ (\A i \in 1 .. k : FALSE)
      BY ONLY <2>5, <2>6
    <2>9. \A i \in 1 .. Len(unread') : unread'[i] = R[written' + k + i]
      <3>1. \A i \in 1 .. Len(unread') : written' + k + i = i
        BY ONLY <2>3, <2>5, <2>6
      <3> QED
        BY <2>3, <3>1
    <2>10. GetBlocks(1, 0)'
      <3> HIDE DEF R, k
      <3>1. (LET G == remote[call.name]
                 q == Len(s2c) - 1 - 0
             IN /\ q >= 0 /\ written + q <= Len(G)
                /\ \A i \in 1 .. written : local[call.to][i] = G[i]
                /\ \A i \in 1 .. q : s2c[1 + i].type = "file_data" /\ s2c[1 + i].block = G[written + i]
                /\ conv = "open" /\ spc = "sendfile" =>
                      /\ written + q + Len(unread) = Len(G)
                      /\ \A i \in 1 .. Len(unread) : unread[i] = G[written + q + i])'
        BY <2>7, <2>8, <2>9 DEF R, k
      <3> QED
        BY <3>1 DEF GetBlocks
    <2> QED
      BY <1>7, <2>2, <2>10
  <1> QED
    BY <1>10, <1>11, <1>12, <1>13, <1>14, <1>15, <1>16, <1>17, <1>18 DEF Inv

LEMMA ARequestFileInv == Inv /\ ARequestFile => Inv'
  <1> SUFFICES ASSUME Inv, ARequestFile PROVE Inv'
    OBVIOUS
  <1> DEFINE n == c2s[1].name
             e == [Blank EXCEPT !.type = "send_file"]
             Opens == /\ unread' = IF IsFile(remote[n]) THEN remote[n] ELSE <<>>
                      /\ io_error' = ~IsFile(remote[n])
                      /\ Notes("ok")
                      /\ s2c' = IF ServerMaySend THEN Append(s2c, e) ELSE s2c
                      /\ spc' = "sendfile"
                      /\ UNCHANGED <<turn, remote>>
  <1>1. Handles("request_file")
        /\ UNCHANGED <<conv, outages, clientVars, cwd, dest_file, dest_pos, unopened, listing, belief>>
    BY DEF ARequestFile
  <1>2. /\ Head(c2s) = c2s[1] /\ c2s[1].type = "request_file" /\ c2s[1].type \in Lone /\ n \in Names
        /\ c2s # <<>> /\ c2s' = Tail(c2s)
    BY <1>1, HandlesFacts DEF WellFormed, Lone
  <1>3. Opens \/ (DidNot /\ UNCHANGED <<unread, io_error, spc>>)
    BY <1>2 DEF ARequestFile
  <1>4. e \in Record /\ e.type = "send_file"
    BY OtherType
  <1> HIDE DEF e
  <1>5. CASE Opens
    <2>1. unread' \in Seq(Block)
      <3>1. remote[n] \in Contents
        BY <1>2, ServerBefore DEF ServerTyped
      <3>2. IsFile(remote[n]) => remote[n] \in Seq(Block)
        BY <3>1, FileIsSeq
      <3> QED
        BY <1>5, <3>2
    <2>2. Target'
      BY <1>1, <1>2, TargetTail DEF clientVars
    <2>3. CASE conv = "open"
      <3>1. ServerMaySend
        BY <1>2, <2>3, LoneOpen
      <3>2. outcome' = "ok" /\ s2c' = Append(s2c, e)
        BY <1>5, <2>3, <3>1 DEF Notes
      <3> QED
        BY <1>1, <1>4, <1>5, <2>1, <2>2, <2>3, <3>2, FileOpened
    <2>4. CASE conv # "open"
      <3>1. UNCHANGED <<conv, turn, s2c, clientVars, outcome, listing, belief>>
        BY <1>1, <1>5, <2>4 DEF Notes, ServerMaySend
      <3>2. ServerTyped'
        BY <1>1, <1>5, ServerBefore DEF ServerTyped
      <3>3. spc' \in {"accept", "receive", "sendfile", "exited"}
        BY <1>5
      <3> QED
        BY <1>2, <2>1, <2>2, <2>4, <3>1, <3>2, <3>3, DrainInv
    <2> QED
      BY <2>3, <2>4
  <1>6. CASE DidNot /\ UNCHANGED <<unread, io_error, spc>>
    <2>1. UNCHANGED HandlerLeaves
      BY <1>1, <1>6 DEF HandlerLeaves
    <2>2. "request_file" \in Lone \ {"close", "tower"}
      BY DEF Lone
    <2> QED
      BY <1>1, <1>6, <2>1, <2>2, DidNotStep
  <1> QED
    BY <1>3, <1>5, <1>6

\* While the server sends a file the library waits for it.
LEMMA Sending ==
    ASSUME Inv, spc = "sendfile", conv = "open"
    PROVE  /\ cpc = "file" /\ turn = "server" /\ c2s = <<>> /\ outcome = "ok" /\ listing = {}
           /\ s2c \in Seq(Record) /\ Len(s2c) \in Nat /\ ~Ended
           /\ \A i \in 1 .. Len(s2c) : /\ s2c[i].type \in {"send_file", "file_data"}
                                       /\ s2c[i].type = "send_file" => i = 1
  <1>1. /\ cpc \in {"idle", "answer", "file", "put"} /\ turn \in {"client", "server"}
        /\ s2c \in Seq(Record) /\ Len(s2c) \in Nat
    BY DEF Inv, Typed, TypeOK
  <1>2. cpc = "file" /\ turn = "server"
    BY <1>1 DEF Inv, InTurn
  <1>3. c2s = <<>> /\ listing = {}
    BY <1>2 DEF Inv, InTurn, Call
  <1>4. outcome = "ok"
    BY <1>2 DEF Inv, FileRecords
  <1>5. s2c # <<>> => s2c[1].type # "simple" /\ s2c[Len(s2c)].type # "file_complete"
    BY <1>2, <1>4 DEF Inv, FileRecords
  <1>6. \A i \in 1 .. Len(s2c) : /\ s2c[i].type \in OfPut
                                 /\ s2c[i].type = "send_file" => i = 1
                                 /\ s2c[i].type = "file_complete" => i = Len(s2c)
    <2>1. Len(s2c) = 1 => s2c # <<>>
      OBVIOUS
    <2> QED
      BY <1>2, <1>5, <2>1 DEF Inv, FileRecords
  <1>7. \A i \in 1 .. Len(s2c) : s2c # <<>>
    BY <1>1
  <1> QED
    BY <1>1, <1>2, <1>3, <1>4, <1>5, <1>6, <1>7 DEF Ended, OfPut

\* One more record of the file is on its way.
LEMMA FileRecordSent ==
    ASSUME Inv, spc = "sendfile", conv = "open", NEW d \in Record,
           d.type \in {"file_data", "file_complete"}, s2c' = Append(s2c, d)
    PROVE  /\ s2c' \in Seq(Record) /\ Len(s2c') = Len(s2c) + 1 /\ s2c' # <<>> /\ s2c'[Len(s2c')] = d
           /\ \A i \in 1 .. Len(s2c) : s2c'[i] = s2c[i]
           /\ \A i \in 1 .. Len(s2c') : /\ s2c'[i].type \in OfPut
                                        /\ s2c'[i].type = "send_file" => i = 1
                                        /\ s2c'[i].type = "file_complete" => i = Len(s2c')
                                        /\ i \in 1 .. Len(s2c) \/ s2c'[i] = d
           /\ s2c'[1].type # "simple" /\ Opened' = Opened /\ Ended' = (d.type = "file_complete")
  <1>1. /\ s2c \in Seq(Record) /\ Len(s2c) \in Nat
        /\ \A i \in 1 .. Len(s2c) : /\ s2c[i].type \in {"send_file", "file_data"}
                                    /\ s2c[i].type = "send_file" => i = 1
    BY Sending
  <1>2. /\ s2c' \in Seq(Record) /\ Len(s2c') = Len(s2c) + 1 /\ s2c' # <<>> /\ s2c'[Len(s2c) + 1] = d
        /\ \A i \in 1 .. Len(s2c) : s2c'[i] = s2c[i]
    BY <1>1, AppendFacts
  <1>3. ASSUME NEW i \in 1 .. Len(s2c')
        PROVE  /\ s2c'[i].type \in OfPut
               /\ s2c'[i].type = "send_file" => i = 1
               /\ s2c'[i].type = "file_complete" => i = Len(s2c')
               /\ i \in 1 .. Len(s2c) \/ s2c'[i] = d
    <2>1. i \in 1 .. Len(s2c) \/ i = Len(s2c) + 1
      <3>1. Len(s2c') = Len(s2c) + 1 /\ Len(s2c) \in Nat
        BY <1>1, <1>2
      <3> QED
        BY ONLY <3>1, i \in 1 .. Len(s2c')
    <2>2. CASE i \in 1 .. Len(s2c)
      BY <1>1, <1>2, <2>2 DEF OfPut
    <2>3. CASE i = Len(s2c) + 1
      BY <1>2, <2>3 DEF OfPut
    <2> QED
      BY <2>1, <2>2, <2>3
  <1>4. 1 \in 1 .. Len(s2c')
    BY <1>1, <1>2
  <1>5. Opened' = Opened
    <2>1. CASE s2c = <<>>
      <3>1. s2c'[1] = d
        BY <1>2, <2>1
      <3> QED
        BY <2>1, <3>1 DEF Opened
    <2>2. CASE s2c # <<>>
      <3>1. 1 \in 1 .. Len(s2c)
        BY <1>1, <2>2
      <3> QED
        BY <1>2, <2>2, <3>1 DEF Opened
    <2> QED
      BY <2>1, <2>2
  <1>6. Ended' = (d.type = "file_complete")
    BY <1>2 DEF Ended
  <1>7. s2c'[1].type # "simple"
    BY <1>3, <1>4 DEF OfPut
  <1> QED
    BY <1>2, <1>3, <1>5, <1>6, <1>7

\* The block that was sent is the next one of the file.
LEMMA NextBlockSent ==
    ASSUME Inv, spc = "sendfile", conv = "open", unread # <<>>, NEW d \in Record,
           d.type = "file_data", d.block = Head(unread), s2c' = Append(s2c, d), unread' = Tail(unread),
           NEW CONSTANT o \in {0, 1}, GetBlocks(o, 0),
           UNCHANGED <<local, written, call, remote, conv, spc>>
    PROVE  GetBlocks(o, 0)'
  <1> DEFINE R == remote[call.name]
             k == Len(s2c) - o - 0
  <1>1. /\ Len(s2c') = Len(s2c) + 1 /\ s2c'[Len(s2c')] = d
        /\ \A i \in 1 .. Len(s2c) : s2c'[i] = s2c[i]
    BY FileRecordSent
  <1>2. Len(s2c) \in Nat /\ written \in Nat /\ unread \in Seq(Block)
    BY DEF Inv, Typed, TypeOK
  <1>3. /\ Head(unread) = unread[1] /\ Len(unread) \in Nat /\ Len(unread) >= 1
        /\ Len(unread') = Len(unread) - 1 /\ \A i \in 1 .. Len(unread) - 1 : unread'[i] = unread[i + 1]
    BY <1>2, TailFacts
  <1>4. /\ k >= 0 /\ written + k <= Len(R)
        /\ \A i \in 1 .. written : local[call.to][i] = R[i]
        /\ \A i \in 1 .. k : s2c[o + i].type = "file_data" /\ s2c[o + i].block = R[written + i]
        /\ written + k + Len(unread) = Len(R)
        /\ \A i \in 1 .. Len(unread) : unread[i] = R[written + k + i]
    BY DEF GetBlocks
  <1>5. k \in Nat /\ Len(s2c') - o - 0 = k + 1 /\ Len(s2c') = o + (k + 1)
    BY <1>1, <1>2, <1>4
  <1>6. \A i \in 1 .. k : o + i \in 1 .. Len(s2c)
    BY <1>2
  <1>7. d.block = R[written + (k + 1)]
    <2>1. 1 \in 1 .. Len(unread) /\ written + k + 1 = written + (k + 1)
      BY <1>2, <1>3, <1>5
    <2> HIDE DEF k
    <2> QED
      BY <1>3, <1>4, <2>1
  <1> HIDE DEF k
  <1>8. ASSUME NEW i \in 1 .. k + 1
        PROVE  s2c'[o + i].type = "file_data" /\ s2c'[o + i].block = R[written + i]
    <2>1. i \in 1 .. k \/ i = k + 1
      BY <1>5
    <2>2. CASE i \in 1 .. k
      BY <1>1, <1>4, <1>6, <2>2
    <2>3. CASE i = k + 1
      BY <1>1, <1>5, <1>7, <2>3
    <2> QED
      BY <2>1, <2>2, <2>3
  <1>9. ASSUME NEW i \in 1 .. Len(unread')
        PROVE  unread'[i] = R[written + (k + 1) + i]
    <2>1. i \in 1 .. Len(unread) - 1 /\ i + 1 \in 1 .. Len(unread)
          /\ written + k + (i + 1) = written + (k + 1) + i
      BY <1>2, <1>3, <1>5
    <2> QED
      BY <1>3, <1>4, <2>1
  <1>10. k + 1 >= 0 /\ written + (k + 1) <= Len(R) /\ written + (k + 1) + Len(unread') = Len(R)
    <2>1. /\ written \in Nat /\ k \in Nat /\ Len(unread) \in Nat /\ Len(unread) >= 1
          /\ Len(unread') = Len(unread) - 1 /\ written + k + Len(unread) = Len(R)
      BY <1>2, <1>3, <1>4, <1>5
    <2> HIDE DEF R
    <2> QED
      BY ONLY <2>1
  <1>11. (LET G == remote[call.name]
              q == Len(s2c) - o - 0
          IN /\ q >= 0 /\ written + q <= Len(G)
             /\ \A i \in 1 .. written : local[call.to][i] = G[i]
             /\ \A i \in 1 .. q : s2c[o + i].type = "file_data" /\ s2c[o + i].block = G[written + i]
             /\ conv = "open" /\ spc = "sendfile" =>
                   /\ written + q + Len(unread) = Len(G)
                   /\ \A i \in 1 .. Len(unread) : unread[i] = G[written + q + i])'
    BY <1>4, <1>5, <1>8, <1>9, <1>10
  <1> QED
    BY <1>11 DEF GetBlocks

\* The last record follows the last block.
LEMMA EndSent ==
    ASSUME Inv, spc = "sendfile", conv = "open", unread = <<>>, NEW d \in Record,
           d.type = "file_complete", s2c' = Append(s2c, d), spc' = "receive",
           NEW CONSTANT o \in {0, 1}, GetBlocks(o, 0),
           UNCHANGED <<local, written, call, remote, conv, unread>>
    PROVE  GetBlocks(o, 1)'
  <1> DEFINE R == remote[call.name]
             k == Len(s2c) - o - 0
  <1>1. Len(s2c') = Len(s2c) + 1 /\ \A i \in 1 .. Len(s2c) : s2c'[i] = s2c[i]
    BY FileRecordSent
  <1>2. Len(s2c) \in Nat /\ written \in Nat /\ Len(unread) = 0
    BY DEF Inv, Typed, TypeOK
  <1>3. /\ k >= 0 /\ written + k <= Len(R)
        /\ \A i \in 1 .. written : local[call.to][i] = R[i]
        /\ \A i \in 1 .. k : s2c[o + i].type = "file_data" /\ s2c[o + i].block = R[written + i]
        /\ written + k + Len(unread) = Len(R)
    BY DEF GetBlocks
  <1>4. Len(s2c') - o - 1 = k
    BY <1>1, <1>2
  <1>5. \A i \in 1 .. k : o + i \in 1 .. Len(s2c)
    BY <1>2
  <1>6. written + k = Len(R)
    BY <1>2, <1>3
  <1> HIDE DEF k
  <1>7. \A i \in 1 .. k : s2c'[o + i].type = "file_data" /\ s2c'[o + i].block = R[written + i]
    BY <1>1, <1>3, <1>5
  <1> QED
    BY <1>3, <1>4, <1>6, <1>7 DEF GetBlocks

\* Blocks are sent from an open file until read() fails.
LEMMA ASendsBlockInv == Inv /\ ASendsBlock => Inv'
  <1> SUFFICES ASSUME Inv, ASendsBlock PROVE Inv'
    OBVIOUS
  <1> DEFINE d == [Blank EXCEPT !.type = "file_data", !.block = Head(unread)]
             Reads == s2c' = Append(s2c, d) /\ unread' = Tail(unread) /\ UNCHANGED io_error
             Fails == unread' = <<>> /\ io_error' = TRUE /\ UNCHANGED s2c
  <1>1. /\ spc = "sendfile" /\ unread # <<>> /\ conv = "open" /\ (Reads \/ Fails)
        /\ UNCHANGED <<conv, turn, c2s, outages, clientVars, spc, remote, cwd, dest_file, dest_pos, unopened,
                       outcome, listing, belief>>
    BY DEF ASendsBlock
  <1>2. unread \in Seq(Block)
    BY DEF Inv, Typed, TypeOK
  <1>3. Head(unread) \in Block /\ Tail(unread) \in Seq(Block)
    BY <1>1, <1>2, TailFacts
  <1>4. d \in Record /\ d.type = "file_data" /\ d.block = Head(unread)
    BY <1>3 DEF Blank, Record, Lone, OfPut
  <1> HIDE DEF d
  <1>5. /\ cpc = "file" /\ turn = "server" /\ c2s = <<>> /\ outcome = "ok" /\ listing = {}
        /\ ~Ended
    BY <1>1, Sending
  <1>6. /\ cpc' = "file" /\ call' = call /\ written' = written /\ local' = local
        /\ turn' = "server" /\ c2s' = <<>> /\ outcome' = "ok" /\ listing' = {} /\ conv' = "open"
        /\ spc' = "sendfile"
    BY <1>1, <1>5 DEF clientVars
  <1>7. unread' \in Seq(Block)
    <2>1. <<>> \in Seq(Block)
      OBVIOUS
    <2> QED
      BY <1>1, <1>3, <2>1
  <1>8. TypeOK'
    BY <1>1, <1>7 DEF Inv, Typed, TypeOK, clientVars
  <1>9. Stream' /\ Target'
    BY <1>1, <1>5 DEF Inv, Stream, Target, GoesTo, Pending, clientVars
  <1>10. InTurn' /\ Call' /\ Answer'
    <2>1. InTurn'
      BY <1>6 DEF InTurn
    <2>2. call.type = "request_file"
      BY <1>5 DEF Inv, Call
    <2>3. Call'
      BY <1>6, <2>2 DEF Call
    <2> QED
      BY <1>6, <2>1, <2>3 DEF Answer, OutcomeReported
  <1>11. Believed'
    BY <1>1, <1>5, <1>6 DEF Inv, Believed
  <1>12. PutData' /\ TransferComplete'
    BY <1>6 DEF PutData, TransferComplete
  <1>13. CASE Reads
    <2>1. /\ s2c' \in Seq(Record) /\ s2c' # <<>> /\ s2c'[Len(s2c')] = d
          /\ \A i \in 1 .. Len(s2c) : s2c'[i] = s2c[i]
          /\ \A i \in 1 .. Len(s2c') : /\ s2c'[i].type \in OfPut
                                       /\ s2c'[i].type = "send_file" => i = 1
                                       /\ s2c'[i].type = "file_complete" => i = Len(s2c')
                                       /\ i \in 1 .. Len(s2c) \/ s2c'[i] = d
          /\ s2c'[1].type # "simple" /\ Opened' = Opened /\ Ended' = (d.type = "file_complete")
      BY <1>1, <1>4, <1>13, FileRecordSent
    <2>2. Typed'
      <3>1. \A i \in 1 .. Len(s2c') : s2c'[i].type = "file_data" => s2c'[i].block \in Block
        BY <1>3, <1>4, <2>1 DEF Inv, Typed
      <3> QED
        BY <1>1, <1>8, <2>1, <3>1 DEF Inv, Typed, clientVars
    <2>3. FileRecords'
      BY <1>4, <1>6, <2>1 DEF FileRecords
    <2>4. GetData'
      <3> SUFFICES ASSUME ~io_error'
                   PROVE  IsFile(remote'[call'.name])
                          /\ GetBlocks(IF Opened THEN 1 ELSE 0, IF Ended THEN 1 ELSE 0)'
        BY DEF GetData
      <3>1. ~io_error
        BY <1>13
      <3>2. IsFile(remote[call.name]) /\ GetBlocks(IF Opened THEN 1 ELSE 0, 0)
        BY <1>5, <3>1 DEF Inv, GetData
      <3>3. ~Ended' /\ Opened' = Opened
        BY <1>4, <2>1
      <3>4. UNCHANGED <<local, written, call, remote, conv, spc>>
        BY <1>1, <1>6
      <3>5. CASE Opened
        <4>1. GetBlocks(1, 0)'
          BY <1>1, <1>4, <1>13, <3>2, <3>4, <3>5, NextBlockSent
        <4> QED
          BY <3>2, <3>3, <3>4, <3>5, <4>1
      <3>6. CASE ~Opened
        <4>1. GetBlocks(0, 0)'
          BY <1>1, <1>4, <1>13, <3>2, <3>4, <3>6, NextBlockSent
        <4> QED
          BY <3>2, <3>3, <3>4, <3>6, <4>1
      <3> QED
        BY <3>5, <3>6
    <2> QED
      BY <1>9, <1>10, <1>11, <1>12, <2>2, <2>3, <2>4 DEF Inv
  <1>14. CASE Fails
    <2>1. Typed'
      BY <1>1, <1>8, <1>14 DEF Inv, Typed, clientVars
    <2>2. FileRecords'
      BY <1>1, <1>5, <1>6, <1>14 DEF Inv, FileRecords
    <2>3. GetData'
      BY <1>14 DEF GetData
    <2> QED
      BY <1>9, <1>10, <1>11, <1>12, <2>1, <2>2, <2>3 DEF Inv
  <1> QED
    BY <1>1, <1>13, <1>14

\* The last record gives the turn back.
LEMMA ASendsCompleteInv == Inv /\ ASendsComplete => Inv'
  <1> SUFFICES ASSUME Inv, ASendsComplete PROVE Inv'
    OBVIOUS
  <1> DEFINE d == [Blank EXCEPT !.type = "file_complete"]
  <1>1. /\ spc = "sendfile" /\ unread = <<>> /\ conv = "open" /\ s2c' = Append(s2c, d)
        /\ turn' = "client" /\ spc' = "receive"
        /\ UNCHANGED <<conv, c2s, outages, clientVars, remote, cwd, dest_file, dest_pos, unopened, unread,
                       history>>
    BY DEF ASendsComplete
  <1>2. d \in Record /\ d.type = "file_complete"
    BY OtherType
  <1> HIDE DEF d
  <1>3. /\ cpc = "file" /\ turn = "server" /\ c2s = <<>> /\ outcome = "ok" /\ listing = {}
        /\ ~Ended
    BY <1>1, Sending
  <1>4. /\ cpc' = "file" /\ call' = call /\ written' = written /\ local' = local
        /\ c2s' = <<>> /\ outcome' = "ok" /\ listing' = {} /\ conv' = "open"
        /\ io_error' = io_error /\ belief' = belief
    BY <1>1, <1>3 DEF clientVars, history
  <1>5. /\ s2c' \in Seq(Record) /\ s2c' # <<>> /\ s2c'[Len(s2c')] = d
        /\ \A i \in 1 .. Len(s2c) : s2c'[i] = s2c[i]
        /\ \A i \in 1 .. Len(s2c') : /\ s2c'[i].type \in OfPut
                                     /\ s2c'[i].type = "send_file" => i = 1
                                     /\ s2c'[i].type = "file_complete" => i = Len(s2c')
                                     /\ i \in 1 .. Len(s2c) \/ s2c'[i] = d
        /\ s2c'[1].type # "simple" /\ Opened' = Opened /\ Ended' = (d.type = "file_complete")
    BY <1>1, <1>2, FileRecordSent
  <1>6. TypeOK'
    BY <1>1 DEF Inv, Typed, TypeOK, clientVars
  <1>7. Typed'
    <2>1. \A i \in 1 .. Len(s2c') : s2c'[i].type = "file_data" => s2c'[i].block \in Block
      BY <1>2, <1>5 DEF Inv, Typed
    <2> QED
      BY <1>1, <1>5, <1>6, <2>1 DEF Inv, Typed, clientVars
  <1>8. Stream' /\ Target'
    BY <1>1, <1>3 DEF Inv, Stream, Target, GoesTo, Pending, clientVars
  <1>9. InTurn' /\ Call' /\ Answer'
    <2>1. InTurn'
      BY <1>1, <1>4, <1>5 DEF InTurn
    <2>2. call.type = "request_file"
      BY <1>3 DEF Inv, Call
    <2>3. Call'
      BY <1>4, <2>2 DEF Call
    <2> QED
      BY <1>4, <2>1, <2>3 DEF Answer, OutcomeReported
  <1>10. Believed'
    BY <1>1, <1>3, <1>4 DEF Inv, Believed
  <1>11. PutData' /\ TransferComplete'
    BY <1>4 DEF PutData, TransferComplete
  <1>12. FileRecords'
    BY <1>1, <1>2, <1>4, <1>5 DEF FileRecords
  <1>13. GetData'
    <2> SUFFICES ASSUME ~io_error'
                 PROVE  IsFile(remote'[call'.name])
                        /\ GetBlocks(IF Opened THEN 1 ELSE 0, IF Ended THEN 1 ELSE 0)'
      BY DEF GetData
    <2>1. IsFile(remote[call.name]) /\ GetBlocks(IF Opened THEN 1 ELSE 0, 0)
      BY <1>3, <1>4 DEF Inv, GetData
    <2>2. Ended' /\ Opened' = Opened
      BY <1>2, <1>5
    <2>3. UNCHANGED <<local, written, call, remote, conv, unread>>
      BY <1>1, <1>4
    <2>4. CASE Opened
      <3>1. GetBlocks(1, 1)'
        BY <1>1, <1>2, <2>1, <2>3, <2>4, EndSent
      <3> QED
        BY <2>1, <2>2, <2>3, <2>4, <3>1
    <2>5. CASE ~Opened
      <3>1. GetBlocks(0, 1)'
        BY <1>1, <1>2, <2>1, <2>3, <2>5, EndSent
      <3> QED
        BY <2>1, <2>2, <2>3, <2>5, <3>1
    <2> QED
      BY <2>4, <2>5
  <1> QED
    BY <1>7, <1>8, <1>9, <1>10, <1>11, <1>12, <1>13 DEF Inv

\* A server that finds the conversation gone ends, or accepts the next one.
LEMMA ServerLeavesInv ==
    ASSUME Inv, conv = "broken", spc' \in {"accept", "receive", "sendfile", "exited"},
           unread' \in Seq(Block),
           UNCHANGED <<convVars, clientVars, remote, cwd, dest_file, dest_pos, unopened, history>>
    PROVE  Inv'
  <1> USE DEF convVars, clientVars, history
  <1>1. TypeOK'
    BY DEF Inv, Typed, TypeOK
  <1>2. Typed'
    BY <1>1 DEF Inv, Typed
  <1>3. Stream' /\ InTurn' /\ Call' /\ Target'
    BY DEF Inv, Stream, InTurn, Call, Target, GoesTo, Pending
  <1>4. Answer' /\ Believed'
    BY DEF Inv, Answer, Entries, OutcomeReported, SeesCategory, Believed
  <1>5. FileRecords' /\ PutData' /\ TransferComplete'
    BY DEF Inv, FileRecords, PutData, TransferComplete
  <1>6. GetData'
    BY DEF Inv, GetData, GetBlocks, Opened, Ended
  <1> QED
    BY <1>2, <1>3, <1>4, <1>5, <1>6 DEF Inv

LEMMA ASendFailsInv == Inv /\ ASendFails => Inv'
  <1> SUFFICES ASSUME Inv, ASendFails PROVE Inv'
    OBVIOUS
  <1>1. conv = "broken" /\ spc' = "exited" /\ unread' = <<>>
        /\ UNCHANGED <<convVars, clientVars, remote, cwd, dest_file, dest_pos, unopened, history>>
    BY DEF ASendFails
  <1>2. unread' \in Seq(Block)
    BY <1>1
  <1> QED
    BY <1>1, <1>2, ServerLeavesInv

LEMMA AConversationLostInv == Inv /\ AConversationLost => Inv'
  <1> SUFFICES ASSUME Inv, AConversationLost PROVE Inv'
    OBVIOUS
  <1>1. conv = "broken" /\ spc' = "accept" /\ unread' = unread
        /\ UNCHANGED <<convVars, clientVars, remote, cwd, dest_file, dest_pos, unopened, history>>
    BY DEF AConversationLost
  <1>2. unread' \in Seq(Block)
    BY <1>1 DEF Inv, Typed, TypeOK
  <1> QED
    BY <1>1, <1>2, ServerLeavesInv

LEMMA ACloseInv == Inv /\ AClose => Inv'
  <1> SUFFICES ASSUME Inv, AClose PROVE Inv'
    OBVIOUS
  <1>1. /\ Handles("close") /\ spc' = "accept"
        /\ UNCHANGED <<conv, turn, s2c, outages, clientVars, remote, cwd, dest_file, dest_pos, unopened, unread,
                       history>>
    BY DEF AClose
  <1>2. c2s # <<>> /\ c2s' = Tail(c2s) /\ c2s[1].type = "close" /\ c2s[1].type \in Lone
    BY <1>1, HandlesFacts DEF Lone
  <1>3. conv # "open"
    BY <1>2, LoneOpen
  <1>4. ServerTyped'
    BY <1>1, ServerBefore DEF ServerTyped
  <1>5. Target'
    BY <1>1, <1>2, TargetTail DEF clientVars
  <1>6. unread' \in Seq(Block)
    BY <1>1 DEF Inv, Typed, TypeOK
  <1>7. UNCHANGED <<conv, turn, s2c, clientVars, outcome, listing, belief>>
    BY <1>1 DEF history
  <1> QED
    BY <1>1, <1>2, <1>3, <1>4, <1>5, <1>6, <1>7, DrainInv

\* While the conversation is open the records of a put are those of the
\* call under way, and only the last of them may be answered.
LEMMA PutOpen ==
    ASSUME Inv, conv = "open", c2s # <<>>, c2s[1].type \in OfPut
    PROVE  /\ cpc \in {"put", "answer"} /\ call.type = "send_file" /\ call.name \in Names
           /\ s2c = <<>> /\ listing = {} /\ (cpc = "answer" => turn = "server")
           /\ c2s[1].type # "file_complete" =>
                ~ServerMaySend /\ (cpc = "answer" => Len(c2s) > 1)
           /\ c2s[1].type = "file_complete" => cpc = "answer" /\ Len(c2s) = 1 /\ ServerMaySend
  <1>1. /\ c2s \in Seq(Record) /\ Len(c2s) \in Nat /\ Len(c2s) >= 1 /\ 1 \in 1 .. Len(c2s)
        /\ cpc \in {"idle", "answer", "file", "put"} /\ turn \in {"client", "server"}
    BY DEF Inv, Typed, TypeOK
  <1>2. c2s[1].type \notin Lone
    BY DEF Lone, OfPut
  <1>3. cpc # "idle" /\ s2c = <<>>
    BY DEF Inv, InTurn, Call
  <1>4. cpc # "file"
    <2> SUFFICES ASSUME cpc = "file" PROVE FALSE
      OBVIOUS
    <2>1. c2s[1] = call /\ call.type = "request_file"
      BY DEF Inv, Call
    <2> QED
      BY <1>2, <2>1 DEF Lone
  <1>5. call.type = "send_file" /\ listing = {}
    <2>1. CASE cpc = "put"
      BY <2>1 DEF Inv, Call
    <2>2. CASE cpc = "answer"
      <3>1. call.type \in Lone \cup {"send_file"} /\ listing = {}
            /\ (call.type # "send_file" => c2s[1] = call)
        BY <2>2 DEF Inv, Call
      <3> QED
        BY <1>2, <3>1
    <2> QED
      BY <1>1, <1>3, <1>4, <2>1, <2>2
  <1>6. call.name \in Names
    BY <1>5 DEF Inv, Typed, WellFormed
  <1>7. cpc = "answer" => turn = "server" /\ c2s[Len(c2s)].type = "file_complete"
    BY <1>1, <1>3, <1>5 DEF Inv, InTurn, Call
  <1>8. cpc = "put" => turn = "client" /\ c2s[1].type # "file_complete"
    BY <1>1 DEF Inv, InTurn, Call
  <1>9. c2s[1].type = "file_complete" => Len(c2s) = 1
    BY Handled, <1>1 DEF Inv, Stream
  <1>10. cpc \in {"put", "answer"}
    BY <1>1, <1>3, <1>4
  <1>11. ASSUME c2s[1].type # "file_complete" PROVE ~ServerMaySend /\ (cpc = "answer" => Len(c2s) > 1)
    <2>1. CASE cpc = "put"
      BY <1>8, <2>1 DEF ServerMaySend
    <2>2. CASE cpc = "answer"
      <3>1. Len(c2s) # 1
        BY <1>7, <1>11, <2>2
      <3>2. ~ServerMaySend
        BY <3>1 DEF ServerMaySend
      <3>3. Len(c2s) \in Nat /\ Len(c2s) >= 1
        BY <1>1
      <3>4. Len(c2s) > 1
        <4>1. \A n \in Nat : n >= 1 /\ n # 1 => n > 1
          OBVIOUS
        <4> QED
          BY <3>1, <3>3, <4>1
      <3> QED
        BY <3>2, <3>4
    <2> QED
      BY <1>10, <2>1, <2>2
  <1>12. ASSUME c2s[1].type = "file_complete"
         PROVE  cpc = "answer" /\ Len(c2s) = 1 /\ ServerMaySend
    BY <1>7, <1>8, <1>9, <1>10, <1>12 DEF ServerMaySend
  <1> QED
    BY <1>3, <1>5, <1>6, <1>7, <1>10, <1>11, <1>12

\* The server works through a put while the library sends it.
LEMMA PutStepInv ==
    ASSUME Inv, conv = "open", c2s # <<>>, c2s[1].type \in {"send_file", "file_data"},
           c2s' = Tail(c2s), ServerTyped', Target', PutData',
           UNCHANGED <<conv, turn, s2c, clientVars, spc, cwd, unread, listing, belief>>
    PROVE  Inv'
  <1>1. /\ c2s' \in Seq(Record) /\ (c2s' = <<>>) = (Len(c2s) = 1) /\ Len(c2s) \in Nat
        /\ \A i \in 1 .. Len(c2s') : i + 1 \in 1 .. Len(c2s) /\ c2s'[i] = c2s[i + 1]
        /\ c2s' # <<>> => c2s'[Len(c2s')] = c2s[Len(c2s)]
    BY Handled
  <1>2. Stream' /\ \A i \in 1 .. Len(c2s') : WellFormed(c2s'[i])
    BY StreamTail
  <1>3. /\ cpc \in {"put", "answer"} /\ call.type = "send_file" /\ s2c = <<>> /\ listing = {}
        /\ (cpc = "answer" => turn = "server" /\ Len(c2s) > 1)
    BY PutOpen DEF OfPut
  <1>4. /\ cpc' = cpc /\ call' = call /\ conv' = "open" /\ turn' = turn /\ s2c' = <<>>
        /\ listing' = {} /\ spc' = spc
    BY <1>3 DEF clientVars
  <1>5. TypeOK'
    BY DEF Inv, Typed, TypeOK, ServerTyped, clientVars
  <1>6. Typed'
    <2>1. \A i \in 1 .. Len(s2c') : s2c'[i].type = "file_data" => s2c'[i].block \in Block
      BY DEF Inv, Typed
    <2> QED
      BY <1>1, <1>2, <1>5, <2>1 DEF Inv, Typed, ServerTyped, clientVars
  <1>7. InTurn'
    <2>1. cpc = "answer" => c2s' # <<>>
      BY <1>1, <1>3
    <2>2. spc = "receive" /\ (cpc = "put" => turn = "client")
      BY <1>3 DEF Inv, InTurn
    <2> QED
      BY <1>3, <1>4, <2>1, <2>2 DEF InTurn
  <1>8. Call'
    <2>1. \A i \in 1 .. Len(c2s') : cpc = "put" => c2s'[i].type \in {"send_file", "file_data"}
      BY <1>1 DEF Inv, Call
    <2>2. cpc = "answer" => c2s[Len(c2s)].type = "file_complete"
      BY <1>3 DEF Inv, Call
    <2> QED
      BY <1>1, <1>3, <1>4, <2>1, <2>2 DEF Call
  <1>9. Answer' /\ FileRecords' /\ GetData' /\ TransferComplete'
    BY <1>3, <1>4 DEF Answer, OutcomeReported, FileRecords, GetData, TransferComplete
  <1>10. Believed'
    BY <1>3, <1>4 DEF Inv, Believed
  <1> QED
    BY <1>2, <1>6, <1>7, <1>8, <1>9, <1>10 DEF Inv

\* Behind a SEND_FILE record, or a block that was written, the blocks on
\* their way are those from pos on.
LEMMA BlocksLeft ==
    ASSUME Inv, conv = "open", c2s # <<>>, c2s[1].type \in {"send_file", "file_data"},
           c2s' = Tail(c2s), UNCHANGED clientVars,
           NEW CONSTANT pos \in Nat, NEW CONSTANT off \in {0, 1},
           PutBlocks(off, pos)
    PROVE  PutBlocks(0, pos + (1 - off))'
  <1> DEFINE L == local[call.name]
             c == IF cpc = "answer" THEN 1 ELSE 0
             k == Len(c2s) - off - c
             p == pos + (1 - off)
             j == Len(c2s') - 0 - c
  <1>1. /\ Len(c2s) \in Nat /\ Len(c2s) >= 1 /\ Len(c2s') = Len(c2s) - 1
        /\ \A i \in 1 .. Len(c2s') : i + 1 \in 1 .. Len(c2s) /\ c2s'[i] = c2s[i + 1]
    BY Handled
  <1>2. /\ k >= 0 /\ pos + k + Len(unsent) = Len(L)
        /\ \A i \in 1 .. k : c2s[off + i].type = "file_data" /\ c2s[off + i].block = L[pos + i]
        /\ \A i \in 1 .. Len(unsent) : unsent[i] = L[pos + k + i]
    BY DEF PutBlocks
  <1>3. Len(c2s) - c >= 1 /\ c \in {0, 1}
    BY <1>1, PutOpen DEF OfPut
  <1>4. Len(unsent) \in Nat
    BY DEF Inv, Typed, TypeOK
  <1>5. local' = local /\ call' = call /\ cpc' = cpc /\ unsent' = unsent
    BY DEF clientVars
  <1> HIDE DEF c, L
  <1>6. j \in Nat /\ k \in Nat /\ p \in Nat /\ p + j = pos + k /\ Len(c2s') = j + c
    BY <1>1, <1>2, <1>3
  <1>7. \A i \in 1 .. j : /\ i + (1 - off) \in 1 .. k /\ off + (i + (1 - off)) = i + 1
                          /\ pos + (i + (1 - off)) = p + i /\ i \in 1 .. Len(c2s')
    BY <1>1, <1>3, <1>6
  <1> HIDE DEF j, k, p
  <1>8. ASSUME NEW i \in 1 .. j PROVE c2s'[0 + i].type = "file_data" /\ c2s'[0 + i].block = L[p + i]
    <2>1. 0 + i = i
      BY <1>6
    <2> DEFINE m == i + (1 - off)
    <2>2. m \in 1 .. k /\ off + m = i + 1 /\ pos + m = p + i /\ i \in 1 .. Len(c2s')
      BY <1>7
    <2> HIDE DEF m
    <2>3. c2s[off + m].type = "file_data" /\ c2s[off + m].block = L[pos + m]
      BY <1>2, <2>2
    <2> QED
      BY <1>1, <2>1, <2>2, <2>3
  <1>9. \A i \in 1 .. Len(unsent) : unsent[i] = L[p + j + i]
    BY <1>2, <1>6
  <1>10. j >= 0 /\ p + j + Len(unsent) = Len(L)
    BY <1>2, <1>6
  <1>11. (LET F == local[call.name]
              q == Len(c2s) - 0 - (IF cpc = "answer" THEN 1 ELSE 0)
          IN /\ q >= 0 /\ p + q + Len(unsent) = Len(F)
             /\ \A i \in 1 .. q : c2s[0 + i].type = "file_data" /\ c2s[0 + i].block = F[p + i]
             /\ \A i \in 1 .. Len(unsent) : unsent[i] = F[p + q + i])'
    BY <1>5, <1>8, <1>9, <1>10 DEF j, c, L
  <1> QED
    BY <1>11 DEF PutBlocks, p

\* A record of a put that was not carried out is not answered either, as
\* the library still sends.
LEMMA NotAnswered ==
    ASSUME Inv, c2s # <<>>, c2s[1].type \in {"send_file", "file_data"}, NEW recs, Answers(recs)
    PROVE  UNCHANGED <<s2c, turn>>
  <1>1. ~ServerMaySend
    <2>1. CASE conv = "open"
      BY <2>1, PutOpen DEF OfPut
    <2>2. CASE conv # "open"
      BY <2>2 DEF ServerMaySend
    <2> QED
      BY <2>1, <2>2
  <1> QED
    BY <1>1 DEF Answers

\* A record of a put that the server could not use.
LEMMA PutRefusedInv ==
    ASSUME Inv, NEW t \in {"send_file", "file_data"}, Handles(t), DidNot, Target', ServerTyped',
           UNCHANGED <<conv, clientVars, spc, cwd, unread, io_error, listing, belief>>
    PROVE  Inv'
  <1>1. c2s # <<>> /\ c2s' = Tail(c2s) /\ c2s[1].type \in {"send_file", "file_data"}
    BY HandlesFacts
  <1>2. UNCHANGED <<s2c, turn, remote>> /\ Notes("err")
    BY <1>1, NotAnswered DEF DidNot
  <1>3. CASE conv = "open"
    <2>1. outcome' = "err" /\ ~Pending'
      BY <1>1, <1>2, <1>3, StreamTail DEF Notes
    <2>2. s2c' = <<>>
      BY <1>1, <1>2, Handled
    <2>3. PutData'
      BY <2>1, <2>2 DEF Inv, PutData, clientVars
    <2> QED
      BY <1>1, <1>2, <1>3, <2>3, PutStepInv
  <1>4. CASE conv # "open"
    <2>1. outcome' = outcome
      BY <1>2, <1>4 DEF Notes
    <2>2. spc' \in {"accept", "receive", "sendfile", "exited"} /\ unread' \in Seq(Block)
      BY DEF Inv, Typed, TypeOK
    <2> QED
      BY <1>1, <1>2, <1>4, <2>1, <2>2, DrainInv
  <1> QED
    BY <1>3, <1>4

LEMMA ASendFileInv == Inv /\ ASendFile => Inv'
  <1> SUFFICES ASSUME Inv, ASendFile PROVE Inv'
    OBVIOUS
  <1> DEFINE r == c2s[1]
             Opens == /\ ~r.alloc /\ remote[r.name] # Directory
                      /\ remote' = [remote EXCEPT ![r.name] = Created(@)]
                      /\ dest_file' = r.name /\ dest_pos' = 0
                      /\ Notes("ok") /\ unopened' = FALSE
                      /\ UNCHANGED <<s2c, turn>>
             Fails == DidNot /\ dest_file' = "failed" /\ unopened' = FALSE /\ UNCHANGED dest_pos
             Derails == DidNot /\ unopened' = TRUE /\ UNCHANGED <<dest_file, dest_pos>>
  <1>1. Handles("send_file")
        /\ UNCHANGED <<conv, outages, clientVars, spc, cwd, unread, io_error, listing, belief>>
    BY DEF ASendFile
  <1>2. /\ Head(c2s) = r /\ r.type = "send_file" /\ r.name \in Names /\ r \in Record
        /\ c2s # <<>> /\ c2s' = Tail(c2s)
    BY <1>1, HandlesFacts DEF WellFormed
  <1>3. Opens \/ Fails \/ Derails
    BY <1>2 DEF ASendFile
  <1>4. "failed" \notin Names
    BY AftpAssumption
  <1>5. UNCHANGED <<cpc, call>>
    BY <1>1 DEF clientVars
  <1>6. CASE Opens
    <2>1. Target'
      BY <1>2, <1>5, <1>6, TargetTail
    <2>2. ServerTyped'
      <3>1. remote[r.name] \in Contents /\ remote \in [Names -> Contents]
        BY <1>2, ServerBefore DEF ServerTyped
      <3> DEFINE f == Created(remote[r.name])
      <3>2. f \in Seq(Block) /\ f \in Contents /\ IsFile(f)
        BY <1>6, <3>1, CreatedType
      <3>3. remote' = [remote EXCEPT ![r.name] = f]
        BY <1>6
      <3> HIDE DEF f
      <3>4. remote' \in [Names -> Contents] /\ remote'[r.name] = f
        BY <1>2, <3>1, <3>2, <3>3
      <3>5. 0 <= Len(f)
        BY <3>2
      <3> QED
        BY <1>1, <1>2, <1>6, <3>2, <3>4, <3>5, ServerBefore DEF ServerTyped
    <2>3. CASE conv = "open"
      <3>1. PutData'
        <4>1. ~Pending' /\ Pending /\ s2c' = <<>>
          BY <1>2, <1>6, StreamTail, Handled DEF Pending
        <4>2. ASSUME ~io_error
              PROVE  dest_file' = call'.name /\ PutBlocks(0, dest_pos)'
          <5>1. cpc \in {"put", "answer"} /\ call.type = "send_file"
            BY <1>2, <2>3, PutOpen DEF OfPut
          <5>2. r = call /\ PutBlocks(1, 0)
            BY <2>3, <4>1, <4>2, <5>1 DEF Inv, PutData
          <5>3. PutBlocks(0, 0 + (1 - 1))'
            BY <1>1, <1>2, <2>3, <5>2, BlocksLeft
          <5>4. PutBlocks(0, 0)'
            BY <5>3
          <5>5. dest_pos' = 0
            BY <1>6
          <5>6. PutBlocks(0, dest_pos)'
            BY <5>4, <5>5 DEF PutBlocks
          <5> QED
            BY <1>5, <1>6, <5>2, <5>6
        <4>3. \A i \in 1 .. dest_pos' : FALSE
          <5>1. dest_pos' = 0
            BY <1>6
          <5> QED
            BY ONLY <5>1
        <4> HIDE DEF PutBlocks
        <4> QED
          BY <1>1, <4>1, <4>2, <4>3 DEF Inv, PutData, clientVars
      <3> QED
        BY <1>1, <1>2, <1>6, <2>1, <2>2, <2>3, <3>1, PutStepInv
    <2>4. CASE conv # "open"
      <3>1. outcome' = outcome
        BY <1>6, <2>4 DEF Notes
      <3>2. spc' \in {"accept", "receive", "sendfile", "exited"} /\ unread' \in Seq(Block)
        BY <1>1 DEF Inv, Typed, TypeOK
      <3> QED
        BY <1>1, <1>2, <1>6, <2>1, <2>2, <2>4, <3>1, <3>2, DrainInv
    <2> QED
      BY <2>3, <2>4
  <1>7. CASE Fails
    <2>1. Target'
      BY <1>2, <1>4, <1>5, <1>7, TargetTail
    <2>2. ServerTyped'
      BY <1>1, <1>4, <1>7, ServerBefore DEF ServerTyped, DidNot
    <2> QED
      BY <1>1, <1>7, <2>1, <2>2, PutRefusedInv
  <1>8. CASE Derails
    <2>1. Target'
      BY <1>2, <1>5, <1>8, TargetTail
    <2>2. ServerTyped'
      BY <1>1, <1>8, ServerBefore DEF ServerTyped, DidNot
    <2> QED
      BY <1>1, <1>8, <2>1, <2>2, PutRefusedInv
  <1> QED
    BY <1>3, <1>6, <1>7, <1>8

\* The block that was written is the next one of the local file.
LEMMA BlockWritten ==
    ASSUME Inv, conv = "open", c2s # <<>>, c2s[1].type = "file_data", c2s' = Tail(c2s),
           dest_file \in Names, UNCHANGED clientVars, UNCHANGED dest_file,
           remote' = [remote EXCEPT ![dest_file] = Overwritten(@, dest_pos, c2s[1].block)],
           dest_pos' = dest_pos + 1, ~io_error, outcome = "ok"
    PROVE  /\ dest_file' = call'.name /\ PutBlocks(0, dest_pos)'
           /\ \A i \in 1 .. dest_pos' : remote'[call'.name][i] = local'[call'.name][i]
  <1>1. /\ cpc \in {"put", "answer"} /\ call.type = "send_file" /\ s2c = <<>>
        /\ (cpc = "answer" => Len(c2s) > 1)
    BY PutOpen DEF OfPut
  <1>2. ~Pending
    BY DEF Pending
  <1>3. /\ dest_file = call.name /\ PutBlocks(0, dest_pos)
        /\ \A i \in 1 .. dest_pos : remote[call.name][i] = local[call.name][i]
    BY <1>1, <1>2 DEF Inv, PutData
  <1>4. PICK pos \in Nat : pos = dest_pos
    BY DEF Inv, Typed
  <1>5. PutBlocks(0, pos)
    BY <1>3, <1>4
  <1>6. PutBlocks(0, pos + (1 - 0))'
    BY <1>5, BlocksLeft
  <1>7. dest_pos' = pos + (1 - 0)
    BY <1>4
  <1>8. PutBlocks(0, dest_pos)'
    BY <1>6, <1>7 DEF PutBlocks
  <1>9. c2s[1].block = local[call.name][pos + 1]
    <2> DEFINE k == Len(c2s) - 0 - (IF cpc = "answer" THEN 1 ELSE 0)
    <2>1. \A i \in 1 .. k : c2s[0 + i].block = local[call.name][pos + i]
      BY <1>5 DEF PutBlocks
    <2>2. Len(c2s) \in Nat /\ Len(c2s) >= 1
      BY Handled
    <2>3. k \in Nat /\ k >= 1
      BY <1>1, <2>2
    <2> HIDE DEF k
    <2>4. 1 \in 1 .. k /\ 0 + 1 = 1
      BY <2>3
    <2> QED
      BY <2>1, <2>4
  <1> DEFINE x == remote[dest_file]
             y == Overwritten(x, pos, c2s[1].block)
  <1>10. x \in Seq(Block) /\ pos <= Len(x) /\ remote \in [Names -> Contents]
    BY <1>4, ServerBefore, FileIsSeq DEF ServerTyped
  <1>11. c2s[1].block \in Block
    BY Handled DEF WellFormed
  <1> HIDE DEF x
  <1>12. (\A i \in 1 .. pos : y[i] = x[i]) /\ y[pos + 1] = c2s[1].block
    BY <1>10, <1>11, OverwrittenType
  <1>13. remote' = [remote EXCEPT ![dest_file] = y]
    BY <1>4 DEF x
  <1> HIDE DEF y
  <1>14. remote'[dest_file] = y
    BY <1>10, <1>13
  <1>15. call' = call /\ local' = local
    BY DEF clientVars
  <1>16. \A i \in 1 .. pos + 1 : i \in 1 .. pos \/ i = pos + 1
    OBVIOUS
  <1>17. \A i \in 1 .. pos + 1 : y[i] = local[call.name][i]
    BY <1>3, <1>4, <1>9, <1>12, <1>16 DEF x
  <1>18. dest_pos' = pos + 1
    BY <1>4
  <1> QED
    BY <1>3, <1>8, <1>14, <1>15, <1>17, <1>18

LEMMA AFileDataInv == Inv /\ AFileData => Inv'
  <1> SUFFICES ASSUME Inv, AFileData PROVE Inv'
    OBVIOUS
  <1> DEFINE b == c2s[1].block
             Writes == /\ dest_file \in Names
                       /\ remote' = [remote EXCEPT ![dest_file] = Overwritten(@, dest_pos, b)]
                       /\ dest_pos' = dest_pos + 1
                       /\ UNCHANGED <<outcome, s2c, turn>>
             Loses == dest_file = "other" /\ UNCHANGED <<remote, dest_pos, outcome, s2c, turn>>
             Fails == DidNot /\ UNCHANGED dest_pos
  <1>1. Handles("file_data")
        /\ UNCHANGED <<conv, outages, clientVars, spc, cwd, dest_file, unopened, unread, io_error,
                       listing, belief>>
    BY DEF AFileData
  <1>2. /\ Head(c2s) = c2s[1] /\ c2s[1].type = "file_data" /\ b \in Block
        /\ c2s # <<>> /\ c2s' = Tail(c2s)
    BY <1>1, HandlesFacts DEF WellFormed
  <1>3. Writes \/ Loses \/ Fails
    BY <1>2 DEF AFileData
  <1>4. Target'
    <2>1. ~Pending
      BY <1>2 DEF Pending
    <2>2. 1 \in 1 .. Len(c2s)
      BY <1>2, Handled
    <2>3. GoesTo(c2s[1])
      BY <1>2, <2>1, <2>2 DEF Inv, Target
    <2>4. dest_file' \in Names => dest_file' = c2s[1].name \/ unopened'
      BY <1>1, <2>3 DEF GoesTo
    <2>5. UNCHANGED <<cpc, call>> /\ dest_file' = dest_file /\ unopened' = unopened
      BY <1>1 DEF clientVars
    <2> QED
      BY <1>2, <2>4, <2>5, TargetTail
  <1>5. ~Pending' /\ s2c = <<>>
    BY <1>2, StreamTail, Handled
  <1>6. spc' \in {"accept", "receive", "sendfile", "exited"} /\ unread' \in Seq(Block)
    BY <1>1 DEF Inv, Typed, TypeOK
  <1>7. CASE Writes
    <2>1. ServerTyped'
      <3> DEFINE x == remote[dest_file]
                 y == Overwritten(x, dest_pos, b)
      <3>1. x \in Seq(Block) /\ dest_pos <= Len(x) /\ dest_pos \in Nat /\ remote \in [Names -> Contents]
        BY <1>7, ServerBefore, FileIsSeq DEF ServerTyped
      <3> HIDE DEF x
      <3>2. y \in Seq(Block) /\ dest_pos + 1 <= Len(y)
        BY <1>2, <3>1, OverwrittenType
      <3>3. remote' = [remote EXCEPT ![dest_file] = y]
        BY <1>7 DEF x
      <3> HIDE DEF y
      <3>4. y \in Contents /\ IsFile(y)
        BY <3>2, SeqIsFile
      <3>5. remote' \in [Names -> Contents] /\ remote'[dest_file] = y
        BY <1>7, <3>1, <3>3, <3>4
      <3>6. dest_pos' \in Nat /\ dest_pos' <= Len(y)
        BY <1>7, <3>1, <3>2
      <3> QED
        BY <1>1, <3>4, <3>5, <3>6, ServerBefore DEF ServerTyped
    <2>2. CASE conv = "open"
      <3>1. ASSUME ~io_error, outcome = "ok"
            PROVE  /\ dest_file' = call'.name /\ PutBlocks(0, dest_pos)'
                   /\ \A i \in 1 .. dest_pos' : remote'[call'.name][i] = local'[call'.name][i]
        BY <1>1, <1>2, <1>7, <2>2, <3>1, BlockWritten
      <3>2. PutData'
        <4> HIDE DEF PutBlocks
        <4> QED
          BY <1>1, <1>5, <1>7, <3>1 DEF Inv, PutData, clientVars
      <3> QED
        BY <1>1, <1>2, <1>4, <1>7, <2>1, <2>2, <3>2, PutStepInv
    <2>3. CASE conv # "open"
      BY <1>1, <1>2, <1>4, <1>6, <1>7, <2>1, <2>3, DrainInv
    <2> QED
      BY <2>2, <2>3
  <1>8. CASE Loses
    <2>1. ServerTyped'
      BY <1>1, <1>8, ServerBefore DEF ServerTyped
    <2>2. CASE conv = "open"
      <3>1. cpc \in {"put", "answer"} /\ call.type = "send_file" /\ call.name \in Names
        BY <1>2, <2>2, PutOpen DEF OfPut
      <3>2. "other" \notin Names
        BY AftpAssumption
      <3>3. ~Pending
        BY <1>2 DEF Pending
      <3>4. io_error \/ outcome # "ok"
        BY <1>5, <1>8, <2>2, <3>1, <3>2, <3>3 DEF Inv, PutData
      <3>5. PutData'
        BY <1>1, <1>5, <1>8, <3>4 DEF Inv, PutData, clientVars
      <3> QED
        BY <1>1, <1>2, <1>4, <1>8, <2>1, <2>2, <3>5, PutStepInv
    <2>3. CASE conv # "open"
      BY <1>1, <1>2, <1>4, <1>6, <1>8, <2>1, <2>3, DrainInv
    <2> QED
      BY <2>2, <2>3
  <1>9. CASE Fails
    <2>1. ServerTyped'
      BY <1>1, <1>9, ServerBefore DEF ServerTyped, DidNot
    <2> QED
      BY <1>1, <1>4, <1>9, <2>1, PutRefusedInv
  <1> QED
    BY <1>3, <1>7, <1>8, <1>9

\* The end of a put, as the conversation sees it.
LEMMA PutEndsInv ==
    ASSUME Inv, conv = "open", Handles("file_complete"), NEW a \in Record, a.type = "simple",
           Answers(<<a>>), ServerTyped', outcome' \in {outcome, "err"}, outcome' = "ok" => outcome = "ok",
           UNCHANGED <<conv, clientVars, spc, cwd, remote, dest_pos, unread, io_error, listing, belief>>
    PROVE  Inv'
  <1>1. c2s # <<>> /\ c2s' = Tail(c2s) /\ c2s[1].type = "file_complete" /\ spc = "receive"
    BY HandlesFacts
  <1>2. /\ call.type = "send_file" /\ call.name \in Names /\ s2c = <<>> /\ listing = {}
        /\ cpc = "answer" /\ turn = "server" /\ Len(c2s) = 1 /\ ServerMaySend
    BY <1>1, PutOpen DEF OfPut
  <1>3. c2s' \in Seq(Record) /\ Len(c2s') = 0 /\ c2s' = <<>>
    BY <1>1, <1>2, Handled
  <1>4. s2c' = <<a>> /\ turn' = "client"
    BY <1>2 DEF Answers
  <1>5. s2c' \in Seq(Record) /\ Len(s2c') = 1 /\ s2c'[1] = a /\ s2c' # <<>>
    BY <1>4
  <1>6. \A i \in 1 .. Len(c2s') : FALSE
    BY ONLY <1>3
  <1>7. /\ cpc' = "answer" /\ call' = call /\ conv' = "open" /\ listing' = {} /\ spc' = "receive"
        /\ local' = local /\ unsent' = unsent
    BY <1>1, <1>2 DEF clientVars
  <1>8. TypeOK'
    BY <1>4 DEF Inv, Typed, TypeOK, ServerTyped, clientVars
  <1>9. Typed'
    <2>1. \A i \in 1 .. Len(s2c') : i = 1
      BY ONLY <1>5
    <2>2. \A i \in 1 .. Len(s2c') : s2c'[i].type # "file_data"
      BY <1>5, <2>1
    <2> QED
      BY <1>3, <1>5, <1>6, <1>8, <2>2 DEF Inv, Typed, ServerTyped, clientVars
  <1>10. Stream'
    BY <1>6 DEF Stream
  <1>11. InTurn' /\ Call'
    BY <1>2, <1>3, <1>4, <1>5, <1>6, <1>7 DEF InTurn, Call
  <1>12. Answer' /\ FileRecords' /\ GetData' /\ TransferComplete'
    BY <1>2, <1>5, <1>7 DEF Answer, OutcomeReported, FileRecords, GetData, TransferComplete
  <1>13. Believed'
    BY <1>2, <1>7 DEF Inv, Believed
  <1>14. Target'
    BY <1>6, <1>7 DEF Target
  <1>15. PutData'
    <2>1. IsFile(local[call.name]) /\ unsent = <<>>
      BY <1>2 DEF Inv, PutData
    <2>2. ASSUME outcome' = "ok", ~io_error PROVE IsPrefix(local[call.name], remote[call.name])
      <3>1. ~Pending
        BY <1>1 DEF Pending
      <3>2. /\ dest_file = call.name /\ PutBlocks(0, dest_pos)
            /\ \A i \in 1 .. dest_pos : remote[call.name][i] = local[call.name][i]
        BY <1>2, <2>2, <3>1 DEF Inv, PutData
      <3>3. Len(unsent) = 0
        BY <2>1
      <3>4. dest_pos + (Len(c2s) - 0 - 1) + Len(unsent) = Len(local[call.name])
        BY <1>2, <3>2 DEF PutBlocks
      <3>5. dest_pos \in Nat /\ dest_pos <= Len(remote[call.name])
            /\ remote[call.name] \in Seq(Block) /\ local[call.name] \in Seq(Block)
        <4>1. dest_pos \in Nat /\ dest_pos <= Len(remote[call.name]) /\ IsFile(remote[call.name])
              /\ remote[call.name] \in Contents
          BY <1>2, <3>2, ServerBefore DEF ServerTyped
        <4>2. local[call.name] \in Contents
          BY <1>2 DEF Inv, Typed, TypeOK
        <4> QED
          BY <2>1, <4>1, <4>2, FileIsSeq
      <3>6. dest_pos = Len(local[call.name])
        <4> DEFINE n == Len(local[call.name])
        <4>1. dest_pos + (Len(c2s) - 0 - 1) + Len(unsent) = n /\ Len(c2s) = 1 /\ Len(unsent) = 0
              /\ dest_pos \in Nat
          BY <1>2, <3>3, <3>4, <3>5
        <4> HIDE DEF n
        <4>2. dest_pos = n
          BY ONLY <4>1
        <4> QED
          BY <4>2 DEF n
      <3> QED
        BY <3>2, <3>5, <3>6, PrefixFromBlocks
    <2>3. ~Pending'
      BY <1>3 DEF Pending
    <2> QED
      BY <1>5, <1>7, <2>1, <2>2, <2>3 DEF PutData
  <1> QED
    BY <1>9, <1>10, <1>11, <1>12, <1>13, <1>14, <1>15 DEF Inv

LEMMA AFileCompleteInv == Inv /\ AFileComplete => Inv'
  <1> SUFFICES ASSUME Inv, AFileComplete PROVE Inv'
    OBVIOUS
  <1> DEFINE a == Simple(FALSE)
             b == Simple(TRUE)
             Closes == dest_file' = "closed" /\ Answers(<<a>>) /\ UNCHANGED <<outcome, remote>>
             Fails == Answers(<<b>>) /\ Notes("err") /\ UNCHANGED <<dest_file, remote>>
  <1>1. Handles("file_complete") /\ UNCHANGED cwd
        /\ UNCHANGED <<conv, outages, clientVars, spc, dest_pos, unread, io_error, listing, belief>>
    BY DEF AFileComplete, HandlerLeaves
  <1>2. Closes \/ Fails
    BY DEF AFileComplete, DidNot
  <1>3. a \in Record /\ a.type = "simple" /\ b \in Record /\ b.type = "simple"
    BY SimpleType
  <1> HIDE DEF a, b
  <1>4. c2s # <<>> /\ c2s' = Tail(c2s) /\ c2s[1].type = "file_complete"
    BY <1>1, HandlesFacts
  <1>5. ServerTyped'
    <2>1. "closed" \notin Names
      BY AftpAssumption
    <2> QED
      BY <1>1, <1>2, <2>1, ServerBefore DEF ServerTyped
  <1>6. CASE conv = "open"
    <2>1. CASE Closes
      BY <1>1, <1>3, <1>5, <1>6, <2>1, PutEndsInv
    <2>2. CASE Fails
      <3>1. outcome' = "err"
        BY <1>6, <2>2 DEF Notes
      <3> QED
        BY <1>1, <1>3, <1>5, <1>6, <2>2, <3>1, PutEndsInv
    <2> QED
      BY <1>2, <2>1, <2>2
  <1>7. CASE conv # "open"
    <2>1. UNCHANGED <<outcome, s2c, turn>>
      BY <1>2, <1>7 DEF Notes, Answers, ServerMaySend
    <2>2. Target'
      BY <1>1, <1>4, TargetTail DEF clientVars
    <2>3. spc' \in {"accept", "receive", "sendfile", "exited"} /\ unread' \in Seq(Block)
      BY <1>1 DEF Inv, Typed, TypeOK
    <2> QED
      BY <1>1, <1>4, <1>5, <1>7, <2>1, <2>2, <2>3, DrainInv
  <1> QED
    BY <1>6, <1>7

-----------------------------------------------------------------------------
(***************************************************************************)
(* The theorems.                                                           *)
(***************************************************************************)
LEMMA CallsInv == Inv /\ ClientCalls => Inv'
  <1> SUFFICES ASSUME Inv, ClientCalls PROVE Inv'
    OBVIOUS
  <1>0. alloc_size \in BOOLEAN
    BY DEF Inv, Typed
  <1>1. CASE Connect \/ ConnectFails \/ Close
    BY <1>1, ConnectInv, ConnectFailsInv, CloseInv
  <1>2. CASE \E r \in NamedCalls \cup Queries \cup Renames \cup Listings : Request(r)
    BY <1>2, RequestInv
  <1>3. CASE \E r \in {Blank} \cup NamedCalls \cup Queries \cup Renames \cup Listings : Refused(r)
    BY <1>3, RefusedInv, BlankType, RequestType
  <1>4. CASE \E r \in Puts : IsFile(local[r.name]) /\ Refused(r)
    BY <1>0, <1>4, RefusedInv, TransferType
  <1>5. CASE \E r \in Gets : Get(r)
    BY <1>5, GetInv
  <1>6. CASE \E r \in Puts : Put(r)
    BY <1>6, PutInv
  <1>7. CASE \E r \in Gets \cup Puts : OpenFails(r)
    BY <1>0, <1>7, OpenFailsInv, TransferType
  <1>8. CASE \E a \in AllocSizes : SetAllocationSize(a)
    BY <1>8, SetAllocationSizeInv
  <1> QED
    BY <1>1, <1>2, <1>3, <1>4, <1>5, <1>6, <1>7, <1>8 DEF ClientCalls

LEMMA ServerInv == Inv /\ Server => Inv'
  BY ATowerRequestInv, AQuerySystemInv, AQueryDirInv, AChangeDirInv, ACreateDirInv, ADeleteInv,
     ARemoveDirInv, ARenameInv, AListRequestInv, ARequestFileInv, ASendsBlockInv, ASendsCompleteInv,
     ASendFailsInv, ASendFileInv, AFileDataInv, AFileCompleteInv, ACloseInv, AConversationLostInv
     DEF Server

LEMMA StutterInv == Inv /\ UNCHANGED vars => Inv'
  <1> SUFFICES ASSUME Inv, UNCHANGED vars PROVE Inv'
    OBVIOUS
  <1> USE DEF vars, convVars, clientVars, serverVars, history
  <1>1. TypeOK'
    BY DEF Inv, Typed, TypeOK
  <1>2. Typed'
    BY <1>1 DEF Inv, Typed
  <1>3. Stream' /\ InTurn' /\ Call' /\ Target'
    BY DEF Inv, Stream, InTurn, Call, Target, GoesTo, Pending
  <1>4. Answer' /\ Believed'
    BY DEF Inv, Answer, Entries, OutcomeReported, SeesCategory, Believed
  <1>5. FileRecords' /\ TransferComplete'
    BY DEF Inv, FileRecords, TransferComplete
  <1>6. PutData'
    BY DEF Inv, PutData, PutBlocks, Pending
  <1>7. GetData'
    BY DEF Inv, GetData, GetBlocks, Opened, Ended
  <1> QED
    BY <1>2, <1>3, <1>4, <1>5, <1>6, <1>7 DEF Inv

LEMMA InvStep == Inv /\ [Next]_vars => Inv'
  <1> SUFFICES ASSUME Inv, [Next]_vars PROVE Inv'
    OBVIOUS
  <1>1. CASE ClientGoesOn
    BY <1>1, GetsAnswerInv, CallFailsInv, DirReadInv, GetsFileRecordInv, PutsBlockInv, PutsCompleteInv
       DEF ClientGoesOn
  <1> QED
    BY <1>1, OutageInv, AListFaultsInv, CallsInv, ServerInv, StutterInv DEF Next

\* The invariant holds throughout every session.
LEMMA InvAlways == Spec => []Inv
  BY InitInv, InvStep, PTL DEF Spec

\* Library and server are in step: between two calls no record is under way
\* and it is the client's turn, and every record of aftpd fits the call that
\* reads it, also when a put failed early or a listing is being read.
THEOREM LibraryAndServerInStep == Spec => []Synchronised
  <1> SUFFICES Inv => Synchronised
    BY InvAlways, PTL
  <1> SUFFICES ASSUME Inv PROVE Synchronised
    OBVIOUS
  <1>1. TypeOK
    BY DEF Inv, Typed
  <1>2. InStep
    BY DEF Inv, InTurn, InStep
  <1>3. AnswerFits
    <2> SUFFICES ASSUME NEW i \in DOMAIN s2c, conv = "open"
                 PROVE  \/ cpc = "answer" /\ call.type = "tower" /\ s2c[i].type = "tower"
                        \/ cpc = "answer" /\ call.type # "tower" /\ i = 1 /\ s2c[i].type = "simple"
                        \/ (listing # {} \/ call.type = "list")
                           /\ s2c[i].type \in {"list_entry", "list_complete"}
                        \/ cpc = "file" /\ s2c[i].type \in {"simple", "send_file", "file_data", "file_complete"}
      BY DEF AnswerFits
    <2>1. i \in 1 .. Len(s2c) /\ Len(s2c) \in Nat /\ s2c # <<>>
      BY DEF Inv, Typed
    <2>2. i = 1 \/ i = Len(s2c) \/ i \in 2 .. Len(s2c) - 1
      BY <2>1
    <2>3. CASE cpc = "idle"
      <3>1. listing # {}
        BY <2>1, <2>3 DEF Inv, InTurn
      <3>2. Entries(1, listing)
        BY <3>1 DEF Inv, Answer
      <3>3. i \in 1 .. Len(s2c) - 1 \/ i = Len(s2c)
        BY <2>1
      <3> QED
        BY <3>1, <3>2, <3>3 DEF Entries
    <2>4. CASE cpc = "put"
      BY <2>1, <2>4 DEF Inv, Call
    <2>5. CASE cpc = "answer"
      <3>1. /\ s2c[1].type = IF call.type = "tower" THEN "tower" ELSE "simple"
            /\ IF call.type = "list" /\ ~s2c[1].failed THEN Entries(2, call.spec \cup {Dot}) ELSE Len(s2c) = 1
        BY <2>1, <2>5 DEF Inv, Answer
      <3>2. CASE call.type = "list" /\ ~s2c[1].failed
        BY <2>2, <2>5, <3>1, <3>2 DEF Entries
      <3>3. CASE ~(call.type = "list" /\ ~s2c[1].failed)
        <4>1. i = 1
          BY <2>1, <3>1, <3>3
        <4> QED
          BY <2>5, <3>1, <4>1
      <3> QED
        BY <3>2, <3>3
    <2>6. CASE cpc = "file"
      <3>1. \/ \A j \in 1 .. Len(s2c) : s2c[j].type \in OfPut
            \/ Len(s2c) = 1 /\ s2c[1].type = "simple"
        BY <2>6 DEF Inv, FileRecords
      <3>2. Len(s2c) = 1 => i = 1
        BY <2>1
      <3> QED
        BY <2>1, <2>6, <3>1, <3>2 DEF OfPut
    <2> QED
      BY <1>1, <2>3, <2>4, <2>5, <2>6 DEF TypeOK
  <1> QED
    BY <1>1, <1>2, <1>3 DEF Synchronised

\* What a call told its caller is so: rename, rd, get, dir and, for names of
\* more than six characters, cd and md report the outcome that aftpd had; a
\* transfer that both call complete left the source's blocks at the head of
\* the destination; and the server's directory is the one reported.
THEOREM CallersToldTheTruth == Spec => []CallerTold
  <1>1. Inv => OutcomeReported /\ TransferComplete
    BY DEF Inv, Answer
  <1>2. Inv => DirectoryAgreed
    BY DEF Inv, Believed, DirectoryAgreed
  <1> QED
    BY <1>1, <1>2, InvAlways, PTL DEF CallerTold

\* aftp_dir_read reports only names that the listing it reads asked for,
\* although a LIST_ENTRY without a name repeats what the buffer holds: the
\* response before the listing has emptied it.
THEOREM ListingsReportWhatWasAsked == Spec => ListedEntriesMatch
  <1>1. Inv => (DirRead /\ rc' = "ok" /\ first_param' # "rc" => dir_entry' \in listing)
    <2> SUFFICES ASSUME Inv, DirRead, rc' = "ok", first_param' # "rc" PROVE dir_entry' \in listing
      OBVIOUS
    <2>1. s2c # <<>> /\ s2c' = Tail(s2c) /\ listing # {}
      BY DEF DirRead
    <2>2. Head(s2c) = s2c[1] /\ (s2c[1].type = "list_entry" => s2c[1].name \in listing \cup {NoName})
      BY <2>1, DirReadFacts
    <2>3. first_param # "rc" => dir_entry \in listing /\ first_param \in listing
      BY <2>1 DEF Inv, Answer
    <2>4. CASE s2c[1].type = "list_entry"
      <3> DEFINE p == IF s2c[1].name # NoName THEN s2c[1].name ELSE first_param
      <3>1. first_param' = p /\ (p # "rc" => dir_entry' = p)
        BY <2>1, <2>2, <2>4 DEF DirRead
      <3> QED
        BY <2>2, <2>3, <2>4, <3>1
    <2>5. CASE s2c[1].type # "list_entry"
      <3>1. first_param' = first_param /\ dir_entry' = dir_entry
        BY <2>1, <2>2, <2>5 DEF DirRead
      <3> QED
        BY <2>3, <3>1
    <2> QED
      BY <2>4, <2>5
  <1> QED
    BY <1>1, InvAlways, PTL DEF ListedEntriesMatch

\* Only the server changes its directory.
LEMMA LibraryKeepsRemote == Outage \/ AListFaults \/ ClientCalls \/ ClientGoesOn => UNCHANGED remote
  <1>1. Outage \/ AListFaults => UNCHANGED remote
    BY DEF Outage, AListFaults, serverVars
  <1>2. ClientCalls => UNCHANGED remote
    BY DEF ClientCalls, Connect, ConnectFails, Close, Request, Refused, Get, Put, OpenFails,
           SetAllocationSize, serverVars
  <1>3. ClientGoesOn => UNCHANGED remote
    BY DEF ClientGoesOn, GetsAnswer, CallFails, DirRead, GetsFileRecord, PutsBlock, PutsComplete,
           serverVars
  <1> QED
    BY <1>1, <1>2, <1>3

\* An entry of the server's directory changes only through a record that
\* names it: blocks go to the file that the put under way opened, never to
\* one left open by an earlier transfer, unless a_send_file returned before
\* its open(), without memory or at an allocation size, which it cannot parse.
THEOREM BlocksGoWhereNamed == Spec => OnlyNamedChange
  <1> DEFINE h == Head(c2s)
             Named == \A n \in Names : remote'[n] # remote[n] =>
                        \/ n \in {h.name, h.to}
                        \/ unopened /\ h.type = "file_data"
  <1>1. Inv /\ [Next]_vars => Named
    <2> SUFFICES ASSUME Inv, [Next]_vars PROVE Named
      OBVIOUS
    <2>1. remote \in [Names -> Contents]
      BY DEF Inv, Typed, TypeOK
    <2>2. CASE UNCHANGED remote
      BY <2>2
    <2>3. CASE ACreateDir \/ ADelete \/ ARemoveDir
      <3>1. \/ UNCHANGED remote
            \/ \E x : remote' = [remote EXCEPT ![h.name] = x]
        BY <2>3 DEF ACreateDir, ADelete, ARemoveDir, Did, DidNot
      <3> HIDE DEF h
      <3> QED
        BY <2>1, <3>1
    <2>4. CASE ARename
      <3>1. \/ UNCHANGED remote
            \/ remote' = [remote EXCEPT ![h.to] = remote[h.name], ![h.name] = Absent]
        BY <2>4 DEF ARename, Did, DidNot
      <3> HIDE DEF h
      <3> QED
        BY <2>1, <3>1
    <2>5. CASE ASendFile
      <3>1. \/ UNCHANGED remote
            \/ remote' = [remote EXCEPT ![h.name] = Created(@)]
        BY <2>5 DEF ASendFile, DidNot
      <3> HIDE DEF h
      <3> QED
        BY <2>1, <3>1
    <2>6. CASE AFileData
      <3>1. Handles("file_data")
        BY <2>6 DEF AFileData
      <3>2. h = c2s[1] /\ c2s[1].type = "file_data" /\ c2s # <<>> /\ c2s' = Tail(c2s)
        BY <3>1, HandlesFacts
      <3>3. 1 \in 1 .. Len(c2s)
        BY <3>2, Handled
      <3>4. dest_file \in Names => dest_file = h.name \/ unopened
        BY <3>2, <3>3 DEF Inv, Target, Pending, GoesTo
      <3>5. \/ UNCHANGED remote
            \/ dest_file \in Names
               /\ remote' = [remote EXCEPT ![dest_file] = Overwritten(@, dest_pos, h.block)]
        BY <2>6 DEF AFileData, DidNot
      <3>6. h.type = "file_data"
        BY <3>2
      <3> HIDE DEF h
      <3> QED
        BY <2>1, <3>4, <3>5, <3>6
    <2>7. CASE \/ ATowerRequest \/ AQuerySystem \/ AQueryDir \/ AChangeDir \/ AListRequest
               \/ ARequestFile \/ ASendsBlock \/ ASendsComplete \/ ASendFails \/ AFileComplete
               \/ AClose \/ AConversationLost
      <3>1. UNCHANGED remote
        BY <2>7 DEF ATowerRequest, AQuerySystem, AQueryDir, AChangeDir, AListRequest, ARequestFile,
                    ASendsBlock, ASendsComplete, ASendFails, AFileComplete, AClose,
                    AConversationLost, Did, DidNot
      <3> QED
        BY <3>1
    <2>8. UNCHANGED vars => UNCHANGED remote
      BY DEF vars, serverVars
    <2> HIDE DEF Named
    <2> QED
      BY <2>2, <2>3, <2>4, <2>5, <2>6, <2>7, <2>8, LibraryKeepsRemote DEF Next, Server
  <1> QED
    BY <1>1, InvAlways, PTL DEF Spec, OnlyNamedChange
=============================================================================
