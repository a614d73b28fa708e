----------------------------- MODULE TdbProofs -----------------------------
(***************************************************************************)
(* The file of a tdb is well formed after every step, a traversal is       *)
(* complete, and the database is the map of TdbMap: for every number of    *)
(* processes, keys and values, every hash function and every layout of the *)
(* file, and any number of calls, deaths and failed allocations.           *)
(***************************************************************************)
EXTENDS Tdb, SequenceTheorems, NaturalsInduction, WellFoundedInduction, TLAPS

\* Every set of naturals that is not empty has a least member.
LEMMA LeastIsMin ==
    ASSUME NEW T \in SUBSET Nat, T # {}
    PROVE  Min(T) \in T /\ \A y \in T : Min(T) <= y
  <1> DEFINE R == OpToRel(<, Nat)
  <1>1. IsWellFoundedOn(R, Nat)
    BY NatLessThanWellFounded, Zenon
  <1>2. \A a, b \in Nat : a < b => <<a, b>> \in R
    BY DEF OpToRel
  <1> HIDE DEF R
  <1>3. PICK x \in T : \A y \in T : ~(<<y, x>> \in R)
    BY <1>1, WFMin
  <1>4. ASSUME NEW y \in T PROVE x <= y
    <2>1. ~(y < x)
      BY <1>2, <1>3
    <2>2. x \in Nat /\ y \in Nat
      OBVIOUS
    <2> QED
      BY <2>1, <2>2
  <1> QED
    BY <1>4 DEF Min

-----------------------------------------------------------------------------
(***************************************************************************)
(* Lists as sequences and as sets.                                         *)
(***************************************************************************)
LEMMA Pushed ==
    ASSUME NEW S, NEW s \in Seq(S), NEW r \in S
    PROVE  LET t == <<r>> \o s IN
           /\ t \in Seq(S) /\ Range(t) = Range(s) \cup {r}
           /\ IsInjective(s) /\ r \notin Range(s) => IsInjective(t)
  <1> DEFINE t == <<r>> \o s
             n == Len(s)
  <1>1. <<r>> \in Seq(S) /\ Len(<<r>>) = 1 /\ <<r>>[1] = r
    OBVIOUS
  <1>2. /\ t \in Seq(S) /\ Len(t) = 1 + n /\ n \in Nat
        /\ \A i \in 1 .. 1 + n : t[i] = IF i <= 1 THEN <<r>>[i] ELSE s[i - 1]
    BY <1>1, ConcatProperties
  <1> HIDE DEF t
  <1>3. /\ DOMAIN t = 1 .. n + 1 /\ DOMAIN s = 1 .. n /\ t[1] = r
        /\ \A i \in 1 .. n : t[i + 1] = s[i]
        /\ \A i \in 2 .. n + 1 : t[i] = s[i - 1]
    BY <1>1, <1>2
  <1>4. Range(t) = Range(s) \cup {r}
    <2>1. ASSUME NEW x \in Range(t) PROVE x \in Range(s) \cup {r}
      <3>1. PICK i \in 1 .. n + 1 : x = t[i]
        BY <1>3 DEF Range
      <3>2. CASE i = 1
        BY <1>3, <3>1, <3>2
      <3>3. CASE i # 1
        <4>1. i - 1 \in 1 .. n /\ x = s[i - 1]
          BY <1>2, <1>3, <3>1, <3>3
        <4> QED
          BY <1>3, <4>1 DEF Range
      <3> QED
        BY <3>2, <3>3
    <2>2. ASSUME NEW x \in Range(s) PROVE x \in Range(t)
      <3>1. PICK i \in 1 .. n : x = s[i]
        BY <1>3 DEF Range
      <3>2. i + 1 \in 1 .. n + 1 /\ t[i + 1] = x
        BY <1>2, <1>3, <3>1
      <3> QED
        BY <1>3, <3>2 DEF Range
    <2>3. r \in Range(t)
      <3>1. 1 \in 1 .. n + 1
        BY <1>2
      <3> QED
        BY <1>3, <3>1 DEF Range
    <2> QED
      BY <2>1, <2>2, <2>3
  <1>5. ASSUME IsInjective(s), r \notin Range(s) PROVE IsInjective(t)
    <2> SUFFICES ASSUME NEW a \in 1 .. n + 1, NEW b \in 1 .. n + 1, t[a] = t[b] PROVE a = b
      BY <1>3 DEF IsInjective
    <2>1. \A i \in 1 .. n : s[i] # r
      BY <1>3, <1>5 DEF Range
    <2>2. \A i, j \in 1 .. n : s[i] = s[j] => i = j
      BY <1>3, <1>5 DEF IsInjective
    <2>3. CASE a = 1
      <3>1. b # 1 => b - 1 \in 1 .. n /\ t[b] = s[b - 1]
        BY <1>2, <1>3
      <3> QED
        BY <1>3, <2>1, <2>3, <3>1
    <2>4. CASE b = 1
      <3>1. a # 1 => a - 1 \in 1 .. n /\ t[a] = s[a - 1]
        BY <1>2, <1>3
      <3> QED
        BY <1>3, <2>1, <2>4, <3>1
    <2>5. CASE a # 1 /\ b # 1
      <3>1. a - 1 \in 1 .. n /\ b - 1 \in 1 .. n /\ t[a] = s[a - 1] /\ t[b] = s[b - 1]
        BY <1>2, <1>3, <2>5
      <3>2. a - 1 = b - 1
        BY <2>2, <3>1
      <3> QED
        BY <3>2
    <2> QED
      BY <2>3, <2>4, <2>5
  <1> QED
    BY <1>2, <1>4, <1>5 DEF t

\* The elements behind a removed one move up.
LEMMA RemovedAt ==
    ASSUME NEW S, NEW s \in Seq(S), NEW i \in 1 .. Len(s)
    PROVE  LET t == RemoveAt(s, i) IN
           /\ t \in Seq(S) /\ Len(t) = Len(s) - 1
           /\ \A j \in 1 .. Len(t) : t[j] = IF j < i THEN s[j] ELSE s[j + 1]
  <1> DEFINE n == Len(s)
             u == SubSeq(s, 1, i - 1)
             v == SubSeq(s, i + 1, n)
  <1>0. n \in Nat /\ i \in Nat /\ 1 <= i /\ i <= n
    OBVIOUS
  <1>1. u \in Seq(S) /\ Len(u) = i - 1 /\ \A j \in 1 .. i - 1 : u[j] = s[j]
    <2>1. \A j \in 1 .. i - 1 : j \in 1 .. n
      BY <1>0
    <2> QED
      BY <1>0, <2>1, SubSeqProperties
  <1>2. v \in Seq(S) /\ Len(v) = n - i /\ \A j \in 1 .. n - i : v[j] = s[i + j]
    <2>1. \A j \in i + 1 .. n : j \in 1 .. n
      BY <1>0
    <2>2. v \in Seq(S) /\ Len(v) = (IF i + 1 <= n THEN n - (i + 1) + 1 ELSE 0)
          /\ \A j \in 1 .. n - (i + 1) + 1 : v[j] = s[(i + 1) + j - 1]
      BY <1>0, <2>1, SubSeqProperties
    <2>3. Len(v) = n - i
      BY <1>0, <2>2
    <2>4. \A j \in 1 .. n - i : j \in 1 .. n - (i + 1) + 1 /\ (i + 1) + j - 1 = i + j
      BY <1>0
    <2> QED
      BY <2>2, <2>3, <2>4
  <1> DEFINE t == u \o v
  <1> HIDE DEF u, v
  <1>3. /\ t \in Seq(S) /\ Len(t) = (i - 1) + (n - i)
        /\ \A j \in 1 .. Len(t) : t[j] = IF j <= i - 1 THEN u[j] ELSE v[j - (i - 1)]
    <2>1. /\ t \in Seq(S) /\ Len(t) = Len(u) + Len(v)
          /\ \A j \in 1 .. Len(u) + Len(v) : t[j] = IF j <= Len(u) THEN u[j] ELSE v[j - Len(u)]
      BY <1>1, <1>2, ConcatProperties
    <2> HIDE DEF t
    <2> QED
      BY ONLY <1>1, <1>2, <2>1
  <1>4. Len(t) = n - 1
    BY <1>0, <1>3
  <1> HIDE DEF t
  <1>5. ASSUME NEW j \in 1 .. n - 1 PROVE t[j] = IF j < i THEN s[j] ELSE s[j + 1]
    <2>1. CASE j < i
      <3>1. j \in 1 .. i - 1 /\ j <= i - 1
        BY <1>0, <2>1
      <3> QED
        BY <1>1, <1>3, <1>4, <2>1, <3>1
    <2>2. CASE ~(j < i)
      <3>1. ~(j <= i - 1) /\ j - (i - 1) \in 1 .. n - i /\ i + (j - (i - 1)) = j + 1
        BY <1>0, <2>2
      <3> QED
        BY <1>2, <1>3, <1>4, <2>2, <3>1
    <2> QED
      BY <2>1, <2>2
  <1>6. RemoveAt(s, i) = t
    BY DEF RemoveAt, t, u, v
  <1> QED
    BY <1>3, <1>4, <1>5, <1>6

LEMMA Removed ==
    ASSUME NEW S, NEW s \in Seq(S), NEW i \in 1 .. Len(s), IsInjective(s)
    PROVE  LET t == RemoveAt(s, i) IN
           t \in Seq(S) /\ Range(t) = Range(s) \ {s[i]} /\ IsInjective(t)
  <1> DEFINE n == Len(s)
             t == RemoveAt(s, i)
  <1>0. n \in Nat /\ i \in Nat /\ 1 <= i /\ i <= n
    OBVIOUS
  <1>1. /\ t \in Seq(S) /\ Len(t) = n - 1
        /\ \A j \in 1 .. n - 1 : t[j] = IF j < i THEN s[j] ELSE s[j + 1]
    BY RemovedAt
  <1> HIDE DEF t
  <1>2. DOMAIN t = 1 .. n - 1 /\ DOMAIN s = 1 .. n
    BY <1>1
  <1>3. \A a, b \in 1 .. n : s[a] = s[b] => a = b
    BY <1>2 DEF IsInjective
  <1> DEFINE Old(j) == IF j < i THEN j ELSE j + 1
  <1>4. \A j \in 1 .. n - 1 : Old(j) \in 1 .. n /\ Old(j) # i /\ t[j] = s[Old(j)]
    BY <1>0, <1>1
  <1>5. \A j, k \in 1 .. n - 1 : Old(j) = Old(k) => j = k
    BY <1>0
  <1>6. ASSUME NEW j \in 1 .. n, j # i PROVE \E k \in 1 .. n - 1 : Old(k) = j
    <2>1. CASE j < i
      BY <1>0, <1>6, <2>1
    <2>2. CASE j > i
      <3>1. j - 1 \in 1 .. n - 1 /\ Old(j - 1) = j
        BY <1>0, <1>6, <2>2
      <3> QED
        BY <3>1
    <2> QED
      BY <1>0, <1>6, <2>1, <2>2
  <1> HIDE DEF Old
  <1>7. Range(t) = Range(s) \ {s[i]}
    <2>1. ASSUME NEW x \in Range(t) PROVE x \in Range(s) \ {s[i]}
      <3>1. PICK j \in 1 .. n - 1 : x = t[j]
        BY <1>2 DEF Range
      <3>2. x = s[Old(j)] /\ Old(j) \in 1 .. n /\ Old(j) # i
        BY <1>4, <3>1
      <3>3. x # s[i]
        BY <1>0, <1>3, <3>2
      <3> QED
        BY <1>2, <3>2, <3>3 DEF Range
    <2>2. ASSUME NEW x \in Range(s) \ {s[i]} PROVE x \in Range(t)
      <3>1. PICK j \in 1 .. n : x = s[j]
        BY <1>2 DEF Range
      <3>2. PICK k \in 1 .. n - 1 : Old(k) = j
        BY <1>6, <3>1
      <3>3. x = t[k]
        BY <1>4, <3>1, <3>2
      <3> QED
        BY <1>2, <3>3 DEF Range
    <2> QED
      BY <2>1, <2>2
  <1>8. IsInjective(t)
    <2> SUFFICES ASSUME NEW a \in 1 .. n - 1, NEW b \in 1 .. n - 1, t[a] = t[b] PROVE a = b
      BY <1>2 DEF IsInjective
    <2>1. s[Old(a)] = s[Old(b)]
      BY <1>4
    <2>2. Old(a) = Old(b)
      BY <1>3, <1>4, <2>1
    <2> QED
      BY <1>5, <2>2
  <1> QED
    BY <1>1, <1>7, <1>8 DEF t

\* The place of an element is taken by a new one.
LEMMA Replaced ==
    ASSUME NEW S, NEW s \in Seq(S), NEW i \in 1 .. Len(s), NEW e \in S,
           IsInjective(s), e \notin Range(s)
    PROVE  LET t == ReplaceAt(s, i, e) IN
           t \in Seq(S) /\ Range(t) = (Range(s) \ {s[i]}) \cup {e} /\ IsInjective(t)
  <1> DEFINE n == Len(s)
             t == ReplaceAt(s, i, e)
  <1>1. t = [s EXCEPT ![i] = e] /\ DOMAIN s = 1 .. n
    BY DEF ReplaceAt
  <1>2. DOMAIN t = 1 .. n /\ t[i] = e /\ \A j \in 1 .. n : j # i => t[j] = s[j]
    BY <1>1
  <1>3. t \in Seq(S)
    BY <1>1
  <1> HIDE DEF t
  <1>4. (\A a, b \in 1 .. n : s[a] = s[b] => a = b) /\ \A j \in 1 .. n : s[j] # e
    BY <1>1 DEF IsInjective, Range
  <1>5. IsInjective(t)
    BY <1>2, <1>4 DEF IsInjective
  <1>6. Range(t) = (Range(s) \ {s[i]}) \cup {e}
    <2>1. ASSUME NEW x \in Range(t) PROVE x \in (Range(s) \ {s[i]}) \cup {e}
      <3>1. PICK j \in 1 .. n : x = t[j]
        BY <1>2 DEF Range
      <3> QED
        BY <1>1, <1>2, <1>4, <3>1 DEF Range
    <2>2. ASSUME NEW x \in Range(s) \ {s[i]} PROVE x \in Range(t)
      <3>1. PICK j \in 1 .. n : x = s[j]
        BY <1>1 DEF Range
      <3>2. x = t[j]
        BY <1>2, <3>1
      <3> QED
        BY <1>2, <3>2 DEF Range
    <2>3. e \in Range(t)
      BY <1>2 DEF Range
    <2> QED
      BY <2>1, <2>2, <2>3
  <1> QED
    BY <1>3, <1>5, <1>6 DEF t
-----------------------------------------------------------------------------
(***************************************************************************)
(* The invariant.  First what concerns processes alone: where they are in  *)
(* which call, and which locks they hold there.                            *)
(***************************************************************************)
CloseCall == [type |-> "close"]
Where(t) ==
    CASE t = "close"    -> {"closed", "idle"}
      [] t = "store"    -> {"store", "allocate", "insert", "recover", "link", "idle"}
      [] t = "fetch"    -> {"fetch", "idle"}
      [] t = "exists"   -> {"exists", "idle"}
      [] t = "delete"   -> {"delete", "recover", "idle"}
      [] t = "traverse" -> {"traverse", "visit", "recover", "idle"}
      [] t = "firstkey" -> {"firstkey", "idle"}
      [] t = "nextkey"  -> {"nextkey", "nextchain", "idle"}

\* A store that has a new record, one that took an old record from the
\* chain, and a traversal that works on a chain
Storing(p)   == call[p].type = "store" /\ pc[p] \in {"insert", "recover", "link"}
Replacing(p) == call[p].type = "store" /\ pc[p] \in {"recover", "link"}
Visiting(p)  == call[p].type = "traverse" /\ pc[p] \in {"visit", "recover"}

PCs == {"closed", "idle", "store", "allocate", "insert", "recover", "link", "fetch", "exists",
        "delete", "traverse", "visit", "firstkey", "nextkey", "nextchain"}

Process(p) ==
    /\ call[p] = CloseCall \/ call[p] \in Requests[p]
    /\ pc[p] \in Where(call[p].type)
    /\ Replacing(p) => call[p].flag = "replace" /\ locked[p][Bucket(call[p].key)] > 0
    /\ Visiting(p) => locked[p][chain[p]] > 0

Control ==
    /\ pc \in [Proc -> PCs]
    /\ call \in [Proc -> Request \cup {CloseCall}]
    /\ locked \in [Proc -> [Lists -> Nat]]
    /\ chain \in [Proc -> Buckets]
    /\ \A p \in Proc : Process(p)

Exclusive == \A l \in Lists, p, q \in Proc : locked[p][l] > 0 /\ locked[q][l] > 0 => p = q

(***************************************************************************)
(* The file alone.                                                         *)
(***************************************************************************)
Record == [len : Nat \ {0}, magic : {"used", "free"},
           key : Key \cup {NoValue}, val : Value \cup {NoValue}]
EndIn(d, o) == o + Hdr + d.rec[o].len

Shape(d) ==
    /\ d \in [size : Nat \ {0}, list : [Lists -> Seq(DOMAIN d.rec)], rec : [DOMAIN d.rec -> Record],
              doubtful : SUBSET Key, lost : SUBSET DOMAIN d.rec]
    /\ DOMAIN d.rec \subseteq Nat \ {0}

Tiled(d) ==
    /\ \A o \in DOMAIN d.rec : EndIn(d, o) = d.size \/ EndIn(d, o) \in DOMAIN d.rec
    /\ \A o \in DOMAIN d.rec : EndIn(d, o) <= d.size
    /\ \A o, q \in DOMAIN d.rec : o < q => EndIn(d, o) <= q

\* A record in use holds a key and a value, and has room for them.
InUse(d, o) ==
    /\ d.rec[o].magic = "used" /\ d.rec[o].key \in Key /\ d.rec[o].val \in Value
    /\ KeyLen[d.rec[o].key] + DataLen[d.rec[o].val] <= d.rec[o].len

Sorted(d) ==
    /\ \A o \in DOMAIN d.rec : d.rec[o].magic = "used" => InUse(d, o)
    /\ \A l \in Lists : IsInjective(d.list[l])
    /\ \A l, m \in Lists : l # m => OnList(d, l) \cap OnList(d, m) = {}
    /\ \A b \in Buckets : \A o \in OnList(d, b) : d.rec[o].magic = "used" /\ Bucket(d.rec[o].key) = b
    /\ \A o \in OnList(d, Free) : d.rec[o].magic = "free"
    /\ \A b \in Buckets : \A o, q \in OnList(d, b) :
          d.rec[o].key = d.rec[q].key => o = q \/ d.rec[o].key \in d.doubtful

FileOK(d) == Shape(d) /\ Tiled(d) /\ Sorted(d)

(***************************************************************************)
(* What a process has in its hands, and what it knows of the file.         *)
(***************************************************************************)
Loose(d, o) == o \in DOMAIN d.rec /\ \A l \in Lists : o \notin OnList(d, l)
OnChain(d, k) == \E o \in OnList(d, Bucket(k)) : d.rec[o].key = k

\* A key that is not in doubt is not on its chain.
Vacant(d, k) == OnChain(d, k) => k \in d.doubtful

\* No record of the key is on its chain while a store is about to put one
\* there: it took the old one away under the lock, or inserts the key and
\* nobody else stores it.  Otherwise the key is in doubt.
Awaited(p) ==
    \/ Replacing(p)
    \/ call[p].type = "store" /\ pc[p] \in {"allocate", "insert"} /\ call[p].flag = "insert"

Hands(p) ==
    /\ {rec_ptr[p], old[p]} \subseteq DOMAIN db.rec \cup {0}
    /\ pc[p] = "closed" => rec_ptr[p] = 0 /\ old[p] = 0
    /\ Storing(p) => /\ Loose(db, rec_ptr[p]) /\ db.rec[rec_ptr[p]].magic = "free"
                     /\ db.rec[rec_ptr[p]].len >= Size(call[p])
    /\ pc[p] = "recover" => Loose(db, old[p]) /\ db.rec[old[p]].magic = "used"
    /\ Awaited(p) => Vacant(db, call[p].key)
    /\ Visiting(p) => rec_ptr[p] = 0 \/ rec_ptr[p] \in OnList(db, chain[p])

\* No two processes have the same record in their hands.
Apart == \A p, q \in Proc : p # q =>
    /\ Storing(p) /\ Storing(q) => rec_ptr[p] # rec_ptr[q]
    /\ pc[p] = "recover" /\ pc[q] = "recover" => old[p] # old[q]

\* A key that one process inserts while another stores it is in doubt.
Placing(p) == call[p].type = "store" /\ pc[p] \in {"allocate", "insert", "recover", "link"}
Contends(p, q) == Placing(q) /\ call[q].key = call[p].key /\ "insert" \in {call[p].flag, call[q].flag}
Contests == \A p, q \in Proc : p # q /\ Placing(p) /\ Contends(p, q) => call[p].key \in db.doubtful

Inv ==
    /\ rec_ptr \in [Proc -> Nat] /\ old \in [Proc -> Nat]
    /\ Control /\ Exclusive /\ FileOK(db)
    /\ \A p \in Proc : Hands(p)
    /\ Apart /\ Contests

\* The map of a process ends where a record ends.
Bounded(d, m) == \A o \in DOMAIN d.rec : o < m => EndIn(d, o) <= m
Mapped ==
    /\ map_size \in [Proc -> Nat]
    /\ \A p \in Proc : /\ map_size[p] <= db.size /\ Bounded(db, map_size[p])
                       /\ pc[p] = "closed" => map_size[p] = 0

\* A record on no list is in somebody's hands or was lost by a store, unless
\* somebody died.
Mine(p, o) == (Storing(p) /\ o = rec_ptr[p]) \/ (pc[p] = "recover" /\ o = old[p])
Accounted == crashes = 0 => \A o : Loose(db, o) => o \in db.lost \/ \E p \in Proc : Mine(p, o)

-----------------------------------------------------------------------------
(***************************************************************************)
(* The operations on the file.                                             *)
(***************************************************************************)
LEMMA Hashed ==
    ASSUME NEW k \in Key
    PROVE  Bucket(k) \in Buckets /\ Bucket(k) \in Lists /\ Bucket(k) # Free
  <1>1. Hash[k] \in Nat /\ HashSize \in Nat /\ HashSize > 0
    BY TdbAssumption
  <1>2. Hash[k] % HashSize \in 0 .. HashSize - 1
    BY <1>1
  <1> QED
    BY <1>1, <1>2 DEF Bucket, Buckets, Lists, Free

LEMMA FreeIsAList == Free \in Lists /\ Free \notin Buckets /\ \A b \in Buckets : b \in Lists /\ b # Free
  BY TdbAssumption DEF Free, Lists, Buckets

LEMMA OnListInFile ==
    ASSUME NEW d, FileOK(d), NEW l \in Lists
    PROVE  OnList(d, l) \subseteq DOMAIN d.rec
  BY DEF FileOK, Shape, OnList, Range

\* tdb_find finds the record that is on the chain.
LEMMA Finds ==
    ASSUME NEW d, FileOK(d), NEW k \in Key
    PROVE  /\ Found(d, k) <=> OnChain(d, k)
           /\ Found(d, k) => /\ Find(d, k) \in 1 .. Len(d.list[Bucket(k)])
                             /\ RecordOf(d, k) \in OnList(d, Bucket(k))
                             /\ d.rec[RecordOf(d, k)].key = k
                             /\ d.rec[RecordOf(d, k)].magic = "used"
           /\ \A i \in 1 .. Len(d.list[Bucket(k)]) :
                 d.rec[d.list[Bucket(k)][i]].key = k => Find(d, k) <= i
  <1> DEFINE b == Bucket(k)
             c == d.list[b]
             I == {i \in 1 .. Len(c) : d.rec[c[i]].magic # "used" \/ d.rec[c[i]].key = k}
  <1>1. b \in Buckets /\ b \in Lists
    BY Hashed
  <1>2. c \in Seq(DOMAIN d.rec) /\ Len(c) \in Nat /\ DOMAIN c = 1 .. Len(c) /\ OnList(d, b) = Range(c)
    BY <1>1 DEF FileOK, Shape, OnList
  <1>3. \A i \in 1 .. Len(c) : c[i] \in OnList(d, b) /\ d.rec[c[i]].magic = "used"
    BY <1>1, <1>2 DEF FileOK, Sorted, Range
  <1>4. Find(d, k) = IF I # {} THEN Min(I) ELSE 0
    BY DEF Find, SelectInSeq
  <1>5. I \in SUBSET Nat /\ I \subseteq 1 .. Len(c)
    BY <1>2
  <1>6. (I # {} => Min(I) \in I) /\ \A i \in I : Min(I) <= i
    BY <1>5, LeastIsMin
  <1>7. Found(d, k) <=> I # {}
    <2>1. \A i \in I : i # 0
      BY <1>2
    <2> QED
      BY <1>3, <1>4, <1>5, <1>6, <2>1 DEF Found
  <1>8. I # {} <=> OnChain(d, k)
    <2>1. \A o \in OnList(d, b) : \E i \in 1 .. Len(c) : o = c[i]
      BY <1>2 DEF Range
    <2> QED
      BY <1>3, <2>1 DEF OnChain
  <1>9. I # {} => /\ Find(d, k) \in 1 .. Len(c) /\ RecordOf(d, k) = c[Find(d, k)]
                  /\ d.rec[c[Find(d, k)]].key = k
    BY <1>3, <1>4, <1>6 DEF RecordOf
  <1>10. \A i \in 1 .. Len(c) : d.rec[c[i]].key = k => Find(d, k) <= i
    BY <1>4, <1>6
  <1> QED
    BY <1>3, <1>7, <1>8, <1>9, <1>10

\* A key's record is taken from its chain: the file stays well formed, and the
\* record is on no list.
LEMMA Unlinks ==
    ASSUME NEW d, FileOK(d), NEW k \in Key, OnChain(d, k)
    PROVE  LET e == Unlinked(d, k)
               r == RecordOf(d, k)
           IN /\ FileOK(e) /\ e.size = d.size /\ e.doubtful = d.doubtful /\ e.lost = d.lost /\ e.rec = d.rec
              /\ r \in OnList(d, Bucket(k)) /\ d.rec[r].key = k /\ InUse(d, r)
              /\ OnList(e, Bucket(k)) = OnList(d, Bucket(k)) \ {r}
              /\ e.list[Bucket(k)] = RemoveAt(d.list[Bucket(k)], Find(d, k))
              /\ \A l \in Lists : l # Bucket(k) => e.list[l] = d.list[l]
              /\ Vacant(e, k) /\ Loose(e, r)
  <1> DEFINE b == Bucket(k)
             c == d.list[b]
             i == Find(d, k)
             r == RecordOf(d, k)
             e == Unlinked(d, k)
             t == RemoveAt(c, i)
  <1>1. b \in Buckets /\ b \in Lists
    BY Hashed
  <1>2. /\ i \in 1 .. Len(c) /\ r \in OnList(d, b) /\ d.rec[r].key = k /\ d.rec[r].magic = "used"
        /\ r = c[i]
    BY Finds DEF RecordOf
  <1>3. c \in Seq(DOMAIN d.rec) /\ IsInjective(c) /\ OnList(d, b) = Range(c)
    BY <1>1 DEF FileOK, Shape, Sorted, OnList
  <1>4. t \in Seq(DOMAIN d.rec) /\ Range(t) = Range(c) \ {r} /\ IsInjective(t)
    BY <1>2, <1>3, Removed
  <1>5. d \in [size : Nat \ {0}, list : [Lists -> Seq(DOMAIN d.rec)], rec : [DOMAIN d.rec -> Record],
             doubtful : SUBSET Key, lost : SUBSET DOMAIN d.rec]
    BY DEF FileOK, Shape
  <1>6. e = [d EXCEPT !.list = [d.list EXCEPT ![b] = t]]
    BY <1>5 DEF Unlinked
  <1> HIDE DEF e, t
  <1>7. /\ e.size = d.size /\ e.doubtful = d.doubtful /\ e.lost = d.lost /\ e.rec = d.rec
        /\ e.list = [d.list EXCEPT ![b] = t]
    BY <1>5, <1>6
  <1>8. /\ e.list \in [Lists -> Seq(DOMAIN e.rec)]
        /\ e.list[b] = t /\ \A l \in Lists : l # b => e.list[l] = d.list[l]
    BY <1>1, <1>4, <1>5, <1>7
  <1>9. /\ OnList(e, b) = OnList(d, b) \ {r}
        /\ \A l \in Lists : l # b => OnList(e, l) = OnList(d, l)
    BY <1>3, <1>4, <1>8 DEF OnList
  <1>10. Shape(e)
    BY <1>5, <1>6, <1>7, <1>8 DEF FileOK, Shape
  <1>11. Tiled(e)
    BY <1>7 DEF FileOK, Tiled, EndIn
  <1>12. Sorted(e)
    <2>1. \A l \in Lists : IsInjective(e.list[l])
      BY <1>4, <1>8 DEF FileOK, Sorted
    <2>2. \A l, m \in Lists : l # m => OnList(e, l) \cap OnList(e, m) = {}
      BY <1>9 DEF FileOK, Sorted
    <2>3. \A l \in Lists : OnList(e, l) \subseteq OnList(d, l)
      BY <1>9
    <2> QED
      BY <1>7, <2>1, <2>2, <2>3, FreeIsAList DEF FileOK, Sorted, InUse
  <1>13. Vacant(e, k)
    BY <1>1, <1>2, <1>7, <1>9 DEF FileOK, Sorted, OnChain, Vacant
  <1>14. r \in DOMAIN d.rec /\ InUse(d, r)
    <2>1. Range(c) \subseteq DOMAIN d.rec
      BY <1>3 DEF Range
    <2> QED
      BY <1>2, <1>3, <2>1 DEF FileOK, Sorted
  <1>15. Loose(e, r)
    BY <1>1, <1>2, <1>7, <1>9, <1>14 DEF FileOK, Sorted, Loose
  <1> QED
    BY <1>2, <1>7, <1>8, <1>9, <1>10, <1>11, <1>12, <1>13, <1>14, <1>15 DEF FileOK, e, t

\* A loose record that was in use is put on the free list.
LEMMA Frees ==
    ASSUME NEW d, FileOK(d), NEW r, Loose(d, r)
    PROVE  LET e == Freed(d, r)
           IN /\ FileOK(e) /\ e.size = d.size /\ e.doubtful = d.doubtful /\ e.lost = d.lost /\ DOMAIN e.rec = DOMAIN d.rec
              /\ \A o \in DOMAIN d.rec : o # r => e.rec[o] = d.rec[o]
              /\ e.rec[r].magic = "free" /\ e.rec[r].len = d.rec[r].len
              /\ OnList(e, Free) = OnList(d, Free) \cup {r}
              /\ \A l \in Lists : l # Free => e.list[l] = d.list[l]
  <1> DEFINE c == d.list[Free]
             e == Freed(d, r)
             t == <<r>> \o c
             x == [d.rec[r] EXCEPT !.magic = "free"]
  <1>1. r \in DOMAIN d.rec /\ r \notin OnList(d, Free)
    BY FreeIsAList DEF Loose
  <1>2. c \in Seq(DOMAIN d.rec) /\ IsInjective(c) /\ OnList(d, Free) = Range(c)
    BY FreeIsAList DEF FileOK, Shape, Sorted, OnList
  <1>3. t \in Seq(DOMAIN d.rec) /\ Range(t) = Range(c) \cup {r} /\ IsInjective(t)
    <2> DEFINE S == DOMAIN d.rec
    <2> HIDE DEF c, S
    <2>1. r \in S /\ r \notin Range(c) /\ c \in Seq(S) /\ IsInjective(c)
      BY <1>1, <1>2 DEF S
    <2>2. t \in Seq(S) /\ Range(t) = Range(c) \cup {r} /\ IsInjective(t)
      BY <2>1, Pushed
    <2> QED
      BY <2>2 DEF S
  <1>4. d \in [size : Nat \ {0}, list : [Lists -> Seq(DOMAIN d.rec)], rec : [DOMAIN d.rec -> Record],
             doubtful : SUBSET Key, lost : SUBSET DOMAIN d.rec]
    BY DEF FileOK, Shape
  <1>5. e = [d EXCEPT !.rec = [d.rec EXCEPT ![r] = x], !.list = [d.list EXCEPT ![Free] = t]]
    BY <1>4 DEF Freed
  <1>6. x \in Record /\ x.magic = "free" /\ x.len = d.rec[r].len
    <2> DEFINE y == d.rec[r]
    <2>1. y \in Record /\ x = [y EXCEPT !.magic = "free"]
      BY <1>1, <1>4
    <2> HIDE DEF y, x
    <2>2. x \in Record /\ x.magic = "free" /\ x.len = y.len
      BY ONLY <2>1 DEF Record
    <2> QED
      BY <2>2 DEF y
  <1> HIDE DEF e, t, x
  <1>7. /\ e.size = d.size /\ e.doubtful = d.doubtful /\ e.lost = d.lost /\ e.rec = [d.rec EXCEPT ![r] = x]
        /\ e.list = [d.list EXCEPT ![Free] = t]
    BY <1>4, <1>5
  <1>8. /\ DOMAIN e.rec = DOMAIN d.rec /\ e.rec[r] = x
        /\ \A o \in DOMAIN d.rec : o # r => e.rec[o] = d.rec[o]
        /\ e.rec \in [DOMAIN e.rec -> Record]
    BY <1>1, <1>4, <1>6, <1>7
  <1>9. /\ e.list \in [Lists -> Seq(DOMAIN e.rec)]
        /\ e.list[Free] = t /\ \A l \in Lists : l # Free => e.list[l] = d.list[l]
    BY <1>3, <1>4, <1>7, <1>8, FreeIsAList
  <1>10. /\ OnList(e, Free) = OnList(d, Free) \cup {r}
         /\ \A l \in Lists : l # Free => OnList(e, l) = OnList(d, l)
    BY <1>2, <1>3, <1>9 DEF OnList
  <1>11. Shape(e)
    BY <1>4, <1>5, <1>7, <1>8, <1>9 DEF FileOK, Shape
  <1>12. Tiled(e)
    BY <1>6, <1>7, <1>8 DEF FileOK, Tiled, EndIn
  <1>13. Sorted(e)
    <2>1. \A l \in Lists : IsInjective(e.list[l])
      BY <1>3, <1>9 DEF FileOK, Sorted
    <2>2. \A l, m \in Lists : l # m => OnList(e, l) \cap OnList(e, m) = {}
      BY <1>10 DEF FileOK, Sorted, Loose
    <2>3. \A b \in Buckets : OnList(e, b) = OnList(d, b) /\ r \notin OnList(d, b)
      BY <1>10, FreeIsAList DEF Loose
    <2>4. \A l \in Lists : OnList(d, l) \subseteq DOMAIN d.rec
      BY <1>4 DEF OnList, Range
    <2>5. \A o \in OnList(e, Free) : e.rec[o].magic = "free"
      BY <1>6, <1>8, <1>10, <2>4, FreeIsAList DEF FileOK, Sorted
    <2>6. \A b \in Buckets : \A o \in OnList(e, b) : o \in OnList(d, b) /\ e.rec[o] = d.rec[o]
      BY <1>8, <2>3, <2>4, FreeIsAList
    <2>7. \A o \in DOMAIN e.rec : e.rec[o].magic = "used" => InUse(e, o)
      BY <1>6, <1>8 DEF FileOK, Sorted, InUse
    <2> QED
      BY <1>7, <2>1, <2>2, <2>5, <2>6, <2>7 DEF FileOK, Sorted
  <1> QED
    BY <1>6, <1>7, <1>8, <1>9, <1>10, <1>11, <1>12, <1>13 DEF FileOK, e

\* A loose record becomes the record of a key that is not on its chain, or in
\* doubt.
LEMMA Links ==
    ASSUME NEW d, FileOK(d), NEW r, Loose(d, r), NEW k \in Key, NEW v \in Value, Vacant(d, k),
           KeyLen[k] + DataLen[v] <= d.rec[r].len
    PROVE  LET e == Linked(d, r, k, v)
           IN /\ FileOK(e) /\ e.size = d.size /\ e.doubtful = d.doubtful /\ e.lost = d.lost /\ DOMAIN e.rec = DOMAIN d.rec
              /\ \A o \in DOMAIN d.rec : o # r => e.rec[o] = d.rec[o]
              /\ e.rec[r].len = d.rec[r].len /\ e.rec[r].magic = "used"
              /\ e.rec[r].key = k /\ e.rec[r].val = v
              /\ OnList(e, Bucket(k)) = OnList(d, Bucket(k)) \cup {r}
              /\ \A l \in Lists : l # Bucket(k) => e.list[l] = d.list[l]
  <1> DEFINE b == Bucket(k)
             c == d.list[b]
             e == Linked(d, r, k, v)
             t == <<r>> \o c
             x == [d.rec[r] EXCEPT !.magic = "used", !.key = k, !.val = v]
  <1>0. b \in Buckets /\ b \in Lists /\ b # Free
    BY Hashed
  <1>1. r \in DOMAIN d.rec /\ r \notin OnList(d, b)
    BY <1>0 DEF Loose
  <1>2. c \in Seq(DOMAIN d.rec) /\ IsInjective(c) /\ OnList(d, b) = Range(c)
    BY <1>0 DEF FileOK, Shape, Sorted, OnList
  <1>3. t \in Seq(DOMAIN d.rec) /\ Range(t) = Range(c) \cup {r} /\ IsInjective(t)
    <2> DEFINE S == DOMAIN d.rec
    <2> HIDE DEF c, S, b
    <2>1. r \in S /\ r \notin Range(c) /\ c \in Seq(S) /\ IsInjective(c)
      BY <1>1, <1>2 DEF S
    <2>2. t \in Seq(S) /\ Range(t) = Range(c) \cup {r} /\ IsInjective(t)
      BY <2>1, Pushed
    <2> QED
      BY <2>2 DEF S
  <1>4. d \in [size : Nat \ {0}, list : [Lists -> Seq(DOMAIN d.rec)], rec : [DOMAIN d.rec -> Record],
             doubtful : SUBSET Key, lost : SUBSET DOMAIN d.rec]
    BY DEF FileOK, Shape
  <1>5. e = [d EXCEPT !.rec = [d.rec EXCEPT ![r] = x], !.list = [d.list EXCEPT ![b] = t]]
    BY <1>4 DEF Linked
  <1>6. /\ x \in Record /\ x.magic = "used" /\ x.key = k /\ x.val = v /\ x.len = d.rec[r].len
    <2> DEFINE y == d.rec[r]
    <2>1. y \in Record
      BY <1>1, <1>4
    <2> HIDE DEF y
    <2>2. /\ [y EXCEPT !.magic = "used", !.key = k, !.val = v] \in Record
          /\ x = [y EXCEPT !.magic = "used", !.key = k, !.val = v]
      BY <2>1 DEF Record, y
    <2>3. x.magic = "used" /\ x.key = k /\ x.val = v /\ x.len = y.len
      BY <2>1, <2>2 DEF Record
    <2> QED
      BY <2>2, <2>3 DEF y
  <1> HIDE DEF e, t, x
  <1>7. /\ e.size = d.size /\ e.doubtful = d.doubtful /\ e.lost = d.lost /\ e.rec = [d.rec EXCEPT ![r] = x]
        /\ e.list = [d.list EXCEPT ![b] = t]
    BY <1>4, <1>5
  <1>8. /\ DOMAIN e.rec = DOMAIN d.rec /\ e.rec[r] = x
        /\ \A o \in DOMAIN d.rec : o # r => e.rec[o] = d.rec[o]
        /\ e.rec \in [DOMAIN e.rec -> Record]
    BY <1>1, <1>4, <1>6, <1>7
  <1>9. /\ e.list \in [Lists -> Seq(DOMAIN e.rec)]
        /\ e.list[b] = t /\ \A l \in Lists : l # b => e.list[l] = d.list[l]
    BY <1>0, <1>3, <1>4, <1>7, <1>8
  <1>10. /\ OnList(e, b) = OnList(d, b) \cup {r}
         /\ \A l \in Lists : l # b => OnList(e, l) = OnList(d, l)
    BY <1>2, <1>3, <1>9 DEF OnList
  <1>11. Shape(e)
    BY <1>4, <1>5, <1>7, <1>8, <1>9 DEF FileOK, Shape
  <1>12. Tiled(e)
    BY <1>6, <1>7, <1>8 DEF FileOK, Tiled, EndIn
  <1>13. Sorted(e)
    <2>1. \A l \in Lists : IsInjective(e.list[l])
      BY <1>3, <1>9 DEF FileOK, Sorted
    <2>2. \A l, m \in Lists : l # m => OnList(e, l) \cap OnList(e, m) = {}
      BY <1>10 DEF FileOK, Sorted, Loose
    <2>3. \A l \in Lists : OnList(d, l) \subseteq DOMAIN d.rec /\ r \notin OnList(d, l)
      BY <1>4 DEF OnList, Range, Loose
    <2>4. \A o \in OnList(e, Free) : e.rec[o].magic = "free"
      BY <1>0, <1>8, <1>10, <2>3, FreeIsAList DEF FileOK, Sorted
    <2>5. \A a \in Buckets : \A o \in OnList(e, a) :
             (o \in OnList(d, a) /\ o # r /\ e.rec[o] = d.rec[o]) \/ (a = b /\ o = r)
      BY <1>8, <1>10, <2>3, FreeIsAList
    <2>6. \A a \in Buckets : \A o \in OnList(e, a) : e.rec[o].magic = "used" /\ Bucket(e.rec[o].key) = a
      BY <1>6, <1>8, <2>5 DEF FileOK, Sorted
    <2>7. \A o \in DOMAIN e.rec : e.rec[o].magic = "used" => InUse(e, o)
      BY <1>6, <1>8 DEF FileOK, Sorted, InUse
    <2>8. k \in d.doubtful \/ \A o \in OnList(d, b) : d.rec[o].key # k
      BY DEF OnChain, Vacant
    <2>9. ASSUME NEW a \in Buckets, NEW o \in OnList(e, a), NEW q \in OnList(e, a),
                 e.rec[o].key = e.rec[q].key
          PROVE  o = q \/ e.rec[o].key \in e.doubtful
      BY <1>6, <1>7, <1>8, <2>5, <2>8, <2>9 DEF FileOK, Sorted
    <2> QED
      BY <2>1, <2>2, <2>4, <2>6, <2>7, <2>9 DEF Sorted
  <1> QED
    BY <1>6, <1>7, <1>8, <1>9, <1>10, <1>11, <1>12, <1>13 DEF FileOK, e

\* tdb_update changes the value of a record on a chain.
LEMMA Updates ==
    ASSUME NEW d, FileOK(d), NEW k \in Key, OnChain(d, k), NEW v \in Value,
           KeyLen[k] + DataLen[v] <= d.rec[RecordOf(d, k)].len
    PROVE  LET r == RecordOf(d, k)
               e == [d EXCEPT !.rec[r].val = v]
           IN /\ FileOK(e) /\ e.size = d.size /\ e.doubtful = d.doubtful /\ e.lost = d.lost /\ e.list = d.list /\ DOMAIN e.rec = DOMAIN d.rec
              /\ r \in OnList(d, Bucket(k))
              /\ \A o \in DOMAIN d.rec : o # r => e.rec[o] = d.rec[o]
              /\ e.rec[r].len = d.rec[r].len /\ e.rec[r].magic = "used"
              /\ e.rec[r].key = k /\ e.rec[r].val = v
              /\ d.rec[r].key = k
  <1> DEFINE b == Bucket(k)
             r == RecordOf(d, k)
             x == [d.rec[r] EXCEPT !.val = v]
             e == [d EXCEPT !.rec[r].val = v]
  <1>0. b \in Buckets /\ b \in Lists /\ b # Free
    BY Hashed
  <1>1. r \in OnList(d, b) /\ d.rec[r].key = k /\ d.rec[r].magic = "used"
    BY Finds
  <1>2. d \in [size : Nat \ {0}, list : [Lists -> Seq(DOMAIN d.rec)], rec : [DOMAIN d.rec -> Record],
             doubtful : SUBSET Key, lost : SUBSET DOMAIN d.rec]
    BY DEF FileOK, Shape
  <1>3. \A l \in Lists : OnList(d, l) \subseteq DOMAIN d.rec
    BY <1>2 DEF OnList, Range
  <1> HIDE DEF r
  <1>4. r \in DOMAIN d.rec
    BY <1>0, <1>1, <1>3
  <1>5. e = [d EXCEPT !.rec = [d.rec EXCEPT ![r] = x]]
    BY <1>2
  <1>6. x \in Record /\ x.magic = "used" /\ x.key = k /\ x.val = v /\ x.len = d.rec[r].len
    BY <1>1, <1>2, <1>4 DEF Record
  <1> HIDE DEF e, x
  <1>7. e.size = d.size /\ e.doubtful = d.doubtful /\ e.lost = d.lost /\ e.rec = [d.rec EXCEPT ![r] = x] /\ e.list = d.list
    BY <1>2, <1>5
  <1>8. /\ DOMAIN e.rec = DOMAIN d.rec /\ e.rec[r] = x
        /\ \A o \in DOMAIN d.rec : o # r => e.rec[o] = d.rec[o]
        /\ e.rec \in [DOMAIN e.rec -> Record]
    BY <1>2, <1>4, <1>6, <1>7
  <1>9. \A l \in Lists : OnList(e, l) = OnList(d, l)
    BY <1>7 DEF OnList
  <1>10. Shape(e)
    BY <1>2, <1>5, <1>7, <1>8 DEF FileOK, Shape
  <1>11. Tiled(e)
    BY <1>6, <1>7, <1>8 DEF FileOK, Tiled, EndIn
  <1>12. Sorted(e)
    <2>1. \A o \in DOMAIN d.rec : e.rec[o].magic = d.rec[o].magic /\ e.rec[o].key = d.rec[o].key
      BY <1>1, <1>6, <1>8
    <2>2. \A o \in DOMAIN e.rec : e.rec[o].magic = "used" => InUse(e, o)
      BY <1>6, <1>8 DEF FileOK, Sorted, InUse, r
    <2> QED
      BY <1>3, <1>7, <1>9, <2>1, <2>2, FreeIsAList DEF FileOK, Sorted
  <1> QED
    BY <1>1, <1>6, <1>7, <1>8, <1>10, <1>11, <1>12 DEF FileOK, e, r

\* Rounding up to the next multiple
LEMMA RoundsUp ==
    ASSUME NEW n \in Nat, NEW a \in Nat \ {0}
    PROVE  LET m == ((n + a) \div a) * a IN m \in Nat /\ n < m /\ m <= n + a
  <1> DEFINE q == (n + a) \div a
             z == (n + a) % a
  <1>1. q \in Int /\ z \in 0 .. a - 1 /\ n + a = a * q + z
    OBVIOUS
  <1> HIDE DEF q, z
  <1>2. a * q = q * a /\ a * q \in Int
    BY <1>1
  <1> DEFINE m == a * q
  <1>3. m \in Int /\ n + a = m + z
    BY <1>1, <1>2
  <1> HIDE DEF m
  <1>4. m \in Nat /\ n < m /\ m <= n + a
    BY <1>1, <1>3
  <1> QED
    BY <1>2, <1>4 DEF m, q

LEMMA Times ==
    ASSUME NEW n \in Nat, NEW a \in Nat \ {0}
    PROVE  n * a \in Nat /\ n <= n * a
  <1>1. PICK c \in Nat : a = c + 1
    <2>1. a - 1 \in Nat /\ a = (a - 1) + 1
      OBVIOUS
    <2> QED
      BY <2>1
  <1>2. n * a = n * c + n /\ n * c \in Nat
    BY <1>1
  <1> DEFINE m == n * c
  <1>3. m \in Nat /\ n * a = m + n
    BY <1>2
  <1> HIDE DEF m
  <1> QED
    BY <1>3

\* The free list has a record that is long enough where FirstFit finds one.
LEMMA Fits ==
    ASSUME NEW d, FileOK(d), NEW n \in Nat, FirstFit(d, n) # 0
    PROVE  /\ FirstFit(d, n) \in 1 .. Len(d.list[Free])
           /\ d.list[Free][FirstFit(d, n)] \in OnList(d, Free)
           /\ d.rec[d.list[Free][FirstFit(d, n)]].len >= n
  <1> DEFINE c == d.list[Free]
             I == {i \in 1 .. Len(c) : d.rec[c[i]].len >= n}
  <1>1. c \in Seq(DOMAIN d.rec) /\ Len(c) \in Nat /\ DOMAIN c = 1 .. Len(c) /\ OnList(d, Free) = Range(c)
    BY FreeIsAList DEF FileOK, Shape, OnList
  <1>2. FirstFit(d, n) = IF I # {} THEN Min(I) ELSE 0
    BY DEF FirstFit, SelectInSeq
  <1>3. I \in SUBSET Nat
    BY <1>1
  <1>4. FirstFit(d, n) \in I
    BY <1>2, <1>3, LeastIsMin
  <1> QED
    BY <1>1, <1>4 DEF Range

\* What tdb_allocate may do to the file: a record leaves the free list, and
\* the end of its space may become a free record.
Allocation(d, e, r, n) ==
    /\ FileOK(e) /\ e.size = d.size /\ e.doubtful = d.doubtful /\ e.lost = d.lost
    /\ r \in OnList(d, Free) /\ Loose(e, r) /\ e.rec[r].magic = "free" /\ e.rec[r].len >= n
    /\ DOMAIN d.rec \subseteq DOMAIN e.rec
    /\ DOMAIN e.rec \subseteq DOMAIN d.rec \cup OnList(e, Free)
    /\ \A o \in DOMAIN d.rec : o # r => e.rec[o] = d.rec[o]
    /\ \A l \in Lists : l # Free => e.list[l] = d.list[l]
    /\ OnList(d, Free) \ {r} \subseteq OnList(e, Free)
    /\ OnList(e, Free) \cap DOMAIN d.rec \subseteq OnList(d, Free) \ {r}
    /\ \A m \in Nat : (\A o \in DOMAIN d.rec : o < m => EndIn(d, o) <= m)
                      => \A o \in DOMAIN e.rec : o < m => EndIn(e, o) <= m

\* The record is taken as it is.
LEMMA TakesAll ==
    ASSUME NEW d, FileOK(d), NEW n \in Nat, NEW i \in 1 .. Len(d.list[Free]),
           d.rec[d.list[Free][i]].len >= n
    PROVE  LET r == d.list[Free][i]
               e == [d EXCEPT !.list[Free] = RemoveAt(@, i)]
           IN Allocation(d, e, r, n)
  <1> DEFINE c == d.list[Free]
             r == c[i]
             e == [d EXCEPT !.list[Free] = RemoveAt(@, i)]
             t == RemoveAt(c, i)
  <1>1. c \in Seq(DOMAIN d.rec) /\ IsInjective(c) /\ OnList(d, Free) = Range(c)
    BY FreeIsAList DEF FileOK, Shape, Sorted, OnList
  <1>2. t \in Seq(DOMAIN d.rec) /\ Range(t) = Range(c) \ {r} /\ IsInjective(t)
    BY <1>1, Removed
  <1>3. d \in [size : Nat \ {0}, list : [Lists -> Seq(DOMAIN d.rec)], rec : [DOMAIN d.rec -> Record],
             doubtful : SUBSET Key, lost : SUBSET DOMAIN d.rec]
    BY DEF FileOK, Shape
  <1>4. e = [d EXCEPT !.list = [d.list EXCEPT ![Free] = t]]
    BY <1>3
  <1>5. r \in OnList(d, Free) /\ r \in DOMAIN d.rec
    BY <1>1 DEF Range
  <1> HIDE DEF e, t
  <1>6. e.size = d.size /\ e.doubtful = d.doubtful /\ e.lost = d.lost /\ e.rec = d.rec /\ e.list = [d.list EXCEPT ![Free] = t]
    BY <1>3, <1>4
  <1>7. /\ e.list \in [Lists -> Seq(DOMAIN e.rec)]
        /\ e.list[Free] = t /\ \A l \in Lists : l # Free => e.list[l] = d.list[l]
    BY <1>2, <1>3, <1>6, FreeIsAList
  <1>8. /\ OnList(e, Free) = OnList(d, Free) \ {r}
        /\ \A l \in Lists : l # Free => OnList(e, l) = OnList(d, l)
    BY <1>1, <1>2, <1>7 DEF OnList
  <1>9. Shape(e)
    BY <1>3, <1>4, <1>6, <1>7 DEF FileOK, Shape
  <1>10. Tiled(e)
    BY <1>6 DEF FileOK, Tiled, EndIn
  <1>11. Sorted(e)
    <2>1. \A l \in Lists : IsInjective(e.list[l])
      BY <1>2, <1>7 DEF FileOK, Sorted
    <2>2. \A l, m \in Lists : l # m => OnList(e, l) \cap OnList(e, m) = {}
      BY <1>8 DEF FileOK, Sorted
    <2>3. \A l \in Lists : OnList(e, l) \subseteq OnList(d, l)
      BY <1>8
    <2> QED
      BY <1>6, <2>1, <2>2, <2>3, FreeIsAList DEF FileOK, Sorted, InUse
  <1>12. Loose(e, r) /\ e.rec[r].magic = "free"
    BY <1>5, <1>6, <1>8, FreeIsAList DEF FileOK, Sorted, Loose
  <1>13. \A m \in Nat : (\A o \in DOMAIN d.rec : o < m => EndIn(d, o) <= m)
                        => \A o \in DOMAIN e.rec : o < m => EndIn(e, o) <= m
    BY <1>6 DEF EndIn
  <1> QED
    BY <1>5, <1>6, <1>7, <1>8, <1>9, <1>10, <1>11, <1>12, <1>13 DEF FileOK, Allocation, e

\* The record is split: m bytes remain, and the space behind them is a free
\* record in its place.
LEMMA Splits ==
    ASSUME NEW d, FileOK(d), NEW n \in Nat, NEW i \in 1 .. Len(d.list[Free]), NEW m \in Nat,
           n < m, m + Hdr < d.rec[d.list[Free][i]].len
    PROVE  LET r == d.list[Free][i]
               rest == r + Hdr + m
               e == [d EXCEPT !.list[Free] = ReplaceAt(@, i, rest),
                              !.rec = [o \in DOMAIN d.rec \cup {rest} |->
                                CASE o = rest -> [d.rec[r] EXCEPT !.len = @ - (Hdr + m)]
                                  [] o = r -> [d.rec[r] EXCEPT !.len = m]
                                  [] OTHER -> d.rec[o]]]
           IN Allocation(d, e, r, n)
  <1> DEFINE c == d.list[Free]
             r == c[i]
             rest == r + Hdr + m
             y == d.rec[r]
             D == DOMAIN d.rec
             x == [y EXCEPT !.len = y.len - (Hdr + m)]
             w == [y EXCEPT !.len = m]
             R == [o \in D \cup {rest} |-> CASE o = rest -> x [] o = r -> w [] OTHER -> d.rec[o]]
             t == ReplaceAt(c, i, rest)
             e == [d EXCEPT !.list[Free] = ReplaceAt(@, i, rest),
                            !.rec = [o \in DOMAIN d.rec \cup {rest} |->
                              CASE o = rest -> [d.rec[r] EXCEPT !.len = @ - (Hdr + m)]
                                [] o = r -> [d.rec[r] EXCEPT !.len = m]
                                [] OTHER -> d.rec[o]]]
  <1>1. c \in Seq(D) /\ IsInjective(c) /\ OnList(d, Free) = Range(c)
    BY FreeIsAList DEF FileOK, Shape, Sorted, OnList
  <1>2. d \in [size : Nat \ {0}, list : [Lists -> Seq(DOMAIN d.rec)], rec : [DOMAIN d.rec -> Record],
             doubtful : SUBSET Key, lost : SUBSET DOMAIN d.rec]
    BY DEF FileOK, Shape
  <1>3. r \in OnList(d, Free) /\ r \in D /\ r \in Nat \ {0} /\ Hdr \in Nat \ {0} /\ y \in Record /\ y.magic = "free"
    <2>1. r \in OnList(d, Free)
      BY <1>1 DEF Range
    <2>2. r \in D
      BY <2>1, FreeIsAList, OnListInFile
    <2>3. y \in Record
      BY <1>2, <2>2
    <2>4. r \in Nat \ {0} /\ Hdr \in Nat \ {0}
      BY <2>2, TdbAssumption DEF FileOK, Shape
    <2>5. y.magic = "free"
      BY <2>1 DEF FileOK, Sorted
    <2> QED
      BY <2>1, <2>2, <2>3, <2>4, <2>5
  <1>4. y.len \in Nat /\ x \in Record /\ x.len = y.len - (Hdr + m) /\ x.magic = "free"
        /\ w \in Record /\ w.len = m /\ w.magic = "free"
    <2> HIDE DEF y
    <2>1. y.len \in Nat /\ y.len - (Hdr + m) \in Nat \ {0} /\ m \in Nat \ {0}
      <3>1. y.len \in Nat /\ m + Hdr < y.len
        BY <1>3 DEF Record, y
      <3> QED
        BY <1>3, <3>1
    <2> DEFINE a == y.len - (Hdr + m)
    <2>2. a \in Nat \ {0} /\ x = [y EXCEPT !.len = a]
      BY <2>1
    <2> HIDE DEF a
    <2>3. x \in Record /\ x.len = a /\ x.magic = "free"
      BY <1>3, <2>2 DEF Record
    <2>4. w \in Record /\ w.len = m /\ w.magic = "free"
      BY <1>3, <2>1 DEF Record
    <2> QED
      BY <2>1, <2>3, <2>4 DEF a
  <1>5. rest \in Nat \ {0} /\ r < rest /\ rest < EndIn(d, r)
    <2> HIDE DEF r
    <2>1. EndIn(d, r) = r + Hdr + y.len /\ m + Hdr < y.len
      BY DEF EndIn, y, r
    <2>2. /\ r \in Nat \ {0} /\ Hdr \in Nat \ {0} /\ y.len \in Nat /\ m \in Nat
          /\ rest = r + Hdr + m
      BY <1>3, <1>4
    <2> DEFINE len == y.len
               end == EndIn(d, r)
    <2> HIDE DEF y, rest, len, end
    <2>3. end = r + Hdr + len /\ m + Hdr < len /\ len \in Nat
      BY <2>1, <2>2 DEF len, end
    <2>4. rest \in Nat \ {0} /\ r < rest /\ rest < end
      BY ONLY <2>2, <2>3
    <2> QED
      BY <2>4 DEF end
  <1>6. rest \notin D
    <2> HIDE DEF rest
    <2>1. \A q \in D : r < q => EndIn(d, r) <= q
      BY <1>3 DEF FileOK, Tiled
    <2>2. EndIn(d, r) \in Int
      <3>1. EndIn(d, r) = r + Hdr + y.len
        BY DEF EndIn, y
      <3> HIDE DEF y, r
      <3> QED
        BY <1>3, <1>4, <3>1
    <2>3. D \subseteq Nat
      BY DEF FileOK, Shape
    <2>4. r \in Nat /\ rest \in Nat /\ r < rest /\ rest < EndIn(d, r)
      BY <1>3, <1>5
    <2> HIDE DEF r, D
    <2> QED
      BY ONLY <2>1, <2>2, <2>3, <2>4
  <1>7. t \in Seq(D \cup {rest}) /\ Range(t) = (Range(c) \ {r}) \cup {rest} /\ IsInjective(t)
    <2> DEFINE S == D \cup {rest}
    <2>1. c \in Seq(S) /\ rest \in S /\ rest \notin Range(c)
      BY <1>1, <1>6 DEF Range
    <2> HIDE DEF S, c, rest
    <2>2. t \in Seq(S) /\ Range(t) = (Range(c) \ {c[i]}) \cup {rest} /\ IsInjective(t)
      <3>1. i \in 1 .. Len(c)
        BY DEF c
      <3> QED
        BY <1>1, <2>1, <3>1, Replaced
    <2> QED
      BY <2>2 DEF S
  <1>8. e = [d EXCEPT !.list = [d.list EXCEPT ![Free] = t], !.rec = R]
    BY <1>2
  <1> HIDE DEF e, t, R, x, w, y, rest, r
  <1>9. e.size = d.size /\ e.doubtful = d.doubtful /\ e.lost = d.lost /\ e.rec = R /\ e.list = [d.list EXCEPT ![Free] = t]
    BY <1>2, <1>8
  <1>10. /\ DOMAIN e.rec = D \cup {rest} /\ e.rec[rest] = x /\ e.rec[r] = w
         /\ \A o \in D : o # r => e.rec[o] = d.rec[o]
         /\ r # rest
    BY <1>3, <1>6, <1>9 DEF R
  <1>11. e.rec \in [D \cup {rest} -> Record]
    <2>1. \A o \in D \cup {rest} : R[o] \in Record
      BY <1>2, <1>4 DEF R
    <2> QED
      BY <1>9, <2>1 DEF R
  <1>12. /\ e.list \in [Lists -> Seq(DOMAIN e.rec)]
         /\ e.list[Free] = t /\ \A l \in Lists : l # Free => e.list[l] = d.list[l]
    <2>1. \A l \in Lists : d.list[l] \in Seq(D \cup {rest})
      <3>1. \A l \in Lists : d.list[l] \in Seq(D)
        BY <1>2
      <3> QED
        BY <3>1
    <2> QED
      BY <1>2, <1>7, <1>9, <1>10, <2>1, FreeIsAList
  <1>13. /\ OnList(e, Free) = (OnList(d, Free) \ {r}) \cup {rest}
         /\ \A l \in Lists : l # Free => OnList(e, l) = OnList(d, l)
         /\ \A l \in Lists : OnList(d, l) \subseteq D
    <2>1. \A l \in Lists : OnList(d, l) \subseteq D
      BY <1>2 DEF OnList, Range
    <2> QED
      BY <1>1, <1>7, <1>12, <2>1 DEF OnList
  <1>14. Shape(e)
    <2>1. DOMAIN e.rec \subseteq Nat \ {0}
      BY <1>5, <1>10 DEF FileOK, Shape
    <2>2. e.rec \in [DOMAIN e.rec -> Record]
      BY <1>10, <1>11
    <2>3. e.size \in Nat \ {0}
      BY <1>2, <1>9
    <2>4. e = [size |-> e.size, list |-> e.list, rec |-> e.rec, doubtful |-> e.doubtful, lost |-> e.lost]
      BY <1>2, <1>8
    <2>5. e.doubtful \in SUBSET Key /\ e.lost \in SUBSET DOMAIN e.rec
      BY <1>2, <1>9, <1>10
    <2> QED
      BY <1>12, <2>1, <2>2, <2>3, <2>4, <2>5 DEF Shape
  <1>15. /\ \A o \in D : o # r => EndIn(e, o) = EndIn(d, o)
         /\ EndIn(e, r) = rest /\ EndIn(e, rest) = EndIn(d, r)
         /\ EndIn(d, r) \in Nat
    <2>1. EndIn(d, r) = r + Hdr + y.len
      BY DEF EndIn, y
    <2>2. EndIn(e, r) = r + Hdr + m
      BY <1>4, <1>10 DEF EndIn
    <2>3. EndIn(e, rest) = rest + Hdr + (y.len - (Hdr + m))
      BY <1>4, <1>10 DEF EndIn
    <2>4. \A o \in D : o # r => EndIn(e, o) = EndIn(d, o)
      BY <1>10 DEF EndIn
    <2> QED
      BY <1>3, <1>4, <2>1, <2>2, <2>3, <2>4 DEF rest
  <1>16. \A o \in D : EndIn(d, o) \in Nat /\ o \in Nat
    <2> SUFFICES ASSUME NEW o \in D PROVE EndIn(d, o) \in Nat /\ o \in Nat
      OBVIOUS
    <2>1. o \in Nat /\ d.rec[o].len \in Nat
      BY <1>2 DEF FileOK, Shape, Record
    <2> QED
      BY <1>3, <2>1 DEF EndIn
  <1>17. Tiled(e)
    <2>1. \A o \in D : (EndIn(d, o) = d.size \/ EndIn(d, o) \in D) /\ EndIn(d, o) <= d.size
      BY DEF FileOK, Tiled
    <2>2. \A o, q \in D : o < q => EndIn(d, o) <= q
      BY DEF FileOK, Tiled
    <2>3. \A o \in D \cup {rest} : EndIn(e, o) = e.size \/ EndIn(e, o) \in D \cup {rest}
      BY <1>3, <1>9, <1>15, <2>1
    <2>4. \A o \in D \cup {rest} : EndIn(e, o) <= e.size
      <3>1. d.size \in Nat /\ EndIn(d, r) <= d.size /\ \A o \in D : EndIn(d, o) <= d.size
        BY <1>2, <1>3, <2>1
      <3>2. rest <= d.size
        BY <1>5, <1>15, <3>1
      <3> QED
        BY <1>9, <1>15, <3>1, <3>2
    <2>5. ASSUME NEW o \in D \cup {rest}, NEW q \in D \cup {rest}, o < q PROVE EndIn(e, o) <= q
      <3>1. CASE o = rest
        <4>1. q \in D /\ r < q
          BY <1>3, <1>5, <1>16, <2>5, <3>1
        <4> QED
          BY <1>3, <1>15, <2>2, <3>1, <4>1
      <3>2. CASE o \in D /\ o = r
        <4>1. CASE q = rest
          BY <1>5, <1>15, <3>2, <4>1
        <4>2. CASE q \in D
          BY <1>3, <1>5, <1>15, <1>16, <2>2, <2>5, <3>2, <4>2
        <4> QED
          BY <4>1, <4>2
      <3>3. CASE o \in D /\ o # r
        <4>1. CASE q \in D
          BY <1>15, <2>2, <2>5, <3>3, <4>1
        <4>2. CASE q = rest
          <5>1. o < r
            <6> SUFFICES ASSUME r < o PROVE FALSE
              BY <1>3, <1>16, <3>3
            <6>1. EndIn(d, r) <= o
              BY <1>3, <2>2, <3>3
            <6> QED
              BY <1>5, <1>15, <1>16, <2>5, <3>3, <4>2, <6>1
          <5>2. EndIn(d, o) <= r
            BY <1>3, <2>2, <3>3, <5>1
          <5> QED
            BY <1>3, <1>5, <1>15, <1>16, <3>3, <4>2, <5>2
        <4> QED
          BY <4>1, <4>2
      <3> QED
        BY <3>1, <3>2, <3>3
    <2> QED
      BY <1>10, <2>3, <2>4, <2>5 DEF Tiled
  <1>18. Sorted(e)
    <2>1. \A l \in Lists : IsInjective(e.list[l])
      BY <1>7, <1>12 DEF FileOK, Sorted
    <2>2. \A l, k \in Lists : l # k => OnList(e, l) \cap OnList(e, k) = {}
      BY <1>6, <1>13 DEF FileOK, Sorted
    <2>3. \A b \in Buckets : \A o \in OnList(e, b) : o \in OnList(d, b) /\ o \in D /\ o # r /\ e.rec[o] = d.rec[o]
      BY <1>3, <1>10, <1>13, FreeIsAList DEF FileOK, Sorted
    <2>4. \A o \in OnList(e, Free) : e.rec[o].magic = "free"
      BY <1>4, <1>10, <1>13, FreeIsAList DEF FileOK, Sorted
    <2>5. \A o \in D \cup {rest} : e.rec[o].magic = "used" => o \in D /\ o # r /\ e.rec[o] = d.rec[o]
      BY <1>4, <1>10
    <2>6. \A o \in DOMAIN e.rec : e.rec[o].magic = "used" => InUse(e, o)
      BY <1>10, <2>5 DEF FileOK, Sorted, InUse
    <2> QED
      BY <1>9, <2>1, <2>2, <2>3, <2>4, <2>6 DEF FileOK, Sorted
  <1>19. Loose(e, r) /\ e.rec[r].magic = "free" /\ e.rec[r].len >= n
    <2>1. e.rec[r].magic = "free" /\ e.rec[r].len >= n
      BY <1>4, <1>10
    <2> QED
      BY <1>3, <1>10, <1>13, <2>1, FreeIsAList DEF FileOK, Sorted, Loose
  <1>20. ASSUME NEW z \in Nat, \A o \in D : o < z => EndIn(d, o) <= z,
                NEW o \in DOMAIN e.rec, o < z
         PROVE  EndIn(e, o) <= z
    <2>1. CASE o = rest
      <3>1. r < z
        BY <1>3, <1>5, <1>20, <2>1
      <3> QED
        BY <1>3, <1>15, <1>20, <2>1, <3>1
    <2>2. CASE o = r
      <3>1. EndIn(d, r) <= z
        BY <1>3, <1>20, <2>2
      <3> QED
        BY <1>5, <1>15, <2>2, <3>1
    <2>3. CASE o \in D /\ o # r
      BY <1>15, <1>20, <2>3
    <2> QED
      BY <1>10, <2>1, <2>2, <2>3
  <1>21. /\ DOMAIN d.rec \subseteq DOMAIN e.rec
         /\ DOMAIN e.rec \subseteq DOMAIN d.rec \cup OnList(e, Free)
         /\ OnList(d, Free) \ {r} \subseteq OnList(e, Free)
         /\ OnList(e, Free) \cap DOMAIN d.rec \subseteq OnList(d, Free) \ {r}
    BY <1>6, <1>10, <1>13
  <1>22. Allocation(d, e, r, n)
    BY <1>3, <1>9, <1>10, <1>12, <1>14, <1>17, <1>18, <1>19, <1>20, <1>21 DEF FileOK, Allocation
  <1> QED
    BY <1>22 DEF e, r, rest

\* tdb_allocate, from a free list on which a record fits
LEMMA Allocates ==
    ASSUME NEW d, FileOK(d), NEW n \in Nat, FirstFit(d, n) # 0
    PROVE  Allocation(d, Allocated(d, n).file, Allocated(d, n).ptr, n)
  <1> DEFINE i == FirstFit(d, n)
             r == d.list[Free][i]
             m == ((n + Align) \div Align) * Align
  <1>1. i \in 1 .. Len(d.list[Free]) /\ r \in OnList(d, Free) /\ d.rec[r].len >= n
    BY Fits
  <1>2. Allocated(d, n).file = Split(d, i, n) /\ Allocated(d, n).ptr = r
    BY DEF Allocated
  <1>3. Align \in Nat \ {0} /\ Hdr \in Nat \ {0}
    BY TdbAssumption
  <1>4. m \in Nat /\ n < m /\ m <= n + Align
    BY <1>3, RoundsUp
  <1> HIDE DEF i, m
  <1>5. Allocation(d, Split(d, i, n), r, n)
    <2>1. CASE d.rec[r].len > n + MinRecSize
      <3>1. m + Hdr < d.rec[r].len
        <4>1. d.rec[r].len \in Nat
          <5>1. r \in DOMAIN d.rec
            BY <1>1, FreeIsAList DEF OnList, Range, FileOK, Shape
          <5> QED
            BY <5>1 DEF FileOK, Shape, Record
        <4> DEFINE z == d.rec[r].len
        <4> HIDE DEF z
        <4> QED
          BY <1>3, <1>4, <2>1, <4>1 DEF MinRecSize, z
      <3> QED
        BY <1>1, <1>4, <2>1, <3>1, Splits DEF Split, m
    <2>2. CASE ~(d.rec[r].len > n + MinRecSize)
      BY <1>1, <2>2, TakesAll DEF Split
    <2> QED
      BY <2>1, <2>2
  <1> QED
    BY <1>2, <1>5

\* tdb_expand adds a free record at the end, and what is asked for fits in.
LEMMA Expands ==
    ASSUME NEW d, FileOK(d), NEW n \in Nat
    PROVE  LET e == Expanded(d, n + Hdr)
           IN /\ FileOK(e) /\ d.size <= e.size /\ e.doubtful = d.doubtful /\ e.lost = d.lost
              /\ FirstFit(e, n) # 0
              /\ d.size \notin DOMAIN d.rec /\ DOMAIN e.rec = DOMAIN d.rec \cup {d.size}
              /\ \A o \in DOMAIN d.rec : e.rec[o] = d.rec[o]
              /\ \A l \in Lists : l # Free => e.list[l] = d.list[l]
              /\ OnList(e, Free) = OnList(d, Free) \cup {d.size}
              /\ \A m \in Nat : m <= d.size /\ (\A o \in DOMAIN d.rec : o < m => EndIn(d, o) <= m)
                                => \A o \in DOMAIN e.rec : o < m => EndIn(e, o) <= m
  <1> DEFINE c == d.list[Free]
             D == DOMAIN d.rec
             s == d.size
             N == NewSize(d, n + Hdr)
             x == [len |-> N - s - Hdr, magic |-> "free", key |-> NoValue, val |-> NoValue]
             R == [o \in D \cup {s} |-> IF o = s THEN x ELSE d.rec[o]]
             t == <<s>> \o c
             e == Expanded(d, n + Hdr)
  <1>1. c \in Seq(D) /\ IsInjective(c) /\ OnList(d, Free) = Range(c)
    BY FreeIsAList DEF FileOK, Shape, Sorted, OnList
  <1>2. d \in [size : Nat \ {0}, list : [Lists -> Seq(DOMAIN d.rec)], rec : [DOMAIN d.rec -> Record],
             doubtful : SUBSET Key, lost : SUBSET DOMAIN d.rec]
    BY DEF FileOK, Shape
  <1>3. Hdr \in Nat \ {0} /\ Page \in Nat \ {0} /\ Multiplier \in Nat \ {0} /\ s \in Nat \ {0}
    BY <1>2, TdbAssumption
  <1>4. N \in Nat /\ s + Hdr + n < N
    <2> DEFINE p == (n + Hdr) * Multiplier
    <2>1. n + Hdr \in Nat
      BY <1>3
    <2>2. p \in Nat /\ n + Hdr <= p
      BY <1>3, <2>1, Times
    <2>3. N = (((s + p) + Page) \div Page) * Page
      BY DEF NewSize
    <2> HIDE DEF p, N, s
    <2>4. s + p \in Nat
      BY <1>3, <2>2
    <2>5. N \in Nat /\ s + p < N
      BY <1>3, <2>3, <2>4, RoundsUp
    <2> QED
      BY <1>3, <2>2, <2>5
  <1>5. e = [d EXCEPT !.size = N, !.list = [d.list EXCEPT ![Free] = t], !.rec = R]
    BY <1>2 DEF Expanded
  <1>6. x \in Record /\ x.len = N - s - Hdr /\ x.len >= n /\ x.magic = "free"
    <2> HIDE DEF N, s
    <2>1. N - s - Hdr \in Nat \ {0} /\ N - s - Hdr >= n
      BY <1>3, <1>4
    <2> QED
      BY <2>1 DEF Record
  <1>7. \A o \in D : o \in Nat /\ o < EndIn(d, o) /\ EndIn(d, o) <= s /\ EndIn(d, o) \in Nat
    <2> SUFFICES ASSUME NEW o \in D PROVE o \in Nat /\ o < EndIn(d, o) /\ EndIn(d, o) <= s /\ EndIn(d, o) \in Nat
      OBVIOUS
    <2>1. o \in Nat /\ d.rec[o].len \in Nat
      BY <1>2 DEF FileOK, Shape, Record
    <2>2. EndIn(d, o) <= s
      BY DEF FileOK, Tiled
    <2> QED
      BY <1>3, <2>1, <2>2 DEF EndIn
  <1>8. s \notin D /\ \A o \in D : o < s
    <2> HIDE DEF s
    <2>1. \A o \in D : o < s
      BY <1>3, <1>7
    <2> QED
      BY <1>3, <2>1
  <1>9. t \in Seq(D \cup {s}) /\ Range(t) = Range(c) \cup {s} /\ IsInjective(t)
    <2> DEFINE S == D \cup {s}
    <2>1. c \in Seq(S) /\ s \in S /\ s \notin Range(c)
      BY <1>1, <1>8 DEF Range
    <2> HIDE DEF S, c, s
    <2>2. t \in Seq(S) /\ Range(t) = Range(c) \cup {s} /\ IsInjective(t)
      BY <1>1, <2>1, Pushed
    <2> QED
      BY <2>2 DEF S
  <1> HIDE DEF e, t, R, x, N, s
  <1>10. /\ e.size = N /\ e.rec = R /\ e.list = [d.list EXCEPT ![Free] = t]
         /\ e.doubtful = d.doubtful /\ e.lost = d.lost
    BY <1>2, <1>5
  <1>11. /\ DOMAIN e.rec = D \cup {s} /\ e.rec[s] = x /\ \A o \in D : e.rec[o] = d.rec[o]
    BY <1>8, <1>10 DEF R
  <1>12. e.rec \in [D \cup {s} -> Record]
    <2>1. \A o \in D \cup {s} : R[o] \in Record
      BY <1>2, <1>6 DEF R
    <2> QED
      BY <1>10, <2>1 DEF R
  <1>13. /\ e.list \in [Lists -> Seq(DOMAIN e.rec)]
         /\ e.list[Free] = t /\ \A l \in Lists : l # Free => e.list[l] = d.list[l]
    <2>1. \A l \in Lists : d.list[l] \in Seq(D \cup {s})
      <3>1. \A l \in Lists : d.list[l] \in Seq(D)
        BY <1>2
      <3> QED
        BY <3>1
    <2> QED
      BY <1>2, <1>9, <1>10, <1>11, <2>1, FreeIsAList
  <1>14. /\ OnList(e, Free) = OnList(d, Free) \cup {s}
         /\ \A l \in Lists : l # Free => OnList(e, l) = OnList(d, l)
         /\ \A l \in Lists : OnList(d, l) \subseteq D
    <2>1. \A l \in Lists : OnList(d, l) \subseteq D
      BY <1>2 DEF OnList, Range
    <2> QED
      BY <1>1, <1>9, <1>13, <2>1 DEF OnList
  <1>15. Shape(e)
    <2>1. DOMAIN e.rec \subseteq Nat \ {0}
      BY <1>3, <1>11 DEF FileOK, Shape
    <2>2. e.rec \in [DOMAIN e.rec -> Record]
      BY <1>11, <1>12
    <2>3. e.size \in Nat \ {0}
      BY <1>3, <1>4, <1>10
    <2>4. e = [size |-> e.size, list |-> e.list, rec |-> e.rec, doubtful |-> e.doubtful, lost |-> e.lost]
      BY <1>2, <1>5
    <2>5. e.doubtful \in SUBSET Key /\ e.lost \in SUBSET DOMAIN e.rec
      BY <1>2, <1>10, <1>11
    <2> QED
      BY <1>13, <2>1, <2>2, <2>3, <2>4, <2>5 DEF Shape
  <1>16. /\ \A o \in D : EndIn(e, o) = EndIn(d, o)
         /\ EndIn(e, s) = N
    <2>1. EndIn(e, s) = s + Hdr + (N - s - Hdr)
      BY <1>6, <1>11 DEF EndIn
    <2>2. \A o \in D : EndIn(e, o) = EndIn(d, o)
      BY <1>11 DEF EndIn
    <2> QED
      BY <1>3, <1>4, <2>1, <2>2
  <1>17. Tiled(e)
    <2>1. \A o \in D : EndIn(d, o) = s \/ EndIn(d, o) \in D
      BY DEF FileOK, Tiled, s
    <2>2. \A o, q \in D : o < q => EndIn(d, o) <= q
      BY DEF FileOK, Tiled
    <2>3. \A o \in D \cup {s} : EndIn(e, o) = e.size \/ EndIn(e, o) \in D \cup {s}
      BY <1>10, <1>16, <2>1
    <2>4. \A o \in D \cup {s} : EndIn(e, o) <= e.size
      <3>1. \A o \in D : EndIn(d, o) <= N
        BY <1>3, <1>4, <1>7
      <3> QED
        BY <1>4, <1>10, <1>16, <3>1
    <2>5. ASSUME NEW o \in D \cup {s}, NEW q \in D \cup {s}, o < q PROVE EndIn(e, o) <= q
      <3>1. o \in D
        BY <1>3, <1>7, <1>8, <2>5
      <3> QED
        BY <1>7, <1>16, <2>2, <2>5, <3>1
    <2> QED
      BY <1>11, <2>3, <2>4, <2>5 DEF Tiled
  <1>18. Sorted(e)
    <2>1. \A l \in Lists : IsInjective(e.list[l])
      BY <1>9, <1>13 DEF FileOK, Sorted
    <2>2. \A l, k \in Lists : l # k => OnList(e, l) \cap OnList(e, k) = {}
      BY <1>8, <1>14 DEF FileOK, Sorted
    <2>3. \A b \in Buckets : \A o \in OnList(e, b) : o \in OnList(d, b) /\ e.rec[o] = d.rec[o]
      BY <1>11, <1>14, FreeIsAList
    <2>4. \A o \in OnList(e, Free) : e.rec[o].magic = "free"
      BY <1>6, <1>11, <1>14, FreeIsAList DEF FileOK, Sorted
    <2>5. \A o \in D \cup {s} : e.rec[o].magic = "used" => o \in D /\ e.rec[o] = d.rec[o]
      BY <1>6, <1>11
    <2>6. \A o \in DOMAIN e.rec : e.rec[o].magic = "used" => InUse(e, o)
      BY <1>11, <2>5 DEF FileOK, Sorted, InUse
    <2> QED
      BY <1>10, <2>1, <2>2, <2>3, <2>4, <2>6 DEF FileOK, Sorted
  <1>19. FirstFit(e, n) # 0
    <2> DEFINE a == e.list[Free]
               I == {i \in 1 .. Len(a) : e.rec[a[i]].len >= n}
    <2>1. a \in Seq(DOMAIN e.rec) /\ Len(a) \in Nat /\ DOMAIN a = 1 .. Len(a) /\ Range(a) = OnList(e, Free)
      BY <1>13, FreeIsAList DEF OnList
    <2>2. PICK i \in 1 .. Len(a) : a[i] = s
      BY <1>14, <2>1 DEF Range
    <2>3. i \in I /\ I \in SUBSET Nat
      BY <1>6, <1>11, <2>1, <2>2
    <2>4. FirstFit(e, n) = IF I # {} THEN Min(I) ELSE 0
      BY DEF FirstFit, SelectInSeq
    <2>5. Min(I) \in I
      BY <2>3, LeastIsMin
    <2>6. 0 \notin I
      BY <2>1
    <2> QED
      BY <2>3, <2>4, <2>5, <2>6
  <1>20. ASSUME NEW m \in Nat, m <= s, \A o \in D : o < m => EndIn(d, o) <= m,
                NEW o \in DOMAIN e.rec, o < m
         PROVE  EndIn(e, o) <= m
    <2>1. o \in D
      BY <1>3, <1>11, <1>20
    <2> QED
      BY <1>16, <1>20, <2>1
  <1>21. FileOK(e) /\ s <= e.size
    BY <1>3, <1>4, <1>10, <1>15, <1>17, <1>18 DEF FileOK
  <1> QED
    BY <1>8, <1>10, <1>11, <1>13, <1>14, <1>19, <1>20, <1>21 DEF e, s

\* What tdb_allocate does, with the tdb_expand in it
Provision(d, e, r, n) ==
    /\ FileOK(e) /\ d.size <= e.size /\ e.doubtful = d.doubtful /\ e.lost = d.lost
    /\ r \in DOMAIN d.rec => r \in OnList(d, Free)
    /\ Loose(e, r) /\ e.rec[r].magic = "free" /\ e.rec[r].len >= n
    /\ DOMAIN d.rec \subseteq DOMAIN e.rec
    /\ DOMAIN e.rec \subseteq DOMAIN d.rec \cup OnList(e, Free) \cup {r}
    /\ \A o \in DOMAIN d.rec : o # r => e.rec[o] = d.rec[o]
    /\ \A l \in Lists : l # Free => e.list[l] = d.list[l]
    /\ OnList(d, Free) \ {r} \subseteq OnList(e, Free)
    /\ OnList(e, Free) \cap DOMAIN d.rec \subseteq OnList(d, Free) \ {r}
    /\ \A m \in Nat : m <= d.size /\ (\A o \in DOMAIN d.rec : o < m => EndIn(d, o) <= m)
                      => \A o \in DOMAIN e.rec : o < m => EndIn(e, o) <= m

LEMMA Provides ==
    ASSUME NEW d, FileOK(d), NEW n \in Nat
    PROVE  LET fits == FirstFit(d, n) # 0
               a == Allocated(IF fits THEN d ELSE Expanded(d, n + Hdr), n)
           IN Provision(d, a.file, a.ptr, n)
  <1>0. d.size \in Nat
    BY DEF FileOK, Shape
  <1>1. CASE FirstFit(d, n) # 0
    <2> DEFINE a == Allocated(d, n)
    <2>1. Allocation(d, a.file, a.ptr, n)
      BY <1>1, Allocates
    <2> HIDE DEF a
    <2>2. Provision(d, a.file, a.ptr, n)
      BY <1>0, <2>1 DEF Allocation, Provision
    <2> QED
      BY <1>1, <2>2 DEF a
  <1>2. CASE ~(FirstFit(d, n) # 0)
    <2> DEFINE g == Expanded(d, n + Hdr)
               a == Allocated(g, n)
               e == a.file
               r == a.ptr
    <2>1. /\ FileOK(g) /\ d.size <= g.size /\ g.doubtful = d.doubtful /\ g.lost = d.lost
          /\ FirstFit(g, n) # 0
          /\ d.size \notin DOMAIN d.rec /\ DOMAIN g.rec = DOMAIN d.rec \cup {d.size}
          /\ \A o \in DOMAIN d.rec : g.rec[o] = d.rec[o]
          /\ \A l \in Lists : l # Free => g.list[l] = d.list[l]
          /\ OnList(g, Free) = OnList(d, Free) \cup {d.size}
          /\ \A m \in Nat : m <= d.size /\ (\A o \in DOMAIN d.rec : o < m => EndIn(d, o) <= m)
                            => \A o \in DOMAIN g.rec : o < m => EndIn(g, o) <= m
      BY Expands
    <2> HIDE DEF g
    <2>2. Allocation(g, e, r, n)
      BY <2>1, Allocates
    <2> HIDE DEF a, e, r
    <2>3. /\ FileOK(e) /\ e.size = g.size /\ e.doubtful = g.doubtful /\ e.lost = g.lost
          /\ r \in OnList(g, Free) /\ Loose(e, r) /\ e.rec[r].magic = "free" /\ e.rec[r].len >= n
          /\ DOMAIN g.rec \subseteq DOMAIN e.rec
          /\ DOMAIN e.rec \subseteq DOMAIN g.rec \cup OnList(e, Free)
          /\ \A o \in DOMAIN g.rec : o # r => e.rec[o] = g.rec[o]
          /\ \A l \in Lists : l # Free => e.list[l] = g.list[l]
          /\ OnList(g, Free) \ {r} \subseteq OnList(e, Free)
          /\ OnList(e, Free) \cap DOMAIN g.rec \subseteq OnList(g, Free) \ {r}
          /\ \A m \in Nat : (\A o \in DOMAIN g.rec : o < m => EndIn(g, o) <= m)
                            => \A o \in DOMAIN e.rec : o < m => EndIn(e, o) <= m
      BY <2>2 DEF Allocation
    <2>4. /\ r \in DOMAIN d.rec => r \in OnList(d, Free)
          /\ DOMAIN d.rec \subseteq DOMAIN e.rec
          /\ DOMAIN e.rec \subseteq DOMAIN d.rec \cup OnList(e, Free) \cup {r}
          /\ OnList(d, Free) \ {r} \subseteq OnList(e, Free)
          /\ OnList(e, Free) \cap DOMAIN d.rec \subseteq OnList(d, Free) \ {r}
      BY <2>1, <2>3
    <2>5. \A m \in Nat : m <= d.size /\ (\A o \in DOMAIN d.rec : o < m => EndIn(d, o) <= m)
                         => \A o \in DOMAIN e.rec : o < m => EndIn(e, o) <= m
      BY <2>1, <2>3
    <2>6. (\A o \in DOMAIN d.rec : o # r => e.rec[o] = d.rec[o]) /\ d.size <= e.size
          /\ e.doubtful = d.doubtful /\ e.lost = d.lost
          /\ \A l \in Lists : l # Free => e.list[l] = d.list[l]
      BY <2>1, <2>3
    <2>7. Provision(d, e, r, n)
      BY <2>3, <2>4, <2>5, <2>6 DEF Provision
    <2> QED
      BY <1>2, <2>7 DEF a, e, r, g
  <1> QED
    BY <1>1, <1>2

\* A key comes in doubt, or a record is lost: nothing else changes.
LEMMA Doubting ==
    ASSUME NEW d, FileOK(d), NEW k \in Key
    PROVE  LET e == Doubted(d, k)
           IN /\ FileOK(e) /\ e.size = d.size /\ e.list = d.list /\ e.rec = d.rec
              /\ e.doubtful = d.doubtful \cup {k} /\ e.lost = d.lost
  <1> DEFINE e == Doubted(d, k)
  <1>1. d \in [size : Nat \ {0}, list : [Lists -> Seq(DOMAIN d.rec)], rec : [DOMAIN d.rec -> Record],
             doubtful : SUBSET Key, lost : SUBSET DOMAIN d.rec]
    BY DEF FileOK, Shape
  <1>2. e = [d EXCEPT !.doubtful = d.doubtful \cup {k}]
    BY <1>1 DEF Doubted
  <1> HIDE DEF e
  <1>3. /\ e.size = d.size /\ e.list = d.list /\ e.rec = d.rec
        /\ e.doubtful = d.doubtful \cup {k} /\ e.lost = d.lost
    BY <1>1, <1>2
  <1>4. Shape(e)
    BY <1>1, <1>2, <1>3 DEF FileOK, Shape
  <1>5. \A l \in Lists : OnList(e, l) = OnList(d, l)
    BY <1>3 DEF OnList
  <1>6. Tiled(e)
    BY <1>3 DEF FileOK, Tiled, EndIn
  <1>7. Sorted(e)
    BY <1>3, <1>5, FreeIsAList DEF FileOK, Sorted, InUse
  <1> QED
    BY <1>3, <1>4, <1>6, <1>7 DEF FileOK, e

LEMMA Losing ==
    ASSUME NEW d, FileOK(d), NEW r \in DOMAIN d.rec
    PROVE  LET e == Lost(d, r)
           IN /\ FileOK(e) /\ e.size = d.size /\ e.list = d.list /\ e.rec = d.rec
              /\ e.doubtful = d.doubtful /\ e.lost = d.lost \cup {r}
  <1> DEFINE e == Lost(d, r)
  <1>1. d \in [size : Nat \ {0}, list : [Lists -> Seq(DOMAIN d.rec)], rec : [DOMAIN d.rec -> Record],
             doubtful : SUBSET Key, lost : SUBSET DOMAIN d.rec]
    BY DEF FileOK, Shape
  <1>2. e = [d EXCEPT !.lost = d.lost \cup {r}]
    BY <1>1 DEF Lost
  <1> HIDE DEF e
  <1>3. /\ e.size = d.size /\ e.list = d.list /\ e.rec = d.rec
        /\ e.doubtful = d.doubtful /\ e.lost = d.lost \cup {r}
    BY <1>1, <1>2
  <1>4. Shape(e)
    BY <1>1, <1>2, <1>3 DEF FileOK, Shape
  <1>5. \A l \in Lists : OnList(e, l) = OnList(d, l)
    BY <1>3 DEF OnList
  <1>6. Tiled(e)
    BY <1>3 DEF FileOK, Tiled, EndIn
  <1>7. Sorted(e)
    BY <1>3, <1>5, FreeIsAList DEF FileOK, Sorted, InUse
  <1> QED
    BY <1>3, <1>4, <1>6, <1>7 DEF FileOK, e

-----------------------------------------------------------------------------
(***************************************************************************)
(* The processes.                                                          *)
(***************************************************************************)
\* What a request is, and where in a call a process can be
LEMMA Requested ==
    ASSUME Control, NEW p \in Proc
    PROVE  /\ call[p] = CloseCall \/ call[p] \in Request
           /\ call[p].type \in {"close", "store", "fetch", "exists", "delete", "nextkey", "firstkey", "traverse"}
           /\ call[p].type = "store" => call[p].key \in Key /\ call[p].val \in Value
                                        /\ call[p].flag \in {"replace", "insert"} /\ Size(call[p]) \in Nat
           /\ call[p].type \in {"fetch", "exists", "delete", "nextkey"} => call[p].key \in Key
           /\ call[p].type = "close" => call[p] = CloseCall
           /\ call[p].type # "close" => call[p] \in Requests[p]
  <1>1. Process(p) /\ call[p] \in Request \cup {CloseCall}
    BY DEF Control
  <1>2. call[p] = CloseCall \/ call[p] \in Request
    BY <1>1
  <1>3. ASSUME call[p] \in Request
        PROVE /\ call[p].type \in {"store", "fetch", "exists", "delete", "nextkey", "firstkey", "traverse"}
              /\ call[p].type = "store" => call[p].key \in Key /\ call[p].val \in Value
                                           /\ call[p].flag \in {"replace", "insert"}
              /\ call[p].type \in {"fetch", "exists", "delete", "nextkey"} => call[p].key \in Key
    BY <1>3 DEF Request
  <1>4. CloseCall.type = "close"
    BY DEF CloseCall
  <1>5. call[p].type = "store" => Size(call[p]) \in Nat
    <2> SUFFICES ASSUME call[p].type = "store" PROVE Size(call[p]) \in Nat
      OBVIOUS
    <2>1. call[p].key \in Key /\ call[p].val \in Value
      BY <1>2, <1>3, <1>4
    <2>2. KeyLen[call[p].key] \in Nat /\ DataLen[call[p].val] \in Nat
      BY <2>1, TdbAssumption
    <2> QED
      BY <2>2 DEF Size
  <1> QED
    BY <1>1, <1>2, <1>3, <1>4, <1>5 DEF Process

LEMMA Positions ==
    ASSUME Control, NEW p \in Proc
    PROVE  /\ pc[p] = "closed" => call[p].type = "close"
           /\ pc[p] \in {"store", "allocate", "insert", "link"} => call[p].type = "store"
           /\ pc[p] = "fetch" => call[p].type = "fetch"
           /\ pc[p] = "exists" => call[p].type = "exists"
           /\ pc[p] = "delete" => call[p].type = "delete"
           /\ pc[p] \in {"traverse", "visit"} => call[p].type = "traverse"
           /\ pc[p] = "firstkey" => call[p].type = "firstkey"
           /\ pc[p] \in {"nextkey", "nextchain"} => call[p].type = "nextkey"
           /\ pc[p] = "recover" => call[p].type \in {"store", "delete", "traverse"}
  <1>1. pc[p] \in Where(call[p].type)
    BY DEF Control, Process
  <1>2. call[p].type \in {"close", "store", "fetch", "exists", "delete", "nextkey", "firstkey", "traverse"}
    BY Requested
  <1> DEFINE t == call[p].type
  <1> HIDE DEF t
  <1> QED
    BY <1>1, <1>2 DEF Where, t

\* A step of p changes nothing of what another process has for itself ...
Only(p) ==
    /\ pc' = [pc EXCEPT ![p] = pc'[p]] /\ call' = [call EXCEPT ![p] = call'[p]]
    /\ locked' = [locked EXCEPT ![p] = locked'[p]] /\ chain' = [chain EXCEPT ![p] = chain'[p]]
    /\ rec_ptr' = [rec_ptr EXCEPT ![p] = rec_ptr'[p]] /\ old' = [old EXCEPT ![p] = old'[p]]

\* ... and it takes only locks that it may have.
Moves(p) ==
    /\ pc'[p] \in PCs /\ call'[p] \in Request \cup {CloseCall}
    /\ locked'[p] \in [Lists -> Nat] /\ chain'[p] \in Buckets /\ Process(p)'
    /\ \A l \in Lists : locked'[p][l] > 0 => locked[p][l] > 0 \/ CanLock(p, l)

Types ==
    /\ rec_ptr \in [Proc -> Nat] /\ old \in [Proc -> Nat] /\ Control

LEMMA ControlKept ==
    ASSUME Types, Exclusive, NEW p \in Proc, Only(p), Moves(p)
    PROVE  Control' /\ Exclusive'
  <1>1. \A q \in Proc : q # p => pc'[q] = pc[q] /\ call'[q] = call[q] /\ locked'[q] = locked[q] /\ chain'[q] = chain[q]
    BY DEF Types, Control, Only
  <1>2. /\ pc' \in [Proc -> PCs] /\ call' \in [Proc -> Request \cup {CloseCall}]
        /\ locked' \in [Proc -> [Lists -> Nat]] /\ chain' \in [Proc -> Buckets]
    BY DEF Types, Control, Only, Moves
  <1>3. ASSUME NEW q \in Proc PROVE Process(q)'
    <2>1. CASE q = p
      BY <2>1 DEF Moves
    <2>2. CASE q # p
      BY <1>1, <2>2 DEF Types, Control, Process, Replacing, Visiting
    <2> QED
      BY <2>1, <2>2
  <1>4. Control'
    BY <1>2, <1>3 DEF Control
  <1>5. ASSUME NEW l \in Lists, NEW a \in Proc, NEW b \in Proc, locked'[a][l] > 0, locked'[b][l] > 0, a # b
        PROVE  FALSE
    <2>1. \A q \in Proc : locked[q][l] \in Nat
      BY DEF Types, Control
    <2>2. ASSUME NEW q \in Proc, q # p, locked'[q][l] > 0, locked'[p][l] > 0 PROVE FALSE
      <3>1. locked[q][l] > 0
        BY <1>1, <2>2
      <3>2. locked[p][l] > 0 \/ locked[q][l] = 0
        BY <2>2 DEF Moves, CanLock
      <3> QED
        BY <2>1, <2>2, <3>1, <3>2 DEF Exclusive
    <2> QED
      BY <1>1, <1>5, <2>2 DEF Exclusive
  <1> QED
    BY <1>4, <1>5 DEF Exclusive

\* Control of the steps that change no locks and stay in the call
LEMMA QuietStep ==
    ASSUME Types, NEW p \in Proc, pc'[p] \in PCs, locked' = locked, call' = call, chain'[p] \in Buckets,
           Only(p), pc'[p] \in Where(call[p].type), 
           pc'[p] \in {"recover", "link", "visit"} /\ call[p].type # "delete"
             => pc[p] \in {"recover", "link", "visit"},
           chain' = chain \/ ~Visiting(p)'
    PROVE  Moves(p)
  <1>1. call[p] \in Request \cup {CloseCall} /\ locked[p] \in [Lists -> Nat] /\ Process(p)
    BY DEF Types, Control
  <1>2. Replacing(p)' => Replacing(p)
    <2> SUFFICES ASSUME call[p].type = "store", pc'[p] \in {"recover", "link"} PROVE pc[p] \in {"recover", "link"}
      BY DEF Replacing
    <2> QED
      BY Positions DEF Types
  <1>3. Visiting(p)' => Visiting(p) /\ chain'[p] = chain[p]
    <2> SUFFICES ASSUME Visiting(p)' PROVE Visiting(p) /\ chain'[p] = chain[p]
      OBVIOUS
    <2>1. call[p].type = "traverse" /\ pc'[p] \in {"visit", "recover"} /\ chain' = chain
      BY DEF Visiting
    <2>2. pc[p] \in {"visit", "recover"}
      BY <2>1, Positions DEF Types
    <2> QED
      BY <2>1, <2>2 DEF Visiting
  <1>4. Process(p)'
    <2>1. Replacing(p)' => call'[p].flag = "replace" /\ locked'[p][Bucket(call'[p].key)] > 0
      BY <1>1, <1>2 DEF Process
    <2>2. Visiting(p)' => locked'[p][chain'[p]] > 0
      BY <1>1, <1>3 DEF Process
    <2> QED
      BY <1>1, <2>1, <2>2 DEF Process
  <1> QED
    BY <1>1, <1>4 DEF Moves

LEMMA Ways ==
    /\ \A t \in {"close", "store", "fetch", "exists", "delete", "nextkey", "firstkey", "traverse"} :
          /\ "idle" \in Where(t)
          /\ t # "close" => t \in Where(t)
    /\ {"allocate", "insert", "recover", "link"} \subseteq Where("store")
    /\ "recover" \in Where("delete") /\ "nextchain" \in Where("nextkey") /\ "closed" \in Where("close")
    /\ {"visit", "recover"} \subseteq Where("traverse")
  BY DEF Where

LEMMA Alone ==
    ASSUME NEW S, NEW f \in [Proc -> S], NEW p \in Proc, NEW x
    PROVE  f = [f EXCEPT ![p] = f[p]] /\ [f EXCEPT ![p] = x] = [f EXCEPT ![p] = [f EXCEPT ![p] = x][p]]
           /\ [f EXCEPT ![p] = x][p] = x
  OBVIOUS

LEMMA ControlOfLookups ==
    ASSUME Types, NEW p \in Proc, Fetches(p) \/ Exists(p) \/ StoreChecks(p)
    PROVE  Only(p) /\ Moves(p)
  <1>1. /\ call' = call /\ locked' = locked /\ chain' = chain /\ old' = old /\ rec_ptr' = rec_ptr
    BY DEF Fetches, Exists, StoreChecks, StepLeaves
  <1>2. \E x \in {"idle", "allocate"} : pc' = [pc EXCEPT ![p] = x] /\ x \in Where(call[p].type)
    <2>1. CASE Fetches(p)
      <3>1. pc[p] = "fetch" /\ pc' = [pc EXCEPT ![p] = "idle"]
        BY <2>1 DEF Fetches, AtChain, Returns, Goes
      <3> QED
        BY <3>1, Ways, Positions DEF Types
    <2>2. CASE Exists(p)
      <3>1. pc[p] = "exists" /\ pc' = [pc EXCEPT ![p] = "idle"]
        BY <2>2 DEF Exists, AtChain, Returns, Goes
      <3> QED
        BY <3>1, Ways, Positions DEF Types
    <2>3. CASE StoreChecks(p)
      <3>1. pc[p] = "store" /\ (pc' = [pc EXCEPT ![p] = "idle"] \/ pc' = [pc EXCEPT ![p] = "allocate"])
        BY <2>3 DEF StoreChecks, AtChain, Returns, Goes
      <3> QED
        BY <3>1, Ways, Positions DEF Types
    <2> QED
      BY <2>1, <2>2, <2>3
  <1>3. pc'[p] \in {"idle", "allocate"} /\ pc'[p] \in Where(call[p].type) /\ pc' = [pc EXCEPT ![p] = pc'[p]]
    BY <1>2 DEF Types, Control
  <1>4. Only(p)
    BY <1>1, <1>3 DEF Only, Types, Control
  <1>5. chain[p] \in Buckets
    BY DEF Types, Control
  <1> QED
    BY <1>1, <1>3, <1>4, <1>5, QuietStep DEF PCs

LEMMA ControlOfAllocation ==
    ASSUME Types, NEW p \in Proc, StoreAllocates(p)
    PROVE  Only(p) /\ Moves(p)
  <1>1. /\ call' = call /\ locked' = locked /\ chain' = chain /\ old' = old /\ pc[p] = "allocate"
    BY DEF StoreAllocates, StepLeaves
  <1>2. rec_ptr' = [rec_ptr EXCEPT ![p] = rec_ptr'[p]]
    BY DEF StoreAllocates, Types
  <1>3. pc' = [pc EXCEPT ![p] = "insert"] \/ pc' = [pc EXCEPT ![p] = "idle"]
    BY DEF StoreAllocates, Returns, Goes
  <1>4. pc'[p] \in {"idle", "insert"} /\ pc' = [pc EXCEPT ![p] = pc'[p]]
    BY <1>3 DEF Types, Control
  <1>5. pc'[p] \in Where(call[p].type)
    BY <1>1, <1>4, Ways, Positions DEF Types
  <1>6. Only(p)
    BY <1>1, <1>2, <1>4 DEF Only, Types, Control
  <1>7. chain[p] \in Buckets
    BY DEF Types, Control
  <1> QED
    BY <1>1, <1>4, <1>5, <1>6, <1>7, QuietStep DEF PCs

LEMMA ControlOfKeys ==
    ASSUME Types, NEW p \in Proc, FirstKey(p) \/ NextKey(p) \/ NextChain(p)
    PROVE  Only(p) /\ Moves(p)
  <1>1. /\ call' = call /\ locked' = locked /\ old' = old /\ rec_ptr' = rec_ptr
    BY DEF FirstKey, NextKey, NextChain, StepLeaves
  <1>2. pc \in [Proc -> PCs] /\ chain \in [Proc -> Buckets] /\ chain[p] \in Buckets
    BY DEF Types, Control
  <1>3. chain[p] \in Nat /\ HashSize \in Nat
    BY <1>2, TdbAssumption DEF Buckets
  <1>4. /\ pc' = [pc EXCEPT ![p] = pc'[p]] /\ pc'[p] \in {"idle", "firstkey", "nextchain"}
        /\ pc'[p] \in Where(call[p].type)
        /\ chain' = [chain EXCEPT ![p] = chain'[p]] /\ chain'[p] \in Buckets
    <2>1. CASE FirstKey(p)
      <3>1. pc[p] = "firstkey"
        BY <2>1 DEF FirstKey
      <3>2. (pc' = [pc EXCEPT ![p] = "idle"] /\ chain' = chain)
            \/ (pc' = pc /\ chain' = [chain EXCEPT ![p] = @ + 1] /\ chain[p] + 1 < HashSize)
        BY <2>1 DEF FirstKey, Returns, Goes
      <3>3. chain[p] + 1 < HashSize => chain[p] + 1 \in Buckets
        BY <1>3 DEF Buckets
      <3> QED
        BY <1>2, <3>1, <3>2, <3>3, Ways, Positions DEF Types
    <2>2. CASE NextKey(p)
      <3>1. pc[p] = "nextkey" /\ call[p].type = "nextkey" /\ Bucket(call[p].key) \in Buckets
        BY <2>2, Positions, Requested, Hashed DEF NextKey, AtChain, Types
      <3>2. (pc' = [pc EXCEPT ![p] = "idle"] /\ chain' = chain)
            \/ (pc' = [pc EXCEPT ![p] = "nextchain"] /\ chain' = [chain EXCEPT ![p] = Bucket(call[p].key)])
        BY <2>2 DEF NextKey, Returns, Goes
      <3> QED
        BY <1>2, <3>1, <3>2, Ways
    <2>3. CASE NextChain(p)
      <3>1. pc[p] = "nextchain" /\ call[p].type = "nextkey"
        BY <2>3, Positions DEF NextChain, Types
      <3>2. (pc' = [pc EXCEPT ![p] = "idle"] /\ chain' = chain)
            \/ (pc' = pc /\ chain' = [chain EXCEPT ![p] = chain[p] + 1] /\ chain[p] + 1 < HashSize - 1)
        BY <2>3 DEF NextChain, Returns, Goes
      <3>3. chain[p] + 1 < HashSize - 1 => chain[p] + 1 \in Buckets
        BY <1>3 DEF Buckets
      <3> QED
        BY <1>2, <3>1, <3>2, <3>3, Ways
    <2> QED
      BY <2>1, <2>2, <2>3
  <1>5. Only(p)
    BY <1>1, <1>4 DEF Only, Types, Control
  <1>6. ~Visiting(p)'
    BY <1>4 DEF Visiting
  <1> QED
    BY <1>1, <1>4, <1>5, <1>6, QuietStep DEF PCs

LEMMA ControlOfDeletes ==
    ASSUME Types, NEW p \in Proc, Deletes(p) \/ Recovers(p)
    PROVE  Only(p) /\ Moves(p)
  <1>1. call' = call /\ locked' = locked /\ chain' = chain /\ rec_ptr' = rec_ptr
    BY DEF Deletes, Recovers, StepLeaves
  <1>2. pc \in [Proc -> PCs] /\ chain[p] \in Buckets /\ old \in [Proc -> Nat]
    BY DEF Types, Control
  <1>3. old' = [old EXCEPT ![p] = old'[p]]
    BY <1>2 DEF Deletes, Recovers
  <1>4. /\ pc' = [pc EXCEPT ![p] = pc'[p]] /\ pc'[p] \in {"idle", "recover", "link", "visit"}
        /\ pc'[p] \in Where(call[p].type)
        /\ call[p].type # "delete" => pc[p] = "recover"
    <2>1. CASE Deletes(p)
      <3>1. pc[p] = "delete" /\ call[p].type = "delete"
        BY <2>1, Positions DEF Deletes, AtChain, Types
      <3>2. pc' = [pc EXCEPT ![p] = "idle"] \/ pc' = [pc EXCEPT ![p] = "recover"]
        BY <2>1 DEF Deletes, Returns, Goes
      <3> QED
        BY <1>2, <3>1, <3>2, Ways
    <2>2. CASE Recovers(p)
      <3>1. pc[p] = "recover" /\ call[p].type \in {"store", "delete", "traverse"}
        BY <2>2, Positions DEF Recovers, Types
      <3>2. pc' = [pc EXCEPT ![p] = CASE call[p].type = "store" -> "link"
                                      [] call[p].type = "delete" -> "idle"
                                      [] OTHER -> "visit"]
        BY <2>2 DEF Recovers, Goes
      <3>3. CASE call[p].type = "store"
        <4>1. pc' = [pc EXCEPT ![p] = "link"]
          BY <3>2, <3>3
        <4> QED
          BY <1>2, <3>1, <3>3, <4>1, Ways
      <3>4. CASE call[p].type = "delete"
        <4>1. pc' = [pc EXCEPT ![p] = "idle"]
          BY <3>2, <3>4
        <4> QED
          BY <1>2, <3>1, <3>4, <4>1, Ways
      <3>5. CASE call[p].type = "traverse"
        <4>1. pc' = [pc EXCEPT ![p] = "visit"]
          BY <3>2, <3>5
        <4> QED
          BY <1>2, <3>1, <3>5, <4>1, Ways
      <3> QED
        BY <3>1, <3>3, <3>4, <3>5
    <2> QED
      BY <2>1, <2>2
  <1>5. Only(p)
    BY <1>1, <1>3, <1>4 DEF Only, Types, Control
  <1> QED
    BY <1>1, <1>2, <1>4, <1>5, QuietStep DEF PCs

\* Control of the steps that lock or unlock a list
LEMMA LockingStep ==
    ASSUME Types, NEW p \in Proc, pc'[p] \in PCs, call' = call, chain'[p] \in Buckets,
           Only(p), pc'[p] \in Where(call[p].type), NEW l \in Lists, NEW n \in Nat,
           locked' = [locked EXCEPT ![p][l] = n],
           n > 0 => locked[p][l] > 0 \/ CanLock(p, l),
           Replacing(p)' => call[p].flag = "replace" /\ Bucket(call[p].key) = l /\ n > 0,
           Visiting(p)' => chain'[p] = l /\ n > 0
    PROVE  Moves(p)
  <1>1. /\ call[p] \in Request \cup {CloseCall} /\ locked[p] \in [Lists -> Nat] /\ Process(p)
        /\ locked \in [Proc -> [Lists -> Nat]]
    BY DEF Types, Control
  <1>2. locked'[p] \in [Lists -> Nat] /\ locked'[p][l] = n
        /\ \A m \in Lists : m # l => locked'[p][m] = locked[p][m]
    BY <1>1
  <1>3. \A m \in Lists : locked'[p][m] > 0 => locked[p][m] > 0 \/ CanLock(p, m)
    BY <1>2
  <1>4. Process(p)'
    <2>1. Replacing(p)' => call'[p].flag = "replace" /\ locked'[p][Bucket(call'[p].key)] > 0
      BY <1>2
    <2>2. Visiting(p)' => locked'[p][chain'[p]] > 0
      BY <1>2
    <2> QED
      BY <1>1, <2>1, <2>2 DEF Process
  <1> QED
    BY <1>1, <1>2, <1>3, <1>4 DEF Moves

LEMMA ControlOfInsert ==
    ASSUME Types, NEW p \in Proc, StoreInserts(p)
    PROVE  Only(p) /\ Moves(p)
  <1>1. /\ call' = call /\ chain' = chain /\ rec_ptr' = rec_ptr /\ pc[p] = "insert"
        /\ CanLock(p, Bucket(call[p].key))
    BY DEF StoreInserts, StepLeaves, AtChain
  <1>2. /\ pc \in [Proc -> PCs] /\ chain[p] \in Buckets /\ old \in [Proc -> Nat]
        /\ locked \in [Proc -> [Lists -> Nat]]
    BY DEF Types, Control
  <1>3. call[p].type = "store" /\ Bucket(call[p].key) \in Lists
    BY <1>1, Positions, Requested, Hashed DEF Types
  <1>4. CASE /\ call[p].flag = "replace"
             /\ pc' = [pc EXCEPT ![p] = "recover"] /\ old' = [old EXCEPT ![p] = RecordOf(db, call[p].key)]
             /\ locked' = [locked EXCEPT ![p][Bucket(call[p].key)] = @ + 1]
    <2>1. /\ pc' = [pc EXCEPT ![p] = "recover"] /\ old' = [old EXCEPT ![p] = RecordOf(db, call[p].key)]
          /\ locked' = [locked EXCEPT ![p][Bucket(call[p].key)] = locked[p][Bucket(call[p].key)] + 1]
      BY <1>4
    <2> DEFINE l == Bucket(call[p].key)
               n == locked[p][l] + 1
    <2>2. l \in Lists /\ n \in Nat /\ n > 0 /\ locked' = [locked EXCEPT ![p][l] = n] /\ pc'[p] = "recover"
      BY <1>2, <1>3, <2>1
    <2>3. Only(p)
      BY <1>1, <1>2, <2>1 DEF Only, Types, Control
    <2>4. ~Visiting(p)'
      BY <1>1, <1>3 DEF Visiting
    <2>5. pc'[p] \in PCs /\ pc'[p] \in Where(call[p].type)
      BY <1>3, <2>2, Ways DEF PCs
    <2> HIDE DEF l, n
    <2>6. Bucket(call[p].key) = l
      BY DEF l
    <2>7. Moves(p)
      BY <1>1, <1>2, <1>4, <2>2, <2>3, <2>4, <2>5, <2>6, LockingStep
    <2> QED
      BY <2>3, <2>7
  <1>5. CASE pc' = [pc EXCEPT ![p] = "idle"] /\ old' = old /\ locked' = locked
    <2>1. pc' = [pc EXCEPT ![p] = "idle"] /\ old' = old /\ locked' = locked
      BY <1>5
    <2>2. Only(p) /\ pc'[p] = "idle"
      BY <1>1, <1>2, <2>1 DEF Only, Types, Control
    <2>3. Moves(p)
      BY <1>1, <1>2, <1>3, <2>1, <2>2, Ways, QuietStep DEF PCs
    <2> QED
      BY <2>2, <2>3
  <1> QED
    BY <1>4, <1>5 DEF StoreInserts, Returns, Goes

LEMMA ControlOfLink ==
    ASSUME Types, NEW p \in Proc, StoreLinks(p)
    PROVE  Only(p) /\ Moves(p)
  <1> DEFINE l == Bucket(call[p].key)
             n == locked[p][l] - 1
  <1>1. /\ call' = call /\ chain' = chain /\ rec_ptr' = rec_ptr /\ old' = old /\ pc[p] = "link"
        /\ pc' = [pc EXCEPT ![p] = "idle"] /\ locked' = [locked EXCEPT ![p][l] = n]
    BY DEF StoreLinks, StepLeaves, Returns, Goes
  <1>2. /\ pc \in [Proc -> PCs] /\ chain[p] \in Buckets /\ locked \in [Proc -> [Lists -> Nat]] /\ Process(p)
    BY DEF Types, Control
  <1>3. call[p].type = "store" /\ l \in Lists
    BY <1>1, Positions, Requested, Hashed DEF Types
  <1>4. locked[p][l] > 0 /\ locked[p][l] \in Nat
    BY <1>1, <1>2, <1>3 DEF Process, Replacing
  <1>5. n \in Nat
    BY <1>4
  <1>6. Only(p) /\ pc'[p] = "idle"
    BY <1>1, <1>2 DEF Only, Types, Control
  <1>7. ~Visiting(p)' /\ ~Replacing(p)'
    BY <1>6 DEF Visiting, Replacing
  <1>8. pc'[p] \in PCs /\ pc'[p] \in Where(call[p].type)
    BY <1>3, <1>6, Ways DEF PCs
  <1> HIDE DEF n, l
  <1> QED
    BY <1>1, <1>2, <1>3, <1>4, <1>5, <1>6, <1>7, <1>8, LockingStep

LEMMA ControlOfTraversal ==
    ASSUME Types, NEW p \in Proc, TraverseLocks(p) \/ TraverseVisits(p) \/ TraverseEndsChain(p)
    PROVE  Only(p) /\ Moves(p)
  <1> DEFINE l == chain[p]
             n == locked[p][l]
  <1>1. /\ pc \in [Proc -> PCs] /\ chain \in [Proc -> Buckets] /\ old \in [Proc -> Nat]
        /\ rec_ptr \in [Proc -> Nat] /\ locked \in [Proc -> [Lists -> Nat]] /\ Process(p)
    BY DEF Types, Control
  <1>2. call' = call /\ l \in Lists /\ l \in Buckets /\ n \in Nat
    BY <1>1, FreeIsAList DEF TraverseLocks, TraverseVisits, TraverseEndsChain, StepLeaves
  <1>3. pc[p] \in {"traverse", "visit"} /\ call[p].type = "traverse"
    BY Positions DEF TraverseLocks, TraverseVisits, TraverseEndsChain, Types
  <1>4. ~Replacing(p)'
    BY <1>2, <1>3 DEF Replacing
  <1>5. pc[p] = "visit" => n > 0
    BY <1>1, <1>3 DEF Process, Visiting
  <1>6. CASE TraverseLocks(p)
    <2>1. /\ pc' = [pc EXCEPT ![p] = "visit"] /\ locked' = [locked EXCEPT ![p][l] = n + 1]
          /\ chain' = chain /\ old' = old /\ CanLock(p, l)
          /\ \E x : rec_ptr' = [rec_ptr EXCEPT ![p] = x]
      BY <1>6 DEF TraverseLocks, Goes
    <2>2. Only(p) /\ pc'[p] = "visit"
      BY <1>1, <1>2, <2>1 DEF Only, Types, Control
    <2>3. pc'[p] \in PCs /\ pc'[p] \in Where(call[p].type) /\ chain'[p] = l
      BY <1>3, <2>1, <2>2, Ways DEF PCs
    <2> DEFINE m == n + 1
    <2>4. m \in Nat /\ m > 0 /\ locked' = [locked EXCEPT ![p][l] = m]
      BY <1>2, <2>1
    <2> HIDE DEF m, n, l
    <2> QED
      BY <1>2, <1>4, <2>1, <2>2, <2>3, <2>4, LockingStep
  <1>7. CASE TraverseVisits(p)
    <2>1. /\ chain' = chain /\ pc[p] = "visit"
          /\ rec_ptr' = [rec_ptr EXCEPT ![p] = rec_ptr'[p]] /\ old' = [old EXCEPT ![p] = old'[p]]
      BY <1>1, <1>7 DEF TraverseVisits
    <2>2. \/ locked' = locked /\ (pc' = pc \/ pc' = [pc EXCEPT ![p] = "recover"])
          \/ locked' = [locked EXCEPT ![p][l] = n - 1] /\ pc' = [pc EXCEPT ![p] = "idle"]
      BY <1>7 DEF TraverseVisits, TraverseUnlocks, Goes, Returns
    <2>3. CASE locked' = locked /\ (pc' = pc \/ pc' = [pc EXCEPT ![p] = "recover"])
      <3>1. pc'[p] \in {"visit", "recover"} /\ Only(p)
        BY <1>1, <1>2, <2>1, <2>3 DEF Only, Types, Control
      <3>2. pc'[p] \in PCs /\ pc'[p] \in Where(call[p].type) /\ chain'[p] \in Buckets
        BY <1>2, <1>3, <2>1, <3>1, Ways DEF PCs
      <3> QED
        BY <1>2, <2>1, <2>3, <3>1, <3>2, QuietStep
    <2>4. CASE locked' = [locked EXCEPT ![p][l] = n - 1] /\ pc' = [pc EXCEPT ![p] = "idle"]
      <3>1. pc'[p] = "idle" /\ Only(p)
        BY <1>1, <1>2, <2>1, <2>4 DEF Only, Types, Control
      <3>2. pc'[p] \in PCs /\ pc'[p] \in Where(call[p].type) /\ chain'[p] \in Buckets
        BY <1>2, <1>3, <2>1, <3>1, Ways DEF PCs
      <3>3. ~Visiting(p)'
        BY <3>1 DEF Visiting
      <3> DEFINE m == n - 1
      <3>4. m \in Nat /\ locked[p][l] > 0 /\ locked' = [locked EXCEPT ![p][l] = m]
        BY <1>2, <1>5, <2>1, <2>4
      <3> HIDE DEF m, n, l
      <3> QED
        BY <1>2, <1>4, <3>1, <3>2, <3>3, <3>4, LockingStep
    <2> QED
      BY <2>2, <2>3, <2>4
  <1>8. CASE TraverseEndsChain(p)
    <2>1. /\ pc[p] = "visit" /\ locked' = [locked EXCEPT ![p][l] = n - 1]
          /\ rec_ptr' = rec_ptr /\ old' = old
      BY <1>8 DEF TraverseEndsChain, TraverseUnlocks
    <2>2. (pc' = [pc EXCEPT ![p] = "idle"] /\ chain' = chain)
          \/ (pc' = [pc EXCEPT ![p] = "traverse"] /\ chain' = [chain EXCEPT ![p] = @ + 1] /\ chain[p] + 1 < HashSize)
      BY <1>8 DEF TraverseEndsChain, Returns, Goes
    <2>3. chain[p] + 1 < HashSize => chain[p] + 1 \in Buckets
      BY <1>2, TdbAssumption DEF Buckets
    <2>4. pc'[p] \in {"idle", "traverse"} /\ pc' = [pc EXCEPT ![p] = pc'[p]] /\ chain'[p] \in Buckets
          /\ chain' = [chain EXCEPT ![p] = chain'[p]]
      BY <1>1, <1>2, <2>2, <2>3
    <2>5. Only(p)
      BY <1>1, <1>2, <2>1, <2>4 DEF Only, Types, Control
    <2>6. pc'[p] \in PCs /\ pc'[p] \in Where(call[p].type)
      BY <1>3, <2>4, Ways DEF PCs
    <2>7. ~Visiting(p)'
      BY <2>4 DEF Visiting
    <2> DEFINE m == n - 1
    <2>8. m \in Nat /\ locked[p][l] > 0 /\ locked' = [locked EXCEPT ![p][l] = m]
      BY <1>2, <1>5, <2>1
    <2> HIDE DEF m, n, l
    <2> QED
      BY <1>2, <1>4, <2>4, <2>5, <2>6, <2>7, <2>8, LockingStep
  <1> QED
    BY <1>6, <1>7, <1>8

LEMMA ControlOfLocks ==
    ASSUME Types, NEW p \in Proc, NEW l \in Lists, LockChain(p, l) \/ UnlockChain(p, l)
    PROVE  Only(p) /\ Moves(p)
  <1>1. /\ pc[p] = "idle" /\ pc' = pc /\ call' = call /\ chain' = chain /\ rec_ptr' = rec_ptr /\ old' = old
    BY DEF LockChain, UnlockChain, procVars
  <1>2. /\ pc \in [Proc -> PCs] /\ chain \in [Proc -> Buckets] /\ locked \in [Proc -> [Lists -> Nat]] /\ Process(p)
    BY DEF Types, Control
  <1>3. \E n \in Nat : locked' = [locked EXCEPT ![p][l] = n] /\ (n > 0 => CanLock(p, l))
    BY DEF LockChain, UnlockChain
  <1>4. Only(p)
    <2>1. locked' = [locked EXCEPT ![p] = locked'[p]]
      BY <1>2, <1>3
    <2> QED
      BY <1>1, <1>2, <2>1 DEF Only, Types, Control
  <1>5. ~Visiting(p)' /\ ~Replacing(p)'
    BY <1>1 DEF Visiting, Replacing
  <1>6. pc'[p] \in PCs /\ pc'[p] \in Where(call[p].type) /\ chain'[p] \in Buckets
    BY <1>1, <1>2 DEF Process
  <1> QED
    BY <1>1, <1>3, <1>4, <1>5, <1>6, LockingStep

LEMMA ControlOfOpen ==
    ASSUME Types, NEW p \in Proc, NEW clear \in BOOLEAN, Open(p, clear)
    PROVE  Only(p) /\ Moves(p)
  <1>1. /\ pc[p] = "closed" /\ pc' = [pc EXCEPT ![p] = "idle"]
        /\ locked' = locked /\ call' = call /\ chain' = chain /\ rec_ptr' = rec_ptr /\ old' = old
    BY DEF Open
  <1>2. pc \in [Proc -> PCs] /\ chain[p] \in Buckets
    BY DEF Types, Control
  <1>3. Only(p) /\ pc'[p] = "idle"
    BY <1>1, <1>2 DEF Only, Types, Control
  <1>4. pc'[p] \in PCs /\ pc'[p] \in Where(call[p].type)
    BY <1>1, <1>3, Ways, Positions DEF PCs, Types
  <1> QED
    BY <1>1, <1>2, <1>3, <1>4, QuietStep

LEMMA ControlOfLeave ==
    ASSUME Types, NEW p \in Proc, Leave(p)
    PROVE  Only(p) /\ Moves(p) /\ pc'[p] = "closed" /\ rec_ptr'[p] = 0 /\ old'[p] = 0 /\ call'[p] = CloseCall
  <1>1. /\ pc' = [pc EXCEPT ![p] = "closed"] /\ locked' = [locked EXCEPT ![p] = Unlocked]
        /\ call' = [call EXCEPT ![p] = CloseCall] /\ chain' = [chain EXCEPT ![p] = 0]
        /\ rec_ptr' = [rec_ptr EXCEPT ![p] = 0] /\ old' = [old EXCEPT ![p] = 0]
    BY DEF Leave, CloseCall
  <1>2. Only(p) /\ pc'[p] = "closed" /\ call'[p] = CloseCall /\ chain'[p] = 0 /\ locked'[p] = Unlocked
        /\ rec_ptr'[p] = 0 /\ old'[p] = 0
    BY <1>1 DEF Only, Types, Control
  <1>3. 0 \in Buckets /\ Unlocked \in [Lists -> Nat] /\ \A l \in Lists : Unlocked[l] = 0
    BY TdbAssumption DEF Buckets, Unlocked
  <1>4. CloseCall.type = "close"
    BY DEF CloseCall
  <1>5. Process(p)'
    BY <1>2, <1>4, Ways DEF Process, Replacing, Visiting
  <1> QED
    BY <1>2, <1>3, <1>5 DEF Moves, PCs

LEMMA ControlOfCall ==
    ASSUME Types, NEW p \in Proc, NEW r \in Requests[p], Call(p, r)
    PROVE  Only(p) /\ Moves(p) /\ pc'[p] = r.type /\ call'[p] = r /\ rec_ptr'[p] = 0 /\ old'[p] = 0
  <1>1. /\ pc' = [pc EXCEPT ![p] = r.type] /\ locked' = locked
        /\ call' = [call EXCEPT ![p] = r] /\ chain' = [chain EXCEPT ![p] = 0]
        /\ rec_ptr' = [rec_ptr EXCEPT ![p] = 0] /\ old' = [old EXCEPT ![p] = 0]
    BY DEF Call, fileVars
  <1>2. Only(p) /\ pc'[p] = r.type /\ call'[p] = r /\ chain'[p] = 0 /\ rec_ptr'[p] = 0 /\ old'[p] = 0
    BY <1>1 DEF Only, Types, Control
  <1>3. 0 \in Buckets /\ locked[p] \in [Lists -> Nat]
    BY TdbAssumption DEF Buckets, Types, Control
  <1>4. r \in Request /\ r.type \in {"store", "fetch", "exists", "delete", "nextkey", "firstkey", "traverse"}
    <2>1. r \in Request
      BY TdbAssumption
    <2> QED
      BY <2>1 DEF Request
  <1>5. r.type \in Where(r.type)
    BY <1>4, Ways
  <1>6. Process(p)'
    BY <1>2, <1>4, <1>5 DEF Process, Replacing, Visiting
  <1> QED
    BY <1>1, <1>2, <1>3, <1>4, <1>6 DEF Moves, PCs

\* Every step keeps the control of the processes.
LEMMA ControlStep ==
    ASSUME Types, Exclusive, NEW p \in Proc, Steps(p) \/ Application(p)
    PROVE  Only(p) /\ Control' /\ Exclusive'
  <1>1. Only(p) /\ Moves(p)
    BY ControlOfLookups, ControlOfAllocation, ControlOfKeys, ControlOfDeletes, ControlOfInsert,
       ControlOfLink, ControlOfTraversal, ControlOfLocks, ControlOfOpen, ControlOfLeave,
       ControlOfCall DEF Steps, Application, Close, Dies
  <1> QED
    BY <1>1, ControlKept

-----------------------------------------------------------------------------
(***************************************************************************)
(* What the other processes may rely on when p changes the file: records   *)
(* in their hands and chains that they locked stay as they are, a record on*)
(* a chain keeps its key, no key appears on a chain but the one that p     *)
(* stores, and a key in doubt stays so.                                    *)
(***************************************************************************)
MayLock(p, b) == locked[p][b] > 0 \/ CanLock(p, b)

KeysKept(e) == \A b \in Buckets : \A o \in OnList(db, b) : e.rec[o].key = db.rec[o].key
Respects(p, e) ==
    /\ KeysKept(e)
    /\ DOMAIN db.rec \subseteq DOMAIN e.rec
    /\ \A o : Loose(db, o) /\ ~Mine(p, o) => Loose(e, o) /\ e.rec[o] = db.rec[o]
    /\ \A b \in Buckets : ~MayLock(p, b) => e.list[b] = db.list[b]
    /\ \A k \in Key : OnChain(e, k) =>
          OnChain(db, k) \/ (Storing(p) /\ call[p].key = k /\ MayLock(p, Bucket(k)))
    /\ db.doubtful \subseteq e.doubtful /\ db.lost \subseteq e.lost

\* A record that comes into the hands of p was in nobody's hands.
Grasps(p) ==
    /\ Storing(p)' => (Storing(p) /\ rec_ptr'[p] = rec_ptr[p]) \/ ~Loose(db, rec_ptr'[p])
    /\ pc'[p] = "recover" => (pc[p] = "recover" /\ old'[p] = old[p]) \/ ~Loose(db, old'[p])

\* A list that another process locked is out of reach.
LEMMA OutOfReach ==
    ASSUME Types, Exclusive, NEW p \in Proc, NEW q \in Proc, p # q, NEW b \in Lists, locked[q][b] > 0
    PROVE  ~MayLock(p, b)
  <1>1. locked[q][b] \in Nat /\ locked[p][b] \in Nat
    BY DEF Types, Control
  <1> QED
    BY <1>1 DEF MayLock, Exclusive, CanLock

LEMMA OthersKeep ==
    ASSUME Inv, NEW p \in Proc, Only(p), Respects(p, db'), NEW q \in Proc, q # p
    PROVE  Hands(q)'
  <1>0. Types /\ Exclusive /\ Hands(q) /\ Hands(p)
    BY DEF Inv, Types
  <1>1. /\ pc'[q] = pc[q] /\ call'[q] = call[q] /\ locked'[q] = locked[q] /\ chain'[q] = chain[q]
        /\ rec_ptr'[q] = rec_ptr[q] /\ old'[q] = old[q]
    BY <1>0 DEF Types, Control, Only
  <1>2. /\ Storing(q)' <=> Storing(q)
        /\ Awaited(q)' <=> Awaited(q)
        /\ Visiting(q)' <=> Visiting(q)
    BY <1>1 DEF Storing, Awaited, Visiting, Replacing
  <1>3. /\ {rec_ptr[q], old[q]} \subseteq DOMAIN db'.rec \cup {0}
        /\ pc[q] = "closed" => rec_ptr[q] = 0 /\ old[q] = 0
    BY <1>0 DEF Hands, Respects
  <1>4. ASSUME Storing(q)
        PROVE  /\ Loose(db', rec_ptr[q]) /\ db'.rec[rec_ptr[q]].magic = "free"
               /\ db'.rec[rec_ptr[q]].len >= Size(call[q])
    <2>1. /\ Loose(db, rec_ptr[q]) /\ db.rec[rec_ptr[q]].magic = "free"
          /\ db.rec[rec_ptr[q]].len >= Size(call[q])
      BY <1>0, <1>4 DEF Hands
    <2>2. ~Mine(p, rec_ptr[q])
      BY <1>0, <1>4, <2>1 DEF Mine, Inv, Apart, Hands
    <2> QED
      BY <2>1, <2>2 DEF Respects
  <1>5. ASSUME pc[q] = "recover"
        PROVE  Loose(db', old[q]) /\ db'.rec[old[q]].magic = "used"
    <2>1. Loose(db, old[q]) /\ db.rec[old[q]].magic = "used"
      BY <1>0, <1>5 DEF Hands
    <2>2. ~Mine(p, old[q])
      BY <1>0, <1>5, <2>1 DEF Mine, Inv, Apart, Hands
    <2> QED
      BY <2>1, <2>2 DEF Respects
  <1>6. ASSUME Awaited(q) PROVE Vacant(db', call[q].key)
    <2> DEFINE k == call[q].key
    <2>1. call[q].type = "store" /\ k \in Key
      BY <1>0, <1>6, Requested DEF Awaited, Replacing, Types
    <2>2. Vacant(db, k)
      BY <1>0, <1>6 DEF Hands
    <2> SUFFICES ASSUME Storing(p), call[p].key = k, MayLock(p, Bucket(k)) PROVE k \in db.doubtful
      BY <2>1, <2>2 DEF Respects, Vacant
    <2>3. Placing(p)
      BY DEF Storing, Placing
    <2>4. CASE Replacing(q)
      <3>1. locked[q][Bucket(k)] > 0
        BY <1>0, <2>4 DEF Types, Control, Process
      <3>2. Bucket(k) \in Lists
        BY <2>1, Hashed
      <3> QED
        BY <1>0, <3>1, <3>2, OutOfReach
    <2>5. CASE pc[q] \in {"allocate", "insert"} /\ call[q].flag = "insert"
      <3>1. Placing(q) /\ Contends(q, p)
        BY <2>1, <2>3, <2>5 DEF Placing, Contends
      <3> QED
        BY <3>1 DEF Inv, Contests
    <2> QED
      BY <1>6, <2>4, <2>5 DEF Awaited
  <1>7. ASSUME Visiting(q) PROVE rec_ptr[q] = 0 \/ rec_ptr[q] \in OnList(db', chain[q])
    <2>1. locked[q][chain[q]] > 0 /\ chain[q] \in Buckets /\ chain[q] \in Lists
      BY <1>0, <1>7, FreeIsAList DEF Types, Control, Process
    <2>2. ~MayLock(p, chain[q])
      BY <1>0, <2>1, OutOfReach
    <2>3. db'.list[chain[q]] = db.list[chain[q]]
      BY <2>1, <2>2 DEF Respects
    <2> QED
      BY <1>0, <1>7, <2>3 DEF Hands, OnList
  <1> QED
    BY <1>1, <1>2, <1>3, <1>4, <1>5, <1>6, <1>7 DEF Hands

\* A store that is to place its record was about to do so, or finds who else
\* is when it looks for the key.
Enters(p) == Placing(p)' =>
    \/ Placing(p) /\ call'[p] = call[p]
    \/ /\ call'[p] = call[p]
       /\ \A q \in Proc : q # p /\ Contends(p, q) => call[p].key \in db'.doubtful

LEMMA ChecksEnter ==
    ASSUME Inv, NEW p \in Proc, StoreChecks(p)
    PROVE  Enters(p)
  <1>0. Types /\ Exclusive /\ pc \in [Proc -> PCs] /\ FileOK(db)
    BY DEF Inv, Types, Control
  <1>1. pc[p] = "store" /\ CanLock(p, Bucket(call[p].key)) /\ call' = call
    BY DEF StoreChecks, AtChain, StepLeaves
  <1>2. call[p].type = "store" /\ call[p].key \in Key
    BY <1>0, <1>1, Positions, Requested DEF Types
  <1>3. Bucket(call[p].key) \in Lists
    BY <1>2, Hashed
  <1> SUFFICES ASSUME Placing(p)', NEW q \in Proc, q # p, Contends(p, q)
               PROVE  call[p].key \in db'.doubtful
    BY <1>1 DEF Enters
  <1>4. pc'[p] # "idle"
    BY DEF Placing
  <1>5. ~Replacing(q)
    <2> SUFFICES ASSUME Replacing(q) PROVE FALSE
      OBVIOUS
    <2>1. locked[q][Bucket(call[p].key)] > 0
      BY <1>0 DEF Types, Control, Process, Contends
    <2> QED
      BY <1>1, <2>1 DEF CanLock
  <1>6. Contested(p)
    BY <1>5 DEF Contends, Contested, Placing, Replacing
  <1>7. db' = Doubted(db, call[p].key)
    BY <1>0, <1>4, <1>6 DEF StoreChecks, Returns, Goes
  <1> QED
    BY <1>0, <1>2, <1>7, Doubting

LEMMA AllEnter ==
    ASSUME Inv, NEW p \in Proc, Steps(p) \/ Application(p)
    PROVE  Enters(p)
  <1>0. Types /\ pc \in [Proc -> PCs] /\ call \in [Proc -> Request \cup {CloseCall}]
    BY DEF Inv, Types, Control
  <1>1. ASSUME pc'[p] \notin {"allocate", "insert", "recover", "link"} PROVE Enters(p)
    BY <1>1 DEF Enters, Placing
  <1>2. ASSUME call' = call, pc[p] \in {"allocate", "insert", "recover", "link"} PROVE Enters(p)
    BY <1>2 DEF Enters, Placing
  <1>3. ASSUME call' = call, call[p].type # "store" PROVE Enters(p)
    BY <1>3 DEF Enters, Placing
  <1>4. ASSUME Fetches(p) \/ Exists(p) PROVE Enters(p)
    <2>1. pc'[p] = "idle"
      BY <1>0, <1>4 DEF Fetches, Exists, Returns, Goes
    <2> QED
      BY <1>1, <2>1
  <1>5. ASSUME StoreAllocates(p) \/ StoreInserts(p) \/ StoreLinks(p) \/ Recovers(p) PROVE Enters(p)
    <2>1. call' = call /\ pc[p] \in {"allocate", "insert", "recover", "link"}
      BY <1>5 DEF StoreAllocates, StoreInserts, StoreLinks, Recovers, StepLeaves, AtChain
    <2> QED
      BY <1>2, <2>1
  <1>6. ASSUME Deletes(p) \/ TraverseLocks(p) \/ TraverseVisits(p) \/ TraverseEndsChain(p)
               \/ FirstKey(p) \/ NextKey(p) \/ NextChain(p)
        PROVE  Enters(p)
    <2>1. /\ call' = call
          /\ pc[p] \in {"delete", "traverse", "visit", "firstkey", "nextkey", "nextchain"}
      BY <1>6 DEF Deletes, TraverseLocks, TraverseVisits, TraverseEndsChain, FirstKey, NextKey, NextChain,
         StepLeaves, AtChain
    <2>2. call[p].type # "store"
      BY <1>0, <2>1, Positions DEF Types
    <2> QED
      BY <1>3, <2>1, <2>2
  <1>7. ASSUME NEW l \in Lists, LockChain(p, l) \/ UnlockChain(p, l) PROVE Enters(p)
    <2>1. pc'[p] = "idle"
      BY <1>7 DEF LockChain, UnlockChain, procVars
    <2> QED
      BY <1>1, <2>1
  <1>8. ASSUME NEW clear \in BOOLEAN, Open(p, clear) PROVE Enters(p)
    <2>1. pc'[p] = "idle"
      BY <1>0, <1>8 DEF Open
    <2> QED
      BY <1>1, <2>1
  <1>9. ASSUME Leave(p) PROVE Enters(p)
    <2>1. pc'[p] = "closed"
      BY <1>0, <1>9 DEF Leave
    <2> QED
      BY <1>1, <2>1
  <1>10. ASSUME NEW r \in Requests[p], Call(p, r) PROVE Enters(p)
    <2>1. pc'[p] = r.type
      BY <1>0, <1>10, ControlOfCall
    <2>2. r.type \in {"store", "fetch", "exists", "delete", "nextkey", "firstkey", "traverse"}
      <3>1. r \in Request
        BY TdbAssumption
      <3> QED
        BY <3>1 DEF Request
    <2> QED
      BY <1>1, <2>1, <2>2
  <1> QED
    BY <1>4, <1>5, <1>6, <1>7, <1>8, <1>9, <1>10, ChecksEnter DEF Steps, Application, Close, Dies

LEMMA InvKept ==
    ASSUME Inv, NEW p \in Proc, Steps(p) \/ Application(p),
           FileOK(db'), Hands(p)', Respects(p, db'), Grasps(p)
    PROVE  Inv'
  <1>0. Types /\ Exclusive
    BY DEF Inv, Types
  <1>1. Only(p) /\ Control' /\ Exclusive'
    BY <1>0, ControlStep
  <1>2. \A q \in Proc : Hands(q)'
    BY <1>1, OthersKeep
  <1>3. rec_ptr' \in [Proc -> Nat] /\ old' \in [Proc -> Nat]
    <2>1. {rec_ptr'[p], old'[p]} \subseteq Nat
      BY DEF Hands, FileOK, Shape
    <2> QED
      BY <1>0, <1>1, <2>1 DEF Types, Only
  <1>4. \A q \in Proc : q # p => /\ pc'[q] = pc[q] /\ call'[q] = call[q]
                                 /\ rec_ptr'[q] = rec_ptr[q] /\ old'[q] = old[q]
    BY <1>0, <1>1 DEF Types, Control, Only
  <1>5. \A q \in Proc : q # p => /\ Storing(q)' <=> Storing(q)
                                 /\ Storing(q) => Loose(db, rec_ptr[q])
                                 /\ pc[q] = "recover" => Loose(db, old[q])
    BY <1>4 DEF Storing, Inv, Hands
  <1>6. ASSUME NEW q \in Proc, q # p
        PROVE  /\ Storing(p)' /\ Storing(q)' => rec_ptr'[p] # rec_ptr'[q]
               /\ pc'[p] = "recover" /\ pc'[q] = "recover" => old'[p] # old'[q]
    BY <1>4, <1>5, <1>6 DEF Grasps, Inv, Apart
  <1>7. ASSUME NEW q \in Proc, NEW s \in Proc, q # s
        PROVE  /\ Storing(q)' /\ Storing(s)' => rec_ptr'[q] # rec_ptr'[s]
               /\ pc'[q] = "recover" /\ pc'[s] = "recover" => old'[q] # old'[s]
    BY <1>4, <1>5, <1>6, <1>7 DEF Inv, Apart
  <1>8. Contests'
    <2>1. Enters(p) /\ db.doubtful \subseteq db'.doubtful
      BY AllEnter DEF Respects
    <2>2. \A q \in Proc : q # p => (Placing(q)' <=> Placing(q))
      BY <1>4 DEF Placing
    <2>3. ASSUME NEW q \in Proc, q # p, Placing(p)', Contends(p, q)'
          PROVE  call'[p].key \in db'.doubtful
      <3>1. call'[p] = call[p] /\ (Placing(p) \/ (Contends(p, q) => call[p].key \in db'.doubtful))
        BY <2>1, <2>3 DEF Enters
      <3>2. Contends(p, q)
        BY <1>4, <2>2, <2>3, <3>1 DEF Contends
      <3> QED
        BY <2>1, <2>3, <3>1, <3>2 DEF Inv, Contests
    <2>4. ASSUME NEW q \in Proc, NEW s \in Proc, q # s, q # p, s # p, Placing(q)', Contends(q, s)'
          PROVE  call'[q].key \in db'.doubtful
      <3>1. Placing(q) /\ Contends(q, s)
        BY <1>4, <2>2, <2>4 DEF Contends
      <3> QED
        BY <1>4, <2>1, <2>4, <3>1 DEF Inv, Contests
    <2>5. ASSUME NEW q \in Proc, q # p, Placing(q)', Contends(q, p)'
          PROVE  call'[q].key \in db'.doubtful
      <3>1. Placing(p)' /\ Contends(p, q)' /\ call'[p].key = call'[q].key
        BY <2>5 DEF Contends
      <3> QED
        BY <2>3, <2>5, <3>1
    <2> QED
      BY <2>3, <2>4, <2>5 DEF Contests
  <1> QED
    BY <1>1, <1>2, <1>3, <1>7, <1>8 DEF Inv, Apart

\* No record ends elsewhere, as far as the file went.
Grows(e) == db.size <= e.size /\ \A m \in Nat : m <= db.size /\ Bounded(db, m) => Bounded(e, m)

LEMMA SameRespects ==
    ASSUME Inv, NEW p \in Proc
    PROVE  Respects(p, db) /\ Grows(db)
  BY DEF Respects, KeysKept, Grows, Inv, FileOK, Shape

LEMMA SameEnds ==
    ASSUME Inv, NEW e, e.size = db.size, DOMAIN e.rec = DOMAIN db.rec,
           \A o \in DOMAIN db.rec : e.rec[o].len = db.rec[o].len
    PROVE  Grows(e)
  <1>1. \A o \in DOMAIN db.rec : EndIn(e, o) = EndIn(db, o)
    BY DEF EndIn
  <1>2. \A m \in Nat : Bounded(db, m) => Bounded(e, m)
    BY <1>1 DEF Bounded
  <1> QED
    BY <1>2 DEF Grows, Inv, FileOK, Shape

\* A key comes in doubt, or a record is lost.
Noting(e) ==
    /\ FileOK(e) /\ e.size = db.size /\ e.list = db.list /\ e.rec = db.rec
    /\ db.doubtful \subseteq e.doubtful /\ db.lost \subseteq e.lost

LEMMA NotingRespects ==
    ASSUME Inv, NEW p \in Proc, NEW e, Noting(e)
    PROVE  /\ FileOK(e) /\ Respects(p, e) /\ Grows(e)
           /\ \A o : Loose(e, o) <=> Loose(db, o)
           /\ \A l \in Lists : OnList(e, l) = OnList(db, l)
           /\ \A k \in Key : OnChain(e, k) <=> OnChain(db, k)
  <1>1. \A l \in Lists : OnList(e, l) = OnList(db, l)
    BY DEF Noting, OnList
  <1>2. \A o : Loose(e, o) <=> Loose(db, o)
    BY <1>1 DEF Noting, Loose
  <1>3. \A k \in Key : OnChain(e, k) <=> OnChain(db, k)
    BY <1>1, Hashed DEF Noting, OnChain
  <1>4. Grows(e)
    BY SameEnds DEF Noting
  <1>5. Respects(p, e)
    BY <1>2, <1>3 DEF Noting, Respects, KeysKept
  <1> QED
    BY <1>1, <1>2, <1>3, <1>4, <1>5 DEF Noting

LEMMA UnlinkRespects ==
    ASSUME Inv, NEW p \in Proc, NEW k \in Key, OnChain(db, k), MayLock(p, Bucket(k))
    PROVE  LET e == Unlinked(db, k)
           IN /\ FileOK(e) /\ Respects(p, e) /\ Grows(e) /\ DOMAIN e.rec = DOMAIN db.rec
              /\ \A o : Loose(e, o) => Loose(db, o) \/ o = RecordOf(db, k)
  <1> DEFINE e == Unlinked(db, k)
             r == RecordOf(db, k)
             b == Bucket(k)
  <1>1. /\ FileOK(e) /\ e.size = db.size /\ e.rec = db.rec /\ r \in OnList(db, b)
        /\ e.doubtful = db.doubtful /\ e.lost = db.lost
        /\ OnList(e, b) = OnList(db, b) \ {r}
        /\ \A l \in Lists : l # b => e.list[l] = db.list[l]
    BY Unlinks DEF Inv
  <1>2. b \in Lists /\ b \in Buckets
    BY Hashed
  <1> HIDE DEF e, r
  <1>3. \A l \in Lists : OnList(e, l) \subseteq OnList(db, l)
    BY <1>1 DEF OnList
  <1>4. \A o : Loose(db, o) => Loose(e, o) /\ e.rec[o] = db.rec[o]
    BY <1>1, <1>3 DEF Loose
  <1>5. \A a \in Buckets : ~MayLock(p, a) => e.list[a] = db.list[a]
    BY <1>1, FreeIsAList
  <1>6. \A j \in Key : OnChain(e, j) => OnChain(db, j)
    BY <1>1, <1>3, Hashed DEF OnChain
  <1>7. Respects(p, e)
    BY <1>1, <1>4, <1>5, <1>6 DEF Respects, KeysKept
  <1>8. Grows(e)
    BY <1>1, SameEnds
  <1>9. \A o : Loose(e, o) => Loose(db, o) \/ o = r
    <2>1. \A l \in Lists : \A o \in OnList(db, l) : o # r => o \in OnList(e, l)
      BY <1>1 DEF OnList
    <2> QED
      BY <1>1, <2>1 DEF Loose
  <1> QED
    BY <1>1, <1>7, <1>8, <1>9 DEF e, r

LEMMA FreeRespects ==
    ASSUME Inv, NEW p \in Proc, pc[p] = "recover"
    PROVE  LET e == Freed(db, old[p])
           IN /\ FileOK(e) /\ Respects(p, e) /\ Grows(e) /\ DOMAIN e.rec = DOMAIN db.rec
              /\ \A o : Loose(e, o) => Loose(db, o) /\ o # old[p]
              /\ \A o \in DOMAIN db.rec : o # old[p] => e.rec[o] = db.rec[o]
              /\ \A k \in Key : OnChain(e, k) => OnChain(db, k)
              /\ \A b \in Buckets : e.list[b] = db.list[b]
              /\ e.doubtful = db.doubtful
  <1> DEFINE r == old[p]
             e == Freed(db, r)
  <1>1. Loose(db, r)
    BY DEF Inv, Hands
  <1>2. /\ FileOK(e) /\ e.size = db.size /\ DOMAIN e.rec = DOMAIN db.rec
        /\ \A o \in DOMAIN db.rec : o # r => e.rec[o] = db.rec[o]
        /\ e.rec[r].len = db.rec[r].len
        /\ e.doubtful = db.doubtful /\ e.lost = db.lost
        /\ OnList(e, Free) = OnList(db, Free) \cup {r}
        /\ \A l \in Lists : l # Free => e.list[l] = db.list[l]
    <2>1. FileOK(db)
      BY DEF Inv
    <2> HIDE DEF r
    <2> QED
      BY <1>1, <2>1, Frees
  <1> HIDE DEF e, r
  <1>3. \A l \in Lists : \A o \in OnList(e, l) : o # r => o \in OnList(db, l)
    BY <1>2 DEF OnList
  <1>4. \A o : Loose(db, o) /\ o # r => Loose(e, o) /\ e.rec[o] = db.rec[o]
    BY <1>2, <1>3 DEF Loose
  <1>5. \A a \in Buckets : e.list[a] = db.list[a] /\ OnList(e, a) = OnList(db, a) /\ a \in Lists
    BY <1>2, FreeIsAList DEF OnList
  <1>6. \A a \in Buckets : OnList(db, a) \subseteq DOMAIN db.rec /\ r \notin OnList(db, a)
    BY <1>1, <1>5 DEF OnList, Range, Loose, Inv, FileOK, Shape
  <1>7. \A j \in Key : OnChain(e, j) => OnChain(db, j)
    BY <1>2, <1>5, <1>6, Hashed DEF OnChain
  <1>8. \A o : ~Mine(p, o) => o # r
    BY DEF Mine, r
  <1>9. Respects(p, e)
    <2>1. KeysKept(e)
      BY <1>2, <1>6 DEF KeysKept
    <2> QED
      BY <1>2, <1>4, <1>5, <1>7, <1>8, <2>1 DEF Respects
  <1>10. Grows(e)
    BY <1>2, SameEnds
  <1>11. \A o : Loose(e, o) => Loose(db, o) /\ o # r
    <2>1. \A l \in Lists : OnList(db, l) \subseteq OnList(e, l)
      BY <1>2 DEF OnList
    <2> QED
      BY <1>2, <2>1, FreeIsAList DEF Loose
  <1> QED
    BY <1>2, <1>5, <1>7, <1>9, <1>10, <1>11 DEF e, r

LEMMA LinkRespects ==
    ASSUME Inv, NEW p \in Proc, Storing(p), MayLock(p, Bucket(call[p].key)),
           NEW d, d = db \/ d = Doubted(db, call[p].key), Vacant(d, call[p].key)
    PROVE  LET e == Linked(d, rec_ptr[p], call[p].key, call[p].val)
           IN /\ FileOK(e) /\ Respects(p, e) /\ Grows(e) /\ DOMAIN e.rec = DOMAIN db.rec
              /\ \A o : Loose(e, o) => Loose(db, o) /\ o # rec_ptr[p]
  <1> DEFINE r == rec_ptr[p]
             k == call[p].key
             v == call[p].val
             b == Bucket(k)
             e == Linked(d, r, k, v)
  <1>1. /\ Loose(db, r) /\ db.rec[r].len >= Size(call[p])
    BY DEF Inv, Hands
  <1>2. call[p].type = "store" /\ k \in Key /\ v \in Value
    BY Requested DEF Inv, Storing
  <1>3. KeyLen[k] + DataLen[v] <= db.rec[r].len
    <2>1. KeyLen[k] \in Nat /\ DataLen[v] \in Nat
      BY <1>2, TdbAssumption
    <2>2. db.rec[r].len \in Nat
      BY <1>1 DEF Loose, Inv, FileOK, Shape, Record
    <2> QED
      BY <1>1, <2>1, <2>2 DEF Size
  <1>4. /\ FileOK(e) /\ e.size = db.size /\ DOMAIN e.rec = DOMAIN db.rec /\ e.rec[r].len = db.rec[r].len
        /\ \A o \in DOMAIN db.rec : o # r => e.rec[o] = db.rec[o]
        /\ e.rec[r].key = k
        /\ OnList(e, b) = OnList(db, b) \cup {r}
        /\ \A l \in Lists : l # b => e.list[l] = db.list[l]
        /\ db.doubtful \subseteq e.doubtful /\ db.lost \subseteq e.lost
    <2>1. /\ FileOK(d) /\ d.size = db.size /\ d.list = db.list /\ d.rec = db.rec
          /\ db.doubtful \subseteq d.doubtful /\ d.lost = db.lost
      BY <1>2, Doubting DEF Inv
    <2>2. Vacant(d, k)
      OBVIOUS
    <2> HIDE DEF k, v, r
    <2>3. Loose(d, r) /\ KeyLen[k] + DataLen[v] <= d.rec[r].len /\ OnList(d, b) = OnList(db, b)
      BY <1>1, <1>3, <2>1 DEF Loose, OnList
    <2> QED
      BY <1>2, <2>1, <2>2, <2>3, Links
  <1>5. b \in Lists /\ b \in Buckets
    BY <1>2, Hashed
  <1> HIDE DEF e, r, k, v
  <1>6. \A l \in Lists : \A o \in OnList(e, l) : o # r => o \in OnList(db, l)
    BY <1>4 DEF OnList
  <1>7. \A o : Loose(db, o) /\ o # r => Loose(e, o) /\ e.rec[o] = db.rec[o]
    BY <1>4, <1>6 DEF Loose
  <1>8. \A a \in Buckets : ~MayLock(p, a) => e.list[a] = db.list[a]
    BY <1>4, FreeIsAList DEF k
  <1>9. \A a \in Buckets : OnList(db, a) \subseteq DOMAIN db.rec
    BY FreeIsAList DEF OnList, Range, Inv, FileOK, Shape
  <1>10. \A j \in Key : OnChain(e, j) => OnChain(db, j) \/ j = k
    <2> SUFFICES ASSUME NEW j \in Key, OnChain(e, j), j # k PROVE OnChain(db, j)
      OBVIOUS
    <2>1. PICK o \in OnList(e, Bucket(j)) : e.rec[o].key = j
      BY DEF OnChain
    <2>2. Bucket(j) \in Buckets /\ Bucket(j) \in Lists
      BY Hashed
    <2>3. o # r
      BY <1>4, <2>1
    <2>4. o \in OnList(db, Bucket(j)) /\ e.rec[o] = db.rec[o]
      BY <1>4, <1>6, <1>9, <2>1, <2>2, <2>3
    <2> QED
      BY <2>1, <2>4 DEF OnChain
  <1>11. \A o : ~Mine(p, o) => o # r
    BY DEF Mine, r
  <1>12. Respects(p, e)
    <2>1. \A a \in Buckets : r \notin OnList(db, a)
      BY <1>1, FreeIsAList DEF Loose
    <2>2. KeysKept(e)
      BY <1>4, <1>9, <2>1 DEF KeysKept
    <2> QED
      BY <1>4, <1>7, <1>8, <1>10, <1>11, <2>2 DEF Respects, k
  <1>13. Grows(e)
    BY <1>4, SameEnds
  <1>14. \A o : Loose(e, o) => Loose(db, o) /\ o # r
    <2>1. \A l \in Lists : OnList(db, l) \subseteq OnList(e, l)
      BY <1>4 DEF OnList
    <2> QED
      BY <1>4, <1>5, <2>1 DEF Loose
  <1> QED
    BY <1>4, <1>12, <1>13, <1>14 DEF e, r, k, v

LEMMA UpdateRespects ==
    ASSUME Inv, NEW p \in Proc, NEW k \in Key, NEW v \in Value, OnChain(db, k),
           KeyLen[k] + DataLen[v] <= db.rec[RecordOf(db, k)].len
    PROVE  LET e == [db EXCEPT !.rec[RecordOf(db, k)].val = v]
           IN /\ FileOK(e) /\ Respects(p, e) /\ Grows(e) /\ DOMAIN e.rec = DOMAIN db.rec
              /\ \A o : Loose(e, o) => Loose(db, o)
  <1> DEFINE r == RecordOf(db, k)
             e == [db EXCEPT !.rec[RecordOf(db, k)].val = v]
             b == Bucket(k)
  <1>1. /\ FileOK(e) /\ e.size = db.size /\ e.list = db.list /\ DOMAIN e.rec = DOMAIN db.rec
        /\ e.rec[r].len = db.rec[r].len
        /\ r \in OnList(db, b) /\ e.rec[r].key = k /\ db.rec[r].key = k
        /\ e.doubtful = db.doubtful /\ e.lost = db.lost
        /\ \A o \in DOMAIN db.rec : o # r => e.rec[o] = db.rec[o]
    BY Updates DEF Inv
  <1>2. b \in Lists
    BY Hashed
  <1> HIDE DEF e, r
  <1>3. \A l \in Lists : OnList(e, l) = OnList(db, l)
    BY <1>1 DEF OnList
  <1>4. \A o : Loose(db, o) => Loose(e, o) /\ e.rec[o] = db.rec[o]
    BY <1>1, <1>2, <1>3 DEF Loose
  <1>5. \A l \in Lists : OnList(db, l) \subseteq DOMAIN db.rec
    BY DEF OnList, Range, Inv, FileOK, Shape
  <1>6. \A j \in Key : OnChain(e, j) => OnChain(db, j)
    BY <1>1, <1>3, <1>5, Hashed DEF OnChain
  <1>7. Respects(p, e)
    <2>1. KeysKept(e)
      BY <1>1, <1>5, FreeIsAList DEF KeysKept
    <2> QED
      BY <1>1, <1>4, <1>6, <2>1 DEF Respects
  <1>8. Grows(e)
    BY <1>1, SameEnds
  <1>9. \A o : Loose(e, o) => Loose(db, o)
    BY <1>1, <1>3 DEF Loose
  <1> QED
    BY <1>1, <1>7, <1>8, <1>9 DEF e

LEMMA ProvisionRespects ==
    ASSUME Inv, NEW p \in Proc, NEW e, NEW r, NEW n \in Nat, Provision(db, e, r, n)
    PROVE  /\ FileOK(e) /\ Respects(p, e) /\ Grows(e) /\ ~Loose(db, r)
           /\ \A o : Loose(e, o) => Loose(db, o) \/ o = r
           /\ \A k \in Key : OnChain(e, k) => OnChain(db, k)
           /\ e.doubtful = db.doubtful
  <1>1. /\ DOMAIN db.rec \subseteq DOMAIN e.rec
        /\ r \in DOMAIN db.rec => r \in OnList(db, Free)
        /\ \A o \in DOMAIN db.rec : o # r => e.rec[o] = db.rec[o]
        /\ \A l \in Lists : l # Free => e.list[l] = db.list[l]
        /\ OnList(e, Free) \cap DOMAIN db.rec \subseteq OnList(db, Free) \ {r}
        /\ e.doubtful = db.doubtful /\ e.lost = db.lost
    BY DEF Provision
  <1>2. ~Loose(db, r)
    BY <1>1, FreeIsAList DEF Loose
  <1>3. \A l \in Lists : OnList(e, l) \cap DOMAIN db.rec \subseteq OnList(db, l)
    BY <1>1 DEF OnList
  <1>4. \A o : Loose(db, o) => Loose(e, o) /\ e.rec[o] = db.rec[o]
    BY <1>1, <1>2, <1>3 DEF Loose
  <1>5. \A b \in Buckets : e.list[b] = db.list[b] /\ OnList(e, b) = OnList(db, b) /\ b \in Lists
    BY <1>1, FreeIsAList DEF OnList
  <1>6. \A b \in Buckets : OnList(db, b) \subseteq DOMAIN db.rec /\ r \notin OnList(db, b)
    <2>1. \A l \in Lists : OnList(db, l) \subseteq DOMAIN db.rec
      BY DEF OnList, Range, Inv, FileOK, Shape
    <2> QED
      BY <1>1, <2>1, FreeIsAList DEF Inv, FileOK, Sorted
  <1>7. \A j \in Key : OnChain(e, j) => OnChain(db, j)
    BY <1>1, <1>5, <1>6, Hashed DEF OnChain
  <1>8. Respects(p, e)
    <2>1. KeysKept(e)
      BY <1>1, <1>6 DEF KeysKept
    <2> QED
      BY <1>1, <1>2, <1>4, <1>5, <1>7, <2>1 DEF Respects
  <1>9. Grows(e)
    BY DEF Provision, Grows, Bounded
  <1>10. \A o : Loose(e, o) => Loose(db, o) \/ o = r
    <2>1. DOMAIN e.rec \subseteq DOMAIN db.rec \cup OnList(e, Free) \cup {r} /\ OnList(db, Free) \ {r} \subseteq OnList(e, Free)
      BY DEF Provision
    <2>2. \A l \in Lists : OnList(db, l) \ {r} \subseteq OnList(e, l)
      BY <1>1, <2>1 DEF OnList
    <2> QED
      BY <2>1, <2>2, FreeIsAList DEF Loose
  <1> QED
    BY <1>1, <1>2, <1>7, <1>8, <1>9, <1>10 DEF Provision

-----------------------------------------------------------------------------
(***************************************************************************)
(* Every step is a good one.                                               *)
(***************************************************************************)
\* Of the records on no list, p has those in its hands that it had before and
\* did not put on one or lose, and those that it took from one.
Accounts(p) ==
    \A o : Loose(db', o) => o \in db'.lost \/ Mine(p, o)' \/ (Loose(db, o) /\ ~Mine(p, o))

Good(p) ==
    /\ FileOK(db') /\ Hands(p)' /\ Respects(p, db') /\ Grasps(p) /\ Grows(db')
    /\ crashes' = crashes => Accounts(p)

\* The step of a process that changes no record and has, before and after,
\* nothing in its hands
LEMMA LooksOnly ==
    ASSUME Inv, NEW p \in Proc, Noting(db'), pc[p] \notin {"insert", "recover", "link"},
           pc'[p] \notin {"insert", "recover", "link"},
           {rec_ptr'[p], old'[p]} \subseteq DOMAIN db.rec \cup {0},
           pc'[p] = "closed" => rec_ptr'[p] = 0 /\ old'[p] = 0,
           Awaited(p)' => Vacant(db', call'[p].key),
           Visiting(p)' => rec_ptr'[p] = 0 \/ rec_ptr'[p] \in OnList(db', chain'[p])
    PROVE  Good(p)
  <1>1. ~Storing(p) /\ ~Storing(p)' /\ \A o : ~Mine(p, o)
    BY DEF Storing, Mine
  <1>2. Hands(p)'
    BY <1>1 DEF Hands, Noting
  <1>3. FileOK(db') /\ Respects(p, db') /\ Grows(db') /\ \A o : Loose(db', o) <=> Loose(db, o)
    BY NotingRespects
  <1>4. Grasps(p) /\ Accounts(p)
    BY <1>1, <1>3 DEF Grasps, Accounts
  <1> QED
    BY <1>2, <1>3, <1>4 DEF Good

LEMMA SameNoting == Inv /\ db' = db => Noting(db')
  BY DEF Inv, Noting

LEMMA GoodLookups ==
    ASSUME Inv, NEW p \in Proc, Fetches(p) \/ Exists(p) \/ FirstKey(p) \/ NextKey(p) \/ NextChain(p)
    PROVE  Good(p)
  <1>0. Types /\ pc \in [Proc -> PCs]
    BY DEF Inv, Types, Control
  <1>1. db' = db /\ rec_ptr' = rec_ptr /\ old' = old
    BY DEF Fetches, Exists, FirstKey, NextKey, NextChain
  <1>2. /\ pc[p] \in {"fetch", "exists", "firstkey", "nextkey", "nextchain"}
        /\ pc'[p] \in {"idle", "firstkey", "nextchain"}
    BY <1>0 DEF Fetches, Exists, FirstKey, NextKey, NextChain, AtChain, Returns, Goes
  <1>3. ~Awaited(p)' /\ ~Visiting(p)'
    BY <1>2 DEF Awaited, Visiting, Replacing
  <1>4. {rec_ptr[p], old[p]} \subseteq DOMAIN db.rec \cup {0}
    BY DEF Inv, Hands
  <1> QED
    BY <1>1, <1>2, <1>3, <1>4, SameNoting, LooksOnly

LEMMA GoodChecks ==
    ASSUME Inv, NEW p \in Proc, StoreChecks(p)
    PROVE  Good(p)
  <1> DEFINE k == call[p].key
             v == call[p].val
             f == call[p].flag
             o == RecordOf(db, k)
  <1>0. Types /\ pc \in [Proc -> PCs] /\ FileOK(db)
    BY DEF Inv, Types, Control
  <1>1. /\ pc[p] = "store" /\ rec_ptr' = rec_ptr /\ old' = old /\ call' = call
    BY DEF StoreChecks, AtChain, StepLeaves
  <1>2. call[p].type = "store" /\ k \in Key /\ v \in Value /\ f \in {"replace", "insert"}
    BY <1>0, <1>1, Positions, Requested DEF Types
  <1>3. {rec_ptr[p], old[p]} \subseteq DOMAIN db.rec \cup {0}
    BY DEF Inv, Hands
  <1>4. \/ db' = db /\ pc' = [pc EXCEPT ![p] = "idle"]
        \/ /\ f = "replace" /\ Found(db, k) /\ db.rec[o].len >= Size(call[p])
           /\ db' = [db EXCEPT !.rec[o].val = v] /\ pc' = [pc EXCEPT ![p] = "idle"]
        \/ /\ db' = Doubted(db, k) \/ (db' = db /\ ~(f = "insert" /\ Found(db, k)))
           /\ pc' = [pc EXCEPT ![p] = "allocate"]
    BY DEF StoreChecks, Returns, Goes
  <1>5. CASE db' = db /\ pc' = [pc EXCEPT ![p] = "idle"]
    <2>1. pc'[p] = "idle"
      BY <1>0, <1>5
    <2>2. ~Awaited(p)' /\ ~Visiting(p)'
      BY <2>1 DEF Awaited, Visiting, Replacing
    <2> QED
      BY <1>1, <1>3, <1>5, <2>1, <2>2, SameNoting, LooksOnly
  <1>6. CASE /\ db' = Doubted(db, k) \/ (db' = db /\ ~(f = "insert" /\ Found(db, k)))
             /\ pc' = [pc EXCEPT ![p] = "allocate"]
    <2>1. pc'[p] = "allocate"
      BY <1>0, <1>6
    <2>2. ~Visiting(p)' /\ (Awaited(p)' => f = "insert")
      BY <1>1, <2>1 DEF Awaited, Visiting, Replacing
    <2>3. CASE db' = Doubted(db, k)
      <3>1. Noting(db') /\ k \in db'.doubtful
        BY <1>0, <1>2, <2>3, Doubting DEF Noting
      <3> QED
        BY <1>1, <1>3, <2>1, <2>2, <3>1, LooksOnly DEF Vacant
    <2>4. CASE db' = db /\ ~(f = "insert" /\ Found(db, k))
      <3>1. Awaited(p)' => ~OnChain(db, k)
        BY <1>0, <1>2, <2>2, <2>4, Finds
      <3> QED
        BY <1>1, <1>3, <2>1, <2>2, <2>4, <3>1, SameNoting, LooksOnly DEF Vacant
    <2> QED
      BY <1>6, <2>3, <2>4
  <1>7. CASE /\ f = "replace" /\ Found(db, k) /\ db.rec[o].len >= Size(call[p])
             /\ db' = [db EXCEPT !.rec[o].val = v] /\ pc' = [pc EXCEPT ![p] = "idle"]
    <2>1. OnChain(db, k) /\ o \in OnList(db, Bucket(k)) /\ o \in DOMAIN db.rec
      <3>1. OnChain(db, k) /\ o \in OnList(db, Bucket(k))
        BY <1>0, <1>2, <1>7, Finds
      <3>2. OnList(db, Bucket(k)) \subseteq DOMAIN db.rec
        BY <1>0, <1>2, Hashed DEF FileOK, Shape, OnList, Range
      <3> QED
        BY <3>1, <3>2
    <2>2. KeyLen[k] + DataLen[v] <= db.rec[o].len
      <3>1. KeyLen[k] \in Nat /\ DataLen[v] \in Nat
        BY <1>2, TdbAssumption
      <3>2. db.rec[o].len \in Nat
        BY <1>0, <2>1 DEF FileOK, Shape, Record
      <3> QED
        BY <1>7, <3>1, <3>2 DEF Size
    <2>3. /\ FileOK(db') /\ Respects(p, db') /\ Grows(db') /\ DOMAIN db'.rec = DOMAIN db.rec
          /\ \A x : Loose(db', x) => Loose(db, x)
      <3> HIDE DEF k, v
      <3> QED
        BY <1>2, <1>7, <2>1, <2>2, UpdateRespects
    <2>4. pc'[p] = "idle"
      BY <1>0, <1>7
    <2>5. ~Awaited(p)' /\ ~Visiting(p)' /\ ~Storing(p)' /\ ~Storing(p) /\ \A x : ~Mine(p, x)
      BY <1>1, <2>4 DEF Awaited, Visiting, Replacing, Storing, Mine
    <2>6. Hands(p)'
      BY <1>1, <1>3, <2>3, <2>4, <2>5 DEF Hands
    <2>7. Grasps(p) /\ Accounts(p)
      BY <2>3, <2>4, <2>5 DEF Grasps, Accounts
    <2> QED
      BY <2>3, <2>6, <2>7 DEF Good
  <1> QED
    BY <1>4, <1>5, <1>6, <1>7

LEMMA GoodAllocation ==
    ASSUME Inv, NEW p \in Proc, StoreAllocates(p)
    PROVE  Good(p)
  <1> DEFINE n == Size(call[p])
             fits == FirstFit(db, n) # 0
             grown == Expanded(db, n + Hdr)
             a == Allocated(IF fits THEN db ELSE grown, n)
  <1>0. Types /\ pc \in [Proc -> PCs] /\ FileOK(db) /\ rec_ptr \in [Proc -> Nat]
    BY DEF Inv, Types, Control
  <1>1. pc[p] = "allocate" /\ old' = old /\ call' = call
    BY DEF StoreAllocates, StepLeaves
  <1>2. call[p].type = "store" /\ call[p].key \in Key /\ n \in Nat
    BY <1>0, <1>1, Positions, Requested DEF Types
  <1>3. {rec_ptr[p], old[p]} \subseteq DOMAIN db.rec \cup {0}
    BY DEF Inv, Hands
  <1>4. Provision(db, a.file, a.ptr, n)
    BY <1>0, <1>2, Provides
  <1> HIDE DEF a
  <1>5. \/ db' = a.file /\ rec_ptr' = [rec_ptr EXCEPT ![p] = a.ptr] /\ pc' = [pc EXCEPT ![p] = "insert"]
        \/ db' = db /\ rec_ptr' = rec_ptr /\ pc' = [pc EXCEPT ![p] = "idle"]
    BY DEF StoreAllocates, Returns, Goes, a
  <1>6. CASE db' = db /\ rec_ptr' = rec_ptr /\ pc' = [pc EXCEPT ![p] = "idle"]
    <2>1. pc'[p] = "idle"
      BY <1>0, <1>6
    <2>2. ~Awaited(p)' /\ ~Visiting(p)'
      BY <2>1 DEF Awaited, Visiting, Replacing
    <2> QED
      BY <1>1, <1>3, <1>6, <2>1, <2>2, SameNoting, LooksOnly
  <1>7. CASE db' = a.file /\ rec_ptr' = [rec_ptr EXCEPT ![p] = a.ptr] /\ pc' = [pc EXCEPT ![p] = "insert"]
    <2>1. /\ FileOK(db') /\ Respects(p, db') /\ Grows(db') /\ ~Loose(db, a.ptr)
          /\ \A o : Loose(db', o) => Loose(db, o) \/ o = a.ptr
          /\ \A k \in Key : OnChain(db', k) => OnChain(db, k)
          /\ db'.doubtful = db.doubtful
      BY <1>2, <1>4, <1>7, ProvisionRespects
    <2>2. pc'[p] = "insert" /\ rec_ptr'[p] = a.ptr
      BY <1>0, <1>7
    <2>3. /\ Loose(db', a.ptr) /\ db'.rec[a.ptr].magic = "free" /\ db'.rec[a.ptr].len >= n
          /\ DOMAIN db.rec \subseteq DOMAIN db'.rec /\ a.ptr \in DOMAIN db'.rec
      BY <1>4, <1>7 DEF Provision, Loose
    <2>4. Storing(p)' /\ ~Storing(p) /\ ~Visiting(p)' /\ (Awaited(p)' => Awaited(p)) /\ \A o : ~Mine(p, o)
      BY <1>1, <1>2, <2>2 DEF Storing, Visiting, Awaited, Replacing, Mine
    <2>5. Awaited(p)' => Vacant(db', call'[p].key)
      <3>1. Awaited(p) => Vacant(db, call[p].key)
        BY DEF Inv, Hands
      <3> QED
        BY <1>1, <1>2, <2>1, <2>4, <3>1 DEF Vacant
    <2>6. Hands(p)'
      BY <1>1, <1>3, <2>2, <2>3, <2>4, <2>5 DEF Hands
    <2>7. Grasps(p)
      BY <2>1, <2>2, <2>4 DEF Grasps
    <2>8. Accounts(p)
      <3>1. \A o : o = a.ptr => Mine(p, o)'
        BY <2>2, <2>4 DEF Mine
      <3> QED
        BY <2>1, <2>4, <3>1 DEF Accounts
    <2> QED
      BY <2>1, <2>6, <2>7, <2>8 DEF Good
  <1> QED
    BY <1>5, <1>6, <1>7

\* A step that takes the record of a key from its chain
LEMMA GoodUnlink ==
    ASSUME Inv, NEW p \in Proc, NEW k \in Key, OnChain(db, k), MayLock(p, Bucket(k)),
           db' = Unlinked(db, k), old'[p] = RecordOf(db, k), pc'[p] = "recover", pc[p] # "recover",
           Storing(p)' <=> Storing(p), Storing(p) => rec_ptr'[p] = rec_ptr[p] /\ call'[p] = call[p],
           rec_ptr'[p] \in DOMAIN db.rec \cup {0},
           Awaited(p)' => call'[p].key = k,
           Visiting(p)' => rec_ptr'[p] = 0 \/ (rec_ptr'[p] \in OnList(db, chain'[p]) /\ chain'[p] \in Buckets
                                              /\ rec_ptr'[p] # RecordOf(db, k))
    PROVE  Good(p)
  <1> DEFINE r == RecordOf(db, k)
  <1>1. /\ FileOK(db') /\ Respects(p, db') /\ Grows(db') /\ DOMAIN db'.rec = DOMAIN db.rec
        /\ \A o : Loose(db', o) => Loose(db, o) \/ o = r
    BY UnlinkRespects
  <1>2. /\ db'.rec = db.rec /\ r \in OnList(db, Bucket(k)) /\ InUse(db, r)
        /\ OnList(db', Bucket(k)) = OnList(db, Bucket(k)) \ {r}
        /\ \A l \in Lists : l # Bucket(k) => db'.list[l] = db.list[l]
        /\ Vacant(db', k) /\ Loose(db', r)
    BY Unlinks DEF Inv
  <1> HIDE DEF r
  <1>3. old'[p] = r
    BY DEF r
  <1>4. ~Loose(db, r)
    BY <1>2, Hashed DEF Loose
  <1>5. Storing(p)' => /\ Loose(db', rec_ptr'[p]) /\ db'.rec[rec_ptr'[p]].magic = "free"
                       /\ db'.rec[rec_ptr'[p]].len >= Size(call'[p])
    <2> SUFFICES ASSUME Storing(p)
                 PROVE  /\ Loose(db', rec_ptr[p]) /\ db'.rec[rec_ptr[p]].magic = "free"
                        /\ db'.rec[rec_ptr[p]].len >= Size(call[p])
      OBVIOUS
    <2>1. /\ Loose(db, rec_ptr[p]) /\ db.rec[rec_ptr[p]].magic = "free"
          /\ db.rec[rec_ptr[p]].len >= Size(call[p])
      BY DEF Inv, Hands
    <2>2. \A l \in Lists : OnList(db', l) \subseteq OnList(db, l)
      BY <1>2 DEF OnList
    <2> QED
      BY <1>2, <2>1, <2>2 DEF Loose
  <1>6. Visiting(p)' => rec_ptr'[p] = 0 \/ rec_ptr'[p] \in OnList(db', chain'[p])
    <2> SUFFICES ASSUME Visiting(p)', rec_ptr'[p] # 0 PROVE rec_ptr'[p] \in OnList(db', chain'[p])
      OBVIOUS
    <2>1. rec_ptr'[p] \in OnList(db, chain'[p]) /\ chain'[p] \in Lists /\ rec_ptr'[p] # r
      BY FreeIsAList DEF r
    <2> QED
      BY <1>2, <2>1 DEF OnList
  <1>7. r \in DOMAIN db.rec
    BY <1>1, <1>2 DEF Loose
  <1>8. Hands(p)'
    <2>1. {rec_ptr'[p], old'[p]} \subseteq DOMAIN db'.rec \cup {0}
      BY <1>1, <1>3, <1>7
    <2>2. Loose(db', old'[p]) /\ db'.rec[old'[p]].magic = "used"
      BY <1>2, <1>3 DEF InUse
    <2>3. Awaited(p)' => Vacant(db', call'[p].key)
      BY <1>2
    <2> QED
      BY <1>5, <1>6, <2>1, <2>2, <2>3 DEF Hands
  <1>9. Grasps(p)
    BY <1>3, <1>4 DEF Grasps
  <1>10. Accounts(p)
    <2> SUFFICES ASSUME NEW o, Loose(db', o) PROVE Mine(p, o)' \/ (Loose(db, o) /\ ~Mine(p, o))
      BY DEF Accounts
    <2>1. o = r => Mine(p, o)'
      BY <1>3 DEF Mine
    <2>2. Mine(p, o) => Mine(p, o)'
      BY DEF Mine
    <2> QED
      BY <1>1, <2>1, <2>2
  <1> QED
    BY <1>1, <1>8, <1>9, <1>10 DEF Good

\* A step that puts the new record of a store on its chain
LEMMA GoodLinking ==
    ASSUME Inv, NEW p \in Proc, Storing(p), pc[p] # "recover", MayLock(p, Bucket(call[p].key)),
           NEW d, d = db \/ d = Doubted(db, call[p].key), Vacant(d, call[p].key),
           db' = Linked(d, rec_ptr[p], call[p].key, call[p].val),
           rec_ptr' = rec_ptr, old' = old, pc'[p] = "idle"
    PROVE  Good(p)
  <1>1. /\ FileOK(db') /\ Respects(p, db') /\ Grows(db') /\ DOMAIN db'.rec = DOMAIN db.rec
        /\ \A o : Loose(db', o) => Loose(db, o) /\ o # rec_ptr[p]
    BY LinkRespects
  <1>2. ~Storing(p)' /\ ~Awaited(p)' /\ ~Visiting(p)' /\ \A o : Mine(p, o) => o = rec_ptr[p]
    BY DEF Storing, Awaited, Visiting, Replacing, Mine
  <1>3. {rec_ptr[p], old[p]} \subseteq DOMAIN db.rec \cup {0}
    BY DEF Inv, Hands
  <1>4. Hands(p)'
    BY <1>1, <1>2, <1>3 DEF Hands
  <1>5. Grasps(p) /\ Accounts(p)
    BY <1>1, <1>2 DEF Grasps, Accounts
  <1> QED
    BY <1>1, <1>4, <1>5 DEF Good

\* A step that loses it
LEMMA GoodLosing ==
    ASSUME Inv, NEW p \in Proc, Storing(p), pc[p] # "recover", db' = Lost(db, rec_ptr[p]),
           rec_ptr' = rec_ptr, old' = old, pc'[p] = "idle"
    PROVE  Good(p)
  <1>1. Noting(db') /\ rec_ptr[p] \in db'.lost
    <2>1. FileOK(db) /\ rec_ptr[p] \in DOMAIN db.rec
      BY DEF Inv, Hands, Loose
    <2> QED
      BY <2>1, Losing DEF Noting
  <1>2. FileOK(db') /\ Respects(p, db') /\ Grows(db') /\ \A o : Loose(db', o) <=> Loose(db, o)
    BY <1>1, NotingRespects
  <1>3. ~Storing(p)' /\ ~Awaited(p)' /\ ~Visiting(p)' /\ \A o : Mine(p, o) => o = rec_ptr[p]
    BY DEF Storing, Awaited, Visiting, Replacing, Mine
  <1>4. {rec_ptr[p], old[p]} \subseteq DOMAIN db.rec \cup {0}
    BY DEF Inv, Hands
  <1>5. Hands(p)'
    BY <1>1, <1>3, <1>4 DEF Hands, Noting
  <1>6. Grasps(p) /\ Accounts(p)
    BY <1>1, <1>2, <1>3 DEF Grasps, Accounts
  <1> QED
    BY <1>2, <1>5, <1>6 DEF Good

LEMMA GoodInsert ==
    ASSUME Inv, NEW p \in Proc, StoreInserts(p)
    PROVE  Good(p)
  <1> DEFINE k == call[p].key
  <1>0. Types /\ pc \in [Proc -> PCs] /\ FileOK(db) /\ old \in [Proc -> Nat]
    BY DEF Inv, Types, Control
  <1>1. pc[p] = "insert" /\ rec_ptr' = rec_ptr /\ call' = call /\ CanLock(p, Bucket(k))
    BY DEF StoreInserts, StepLeaves, AtChain
  <1>2. call[p].type = "store" /\ k \in Key /\ call[p].flag \in {"replace", "insert"}
    BY <1>0, <1>1, Positions, Requested DEF Types
  <1>3. Storing(p) /\ MayLock(p, Bucket(k))
    BY <1>1, <1>2 DEF Storing, MayLock
  <1>4. \/ /\ call[p].flag = "replace" /\ Found(db, k) /\ db' = Unlinked(db, k)
           /\ old' = [old EXCEPT ![p] = RecordOf(db, k)] /\ pc' = [pc EXCEPT ![p] = "recover"]
        \/ /\ old' = old /\ pc' = [pc EXCEPT ![p] = "idle"]
           /\ \/ /\ ~(call[p].flag = "replace" /\ Found(db, k))
                 /\ db' = Linked(db, rec_ptr[p], call[p].key, call[p].val)
              \/ db' = Linked(Doubted(db, k), rec_ptr[p], call[p].key, call[p].val)
              \/ db' = Lost(db, rec_ptr[p])
    BY DEF StoreInserts, Returns, Goes
  <1>5. CASE /\ call[p].flag = "replace" /\ Found(db, k) /\ db' = Unlinked(db, k)
             /\ old' = [old EXCEPT ![p] = RecordOf(db, k)] /\ pc' = [pc EXCEPT ![p] = "recover"]
    <2>2. old'[p] = RecordOf(db, k) /\ pc'[p] = "recover"
      BY <1>0, <1>5
    <2>3. Storing(p)' /\ ~Visiting(p)'
      BY <1>1, <1>2, <2>2 DEF Storing, Visiting
    <2>4. OnChain(db, k)
      BY <1>0, <1>2, <1>5, Finds
    <2>5. rec_ptr'[p] \in DOMAIN db.rec \cup {0} /\ rec_ptr'[p] = rec_ptr[p] /\ call'[p] = call[p]
      BY <1>1 DEF Inv, Hands
    <2> HIDE DEF k
    <2>6. call'[p].key = k
      BY <1>1 DEF k
    <2> QED
      BY <1>1, <1>2, <1>3, <1>5, <2>2, <2>3, <2>4, <2>5, <2>6, GoodUnlink
  <1>6. CASE /\ old' = old /\ pc' = [pc EXCEPT ![p] = "idle"]
             /\ ~(call[p].flag = "replace" /\ Found(db, k))
             /\ db' = Linked(db, rec_ptr[p], call[p].key, call[p].val)
    <2>1. pc'[p] = "idle"
      BY <1>0, <1>6
    <2>2. Vacant(db, k)
      <3>1. CASE call[p].flag = "replace"
        BY <1>0, <1>2, <1>6, <3>1, Finds DEF Vacant
      <3>2. CASE call[p].flag = "insert"
        <4>1. Awaited(p)
          BY <1>1, <1>2, <3>2 DEF Awaited
        <4> QED
          BY <4>1 DEF Inv, Hands
      <3> QED
        BY <1>2, <3>1, <3>2
    <2> QED
      BY <1>1, <1>3, <1>6, <2>1, <2>2, GoodLinking
  <1>7. CASE /\ old' = old /\ pc' = [pc EXCEPT ![p] = "idle"]
             /\ db' = Linked(Doubted(db, k), rec_ptr[p], call[p].key, call[p].val)
    <2>1. pc'[p] = "idle"
      BY <1>0, <1>7
    <2>2. Vacant(Doubted(db, k), k)
      BY <1>0, <1>2, Doubting DEF Vacant
    <2> QED
      BY <1>1, <1>3, <1>7, <2>1, <2>2, GoodLinking
  <1>8. CASE old' = old /\ pc' = [pc EXCEPT ![p] = "idle"] /\ db' = Lost(db, rec_ptr[p])
    <2>1. pc'[p] = "idle"
      BY <1>0, <1>8
    <2> QED
      BY <1>1, <1>3, <1>8, <2>1, GoodLosing
  <1> QED
    BY <1>4, <1>5, <1>6, <1>7, <1>8

LEMMA GoodLink ==
    ASSUME Inv, NEW p \in Proc, StoreLinks(p)
    PROVE  Good(p)
  <1>0. Types /\ pc \in [Proc -> PCs] /\ Process(p) /\ Hands(p)
    BY DEF Inv, Types, Control
  <1>1. pc[p] = "link" /\ rec_ptr' = rec_ptr /\ old' = old /\ call' = call
    BY DEF StoreLinks, StepLeaves
  <1>2. call[p].type = "store"
    BY <1>0, <1>1, Positions DEF Types
  <1>3. Storing(p) /\ Replacing(p) /\ Awaited(p)
    BY <1>1, <1>2 DEF Storing, Replacing, Awaited
  <1>4. /\ MayLock(p, Bucket(call[p].key)) /\ Vacant(db, call[p].key)
        /\ db.rec[rec_ptr[p]].magic = "free"
    BY <1>0, <1>3 DEF Process, MayLock, Hands
  <1>5. /\ \/ db' = Linked(db, rec_ptr[p], call[p].key, call[p].val)
           \/ db' = Lost(db, rec_ptr[p])
        /\ pc' = [pc EXCEPT ![p] = "idle"]
    BY <1>4 DEF StoreLinks, Returns, Goes
  <1>6. pc'[p] = "idle"
    BY <1>0, <1>5
  <1> QED
    BY <1>1, <1>3, <1>4, <1>5, <1>6, GoodLinking, GoodLosing

LEMMA GoodDelete ==
    ASSUME Inv, NEW p \in Proc, Deletes(p)
    PROVE  Good(p)
  <1> DEFINE k == call[p].key
  <1>0. Types /\ pc \in [Proc -> PCs] /\ FileOK(db) /\ old \in [Proc -> Nat]
    BY DEF Inv, Types, Control
  <1>1. pc[p] = "delete" /\ rec_ptr' = rec_ptr /\ call' = call /\ CanLock(p, Bucket(k))
    BY DEF Deletes, StepLeaves, AtChain
  <1>2. call[p].type = "delete" /\ k \in Key
    BY <1>0, <1>1, Positions, Requested DEF Types
  <1>3. ~Storing(p) /\ ~Storing(p)' /\ ~Visiting(p)' /\ ~Awaited(p)' /\ MayLock(p, Bucket(k))
    BY <1>1, <1>2 DEF Storing, Visiting, Awaited, Replacing, MayLock
  <1>4. {rec_ptr[p], old[p]} \subseteq DOMAIN db.rec \cup {0}
    BY DEF Inv, Hands
  <1> DEFINE takes == /\ Found(db, k) /\ db' = Unlinked(db, k)
                      /\ old' = [old EXCEPT ![p] = RecordOf(db, k)] /\ pc' = [pc EXCEPT ![p] = "recover"]
             fails == db' = db /\ old' = old /\ pc' = [pc EXCEPT ![p] = "idle"]
  <1>7. takes \/ fails
    BY DEF Deletes, Returns, Goes
  <1>5. CASE takes
    <2>1. takes
      BY <1>5
    <2>2. old'[p] = RecordOf(db, k) /\ pc'[p] = "recover"
      BY <1>0, <2>1
    <2>3. OnChain(db, k)
      BY <1>0, <1>2, <1>5, Finds
    <2>4. rec_ptr'[p] \in DOMAIN db.rec \cup {0}
      BY <1>1, <1>4
    <2> HIDE DEF k
    <2> QED
      BY <1>1, <1>2, <1>3, <2>1, <2>2, <2>3, <2>4, GoodUnlink
  <1>6. CASE fails
    <2>2. pc'[p] = "idle"
      BY <1>0, <1>6
    <2> QED
      BY <1>1, <1>3, <1>4, <1>6, <2>2, SameNoting, LooksOnly
  <1> QED
    BY <1>5, <1>6, <1>7

LEMMA GoodRecovery ==
    ASSUME Inv, NEW p \in Proc, Recovers(p)
    PROVE  Good(p)
  <1>0. Types /\ pc \in [Proc -> PCs] /\ Hands(p) /\ chain \in [Proc -> Buckets]
    BY DEF Inv, Types, Control
  <1>1. /\ pc[p] = "recover" /\ rec_ptr' = rec_ptr /\ old' = old /\ call' = call /\ chain' = chain
        /\ db' = Freed(db, old[p])
    BY DEF Recovers, StepLeaves
  <1>2. pc'[p] \in {"link", "idle", "visit"} /\ (call[p].type = "store" => pc'[p] = "link")
    BY <1>0 DEF Recovers, Goes
  <1>3. /\ FileOK(db') /\ Respects(p, db') /\ Grows(db') /\ DOMAIN db'.rec = DOMAIN db.rec
        /\ \A o : Loose(db', o) => Loose(db, o) /\ o # old[p]
        /\ \A o \in DOMAIN db.rec : o # old[p] => db'.rec[o] = db.rec[o]
        /\ \A k \in Key : OnChain(db', k) => OnChain(db, k)
        /\ \A b \in Buckets : db'.list[b] = db.list[b]
        /\ db'.doubtful = db.doubtful
    BY <1>1, FreeRespects
  <1>4. /\ Storing(p)' => Storing(p) /\ Awaited(p)
        /\ Awaited(p)' => Awaited(p)
        /\ Visiting(p)' => Visiting(p)
        /\ call[p].type = "store" => Storing(p)'
    BY <1>1, <1>2 DEF Storing, Awaited, Replacing, Visiting
  <1>5. Storing(p) => Loose(db', rec_ptr[p]) /\ db'.rec[rec_ptr[p]] = db.rec[rec_ptr[p]]
    <2> SUFFICES ASSUME Storing(p) PROVE Loose(db', rec_ptr[p]) /\ db'.rec[rec_ptr[p]] = db.rec[rec_ptr[p]]
      OBVIOUS
    <2>1. Loose(db, rec_ptr[p]) /\ rec_ptr[p] # old[p] /\ rec_ptr[p] \in DOMAIN db.rec
      BY <1>0, <1>1 DEF Hands, Loose
    <2>2. OnList(db', Free) = OnList(db, Free) \cup {old[p]}
      <3>1. FileOK(db) /\ Loose(db, old[p])
        BY <1>0, <1>1 DEF Inv, Hands
      <3> QED
        BY <1>1, <3>1, Frees
    <2>3. \A b \in Buckets : OnList(db', b) = OnList(db, b)
      BY <1>3 DEF OnList
    <2> QED
      BY <1>3, <2>1, <2>2, <2>3 DEF Loose, Lists
  <1>6. Awaited(p)' => Vacant(db', call[p].key)
    <2> SUFFICES ASSUME Awaited(p)' PROVE Vacant(db', call[p].key)
      OBVIOUS
    <2>1. call[p].type = "store" /\ call[p].key \in Key
      BY <1>0, <1>4, Requested DEF Types, Awaited, Replacing
    <2> QED
      BY <1>0, <1>3, <1>4, <2>1 DEF Hands, Vacant
  <1>7. Visiting(p)' => rec_ptr[p] = 0 \/ rec_ptr[p] \in OnList(db', chain[p])
    BY <1>0, <1>3, <1>4 DEF Hands, OnList
  <1>8. Hands(p)'
    BY <1>0, <1>1, <1>2, <1>3, <1>4, <1>5, <1>6, <1>7 DEF Hands
  <1>9. Grasps(p)
    BY <1>1, <1>2, <1>4 DEF Grasps
  <1>10. Accounts(p)
    <2> SUFFICES ASSUME NEW o, Loose(db', o) PROVE Mine(p, o)' \/ (Loose(db, o) /\ ~Mine(p, o))
      BY DEF Accounts
    <2>1. Storing(p) => Storing(p)'
      BY <1>4 DEF Storing
    <2> QED
      BY <1>1, <1>3, <2>1 DEF Mine
  <1> QED
    BY <1>3, <1>8, <1>9, <1>10 DEF Good

\* What follows a record on a list
LEMMA Follows ==
    ASSUME NEW S, NEW s \in Seq(S), IsInjective(s), NEW i \in 1 .. Len(s)
    PROVE  /\ NextOf(s, s[i]) = IF i < Len(s) THEN s[i + 1] ELSE 0
           /\ i < Len(s) => s[i + 1] \in Range(s) /\ s[i + 1] # s[i]
  <1> DEFINE r == s[i]
             I == {j \in 1 .. Len(s) : s[j] = r}
  <1>1. Len(s) \in Nat /\ DOMAIN s = 1 .. Len(s)
    OBVIOUS
  <1>2. \A j \in 1 .. Len(s) : s[j] = r => j = i
    BY <1>1 DEF IsInjective
  <1>3. I = {i} /\ I \in SUBSET Nat
    BY <1>1, <1>2
  <1>4. Min(I) = i
    BY <1>3, LeastIsMin
  <1>5. SelectInSeq(s, LAMBDA o : o = r) = i
    BY <1>3, <1>4 DEF SelectInSeq
  <1>6. i < Len(s) => i + 1 \in 1 .. Len(s) /\ i + 1 # i
    BY <1>1
  <1>7. i < Len(s) => s[i + 1] \in Range(s) /\ s[i + 1] # s[i]
    BY <1>1, <1>2, <1>6 DEF Range
  <1>8. NextOf(s, r) = IF i < Len(s) THEN s[i + 1] ELSE 0
    BY <1>5 DEF NextOf
  <1> QED
    BY <1>7, <1>8

LEMMA FollowsOnList ==
    ASSUME Inv, NEW b \in Buckets, NEW r \in OnList(db, b)
    PROVE  LET x == NextOf(db.list[b], r) IN x = 0 \/ (x \in OnList(db, b) /\ x # r)
  <1> DEFINE s == db.list[b]
  <1>1. s \in Seq(DOMAIN db.rec) /\ IsInjective(s) /\ OnList(db, b) = Range(s)
    BY FreeIsAList DEF Inv, FileOK, Shape, Sorted, OnList
  <1>2. PICK i \in 1 .. Len(s) : r = s[i]
    BY <1>1 DEF Range
  <1> QED
    BY <1>1, <1>2, Follows

\* What follows a record is not the record that a search for its key finds.
LEMMA FollowsFound ==
    ASSUME Inv, NEW b \in Buckets, NEW r \in OnList(db, b), db.rec[r].key \in Key,
           Bucket(db.rec[r].key) = b, NextOf(db.list[b], r) # 0
    PROVE  NextOf(db.list[b], r) # RecordOf(db, db.rec[r].key)
  <1> DEFINE s == db.list[b]
             k == db.rec[r].key
             f == Find(db, k)
  <1>1. s \in Seq(DOMAIN db.rec) /\ IsInjective(s) /\ OnList(db, b) = Range(s) /\ FileOK(db)
    BY FreeIsAList DEF Inv, FileOK, Shape, Sorted, OnList
  <1>2. PICK i \in 1 .. Len(s) : r = s[i]
    BY <1>1 DEF Range
  <1>3. i < Len(s) /\ NextOf(s, r) = s[i + 1]
    BY <1>1, <1>2, Follows
  <1>4. OnChain(db, k)
    BY DEF OnChain
  <1>5. f \in 1 .. Len(s) /\ f <= i /\ RecordOf(db, k) = s[f]
    BY <1>1, <1>2, <1>4, Finds DEF RecordOf
  <1> HIDE DEF f
  <1>6. i + 1 \in DOMAIN s /\ f \in DOMAIN s /\ f # i + 1
    BY <1>1, <1>3, <1>5
  <1> QED
    BY <1>1, <1>3, <1>5, <1>6 DEF IsInjective

LEMMA TopOnList ==
    ASSUME Inv, NEW b \in Buckets
    PROVE  Top(db.list[b]) = 0 \/ Top(db.list[b]) \in OnList(db, b)
  <1> DEFINE s == db.list[b]
  <1>1. s \in Seq(DOMAIN db.rec) /\ OnList(db, b) = Range(s)
    BY FreeIsAList DEF Inv, FileOK, Shape, OnList
  <1>2. s # <<>> => Head(s) = s[1] /\ 1 \in DOMAIN s
    BY <1>1
  <1> QED
    BY <1>1, <1>2 DEF Top, Range

LEMMA GoodTraversal ==
    ASSUME Inv, NEW p \in Proc, TraverseLocks(p) \/ TraverseVisits(p) \/ TraverseEndsChain(p)
    PROVE  Good(p)
  <1> DEFINE b == chain[p]
  <1>0. /\ Types /\ pc \in [Proc -> PCs] /\ chain \in [Proc -> Buckets] /\ Hands(p) /\ Process(p)
        /\ old \in [Proc -> Nat] /\ rec_ptr \in [Proc -> Nat] /\ FileOK(db)
    BY DEF Inv, Types, Control
  <1>1. /\ pc[p] \in {"traverse", "visit"} /\ call' = call
        /\ call[p].type = "traverse" /\ b \in Buckets /\ b \in Lists
    BY <1>0, Positions, FreeIsAList DEF TraverseLocks, TraverseVisits, TraverseEndsChain, StepLeaves, Types
  <1>2. ~Storing(p) /\ ~Storing(p)' /\ ~Awaited(p)' /\ OnList(db, b) \subseteq DOMAIN db.rec
    BY <1>0, <1>1 DEF Storing, Awaited, Replacing, OnList, Range, FileOK, Shape
  <1>3. {rec_ptr[p], old[p]} \subseteq DOMAIN db.rec \cup {0}
    BY <1>0 DEF Hands
  <1>4. CASE TraverseLocks(p)
    <2>1. /\ db' = db /\ rec_ptr' = [rec_ptr EXCEPT ![p] = Top(db.list[b])] /\ old' = old
          /\ chain' = chain /\ pc' = [pc EXCEPT ![p] = "visit"]
      BY <1>4 DEF TraverseLocks, Goes
    <2>2. rec_ptr'[p] = Top(db.list[b]) /\ pc'[p] = "visit"
      BY <1>0, <2>1
    <2>3. rec_ptr'[p] = 0 \/ rec_ptr'[p] \in OnList(db, b)
      BY <1>1, <2>2, TopOnList
    <2> QED
      BY <1>1, <1>2, <1>3, <2>1, <2>2, <2>3, SameNoting, LooksOnly
  <1>5. CASE TraverseEndsChain(p)
    <2>1. db' = db /\ rec_ptr' = rec_ptr /\ old' = old /\ rec_ptr[p] = 0
          /\ (pc' = [pc EXCEPT ![p] = "traverse"] \/ pc' = [pc EXCEPT ![p] = "idle"])
      BY <1>5 DEF TraverseEndsChain, Returns, Goes
    <2>2. pc'[p] \in {"traverse", "idle"}
      BY <1>0, <2>1
    <2> QED
      BY <1>1, <1>2, <1>3, <2>1, <2>2, SameNoting, LooksOnly
  <1>6. CASE TraverseVisits(p)
    <2> DEFINE x == db.rec[rec_ptr[p]]
    <2>1. /\ pc[p] = "visit" /\ rec_ptr[p] # 0 /\ chain' = chain
      BY <1>6 DEF TraverseVisits
    <2>2. rec_ptr[p] \in OnList(db, b) /\ locked[p][b] > 0
      BY <1>0, <1>1, <2>1 DEF Hands, Visiting, Process
    <2>3. \/ /\ rec_ptr' = [rec_ptr EXCEPT ![p] = NextOf(db.list[b], rec_ptr[p])]
             /\ pc' = pc /\ db' = db /\ old' = old
          \/ /\ rec_ptr' = [rec_ptr EXCEPT ![p] = NextOf(db.list[b], rec_ptr[p])]
             /\ db' = Unlinked(db, x.key) /\ old' = [old EXCEPT ![p] = RecordOf(db, x.key)]
             /\ pc' = [pc EXCEPT ![p] = "recover"]
          \/ pc' = [pc EXCEPT ![p] = "idle"] /\ rec_ptr' = rec_ptr /\ db' = db /\ old' = old
      BY <1>6 DEF TraverseVisits, Returns, Goes
    <2>4. NextOf(db.list[b], rec_ptr[p]) = 0
          \/ (NextOf(db.list[b], rec_ptr[p]) \in OnList(db, b) /\ NextOf(db.list[b], rec_ptr[p]) # rec_ptr[p])
      BY <1>1, <2>2, FollowsOnList
    <2>5. CASE /\ rec_ptr' = [rec_ptr EXCEPT ![p] = NextOf(db.list[b], rec_ptr[p])]
               /\ pc' = pc /\ db' = db /\ old' = old
      <3>1. rec_ptr'[p] = NextOf(db.list[b], rec_ptr[p])
        BY <1>0, <2>5
      <3> QED
        BY <1>1, <1>2, <1>3, <2>1, <2>4, <2>5, <3>1, SameNoting, LooksOnly
    <2>6. CASE pc' = [pc EXCEPT ![p] = "idle"] /\ rec_ptr' = rec_ptr /\ db' = db /\ old' = old
      <3>1. pc'[p] = "idle"
        BY <1>0, <2>6
      <3>2. ~Visiting(p)'
        BY <3>1 DEF Visiting
      <3> QED
        BY <1>1, <1>2, <1>3, <2>6, <3>1, <3>2, SameNoting, LooksOnly
    <2>7. CASE /\ rec_ptr' = [rec_ptr EXCEPT ![p] = NextOf(db.list[b], rec_ptr[p])]
               /\ db' = Unlinked(db, x.key) /\ old' = [old EXCEPT ![p] = RecordOf(db, x.key)]
               /\ pc' = [pc EXCEPT ![p] = "recover"]
      <3> DEFINE k == x.key
      <3>1. k \in Key /\ Bucket(k) = b /\ OnChain(db, k)
        <4>1. x.magic = "used" /\ Bucket(k) = b
          BY <1>0, <1>1, <2>2 DEF FileOK, Sorted
        <4>2. k \in Key
          BY <1>0, <1>2, <2>2, <4>1 DEF FileOK, Sorted, InUse
        <4> QED
          BY <2>2, <4>1, <4>2 DEF OnChain
      <3>2. NextOf(db.list[b], rec_ptr[p]) = 0 \/ NextOf(db.list[b], rec_ptr[p]) # RecordOf(db, k)
        BY <1>1, <2>2, <3>1, FollowsFound
      <3>3. /\ rec_ptr'[p] = NextOf(db.list[b], rec_ptr[p]) /\ pc'[p] = "recover"
            /\ old'[p] = RecordOf(db, k)
        BY <1>0, <2>7
      <3>4. MayLock(p, Bucket(k))
        BY <2>2, <3>1 DEF MayLock
      <3>5. rec_ptr'[p] \in DOMAIN db.rec \cup {0}
        BY <1>2, <2>4, <3>3
      <3>6. rec_ptr'[p] = 0 \/ (rec_ptr'[p] \in OnList(db, chain'[p]) /\ chain'[p] \in Buckets
                                /\ rec_ptr'[p] # RecordOf(db, k))
        BY <1>1, <2>1, <2>4, <3>2, <3>3
      <3>7. db' = Unlinked(db, k)
        BY <2>7
      <3> HIDE DEF k
      <3> QED
        BY <1>2, <2>1, <3>1, <3>3, <3>4, <3>5, <3>6, <3>7, GoodUnlink
    <2> QED
      BY <2>3, <2>5, <2>6, <2>7
  <1> QED
    BY <1>4, <1>5, <1>6

LEMMA GoodApplication ==
    ASSUME Inv, NEW p \in Proc,
           \/ \E l \in Lists : LockChain(p, l) \/ UnlockChain(p, l)
           \/ \E r \in Requests[p] : Call(p, r)
           \/ Close(p)
           \/ \E clear \in BOOLEAN : Open(p, clear) /\ db' = db
    PROVE  Good(p)
  <1>0. Types /\ pc \in [Proc -> PCs] /\ Hands(p)
    BY DEF Inv, Types, Control
  <1>1. {rec_ptr[p], old[p]} \subseteq DOMAIN db.rec \cup {0}
    BY <1>0 DEF Hands
  <1>2. ASSUME NEW l \in Lists, LockChain(p, l) \/ UnlockChain(p, l) PROVE Good(p)
    <2>1. db' = db /\ pc' = pc /\ rec_ptr' = rec_ptr /\ old' = old /\ pc[p] = "idle"
      BY <1>2 DEF LockChain, UnlockChain, procVars
    <2>2. ~Awaited(p)' /\ ~Visiting(p)'
      BY <2>1 DEF Awaited, Replacing, Visiting
    <2> QED
      BY <1>1, <2>1, <2>2, SameNoting, LooksOnly
  <1>3. ASSUME NEW r \in Requests[p], Call(p, r) PROVE Good(p)
    <2>1. db' = db /\ pc[p] = "idle"
      BY <1>3 DEF Call, fileVars
    <2>2. pc'[p] = r.type /\ rec_ptr'[p] = 0 /\ old'[p] = 0
      BY <1>0, <1>3, ControlOfCall
    <2>3. r.type \in {"store", "fetch", "exists", "delete", "nextkey", "firstkey", "traverse"}
      <3>1. r \in Request
        BY TdbAssumption
      <3> QED
        BY <3>1 DEF Request
    <2>4. ~Awaited(p)' /\ ~Visiting(p)'
      BY <2>2, <2>3 DEF Awaited, Replacing, Visiting
    <2> QED
      BY <2>1, <2>2, <2>3, <2>4, SameNoting, LooksOnly
  <1>4. ASSUME Close(p) PROVE Good(p)
    <2>1. pc[p] = "idle" /\ Leave(p) /\ db' = db
      BY <1>4 DEF Close, Leave
    <2>2. pc'[p] = "closed" /\ rec_ptr'[p] = 0 /\ old'[p] = 0
      BY <1>0, <2>1, ControlOfLeave
    <2>3. ~Awaited(p)' /\ ~Visiting(p)'
      BY <2>2 DEF Awaited, Replacing, Visiting
    <2> QED
      BY <2>1, <2>2, <2>3, SameNoting, LooksOnly
  <1>5. ASSUME NEW clear \in BOOLEAN, Open(p, clear), db' = db PROVE Good(p)
    <2>1. pc[p] = "closed" /\ pc' = [pc EXCEPT ![p] = "idle"] /\ rec_ptr' = rec_ptr /\ old' = old
      BY <1>5 DEF Open
    <2>2. pc'[p] = "idle"
      BY <1>0, <2>1
    <2>3. ~Awaited(p)' /\ ~Visiting(p)'
      BY <2>2 DEF Awaited, Replacing, Visiting
    <2> QED
      BY <1>1, <1>5, <2>1, <2>2, <2>3, SameNoting, LooksOnly
  <1> QED
    BY <1>2, <1>3, <1>4, <1>5

\* The death of a process: what it had in its hands is lost.
LEMMA GoodDeath ==
    ASSUME Inv, NEW p \in Proc, Dies(p), crashes \in Nat
    PROVE  Good(p) /\ crashes' # 0
  <1>0. Types
    BY DEF Inv, Types
  <1>1. db' = db /\ Leave(p) /\ crashes' = crashes + 1
    BY DEF Dies, Leave
  <1>2. pc'[p] = "closed" /\ rec_ptr'[p] = 0 /\ old'[p] = 0
    BY <1>0, <1>1, ControlOfLeave
  <1>3. ~Awaited(p)' /\ ~Visiting(p)' /\ ~Storing(p)'
    BY <1>2 DEF Awaited, Replacing, Visiting, Storing
  <1>4. Hands(p)' /\ Grasps(p)
    BY <1>2, <1>3 DEF Hands, Grasps
  <1>5. FileOK(db') /\ Respects(p, db') /\ Grows(db')
    BY <1>1, SameRespects DEF Inv
  <1>6. crashes' # crashes /\ crashes' # 0
    BY <1>1
  <1> QED
    BY <1>4, <1>5, <1>6 DEF Good

\* Every step is good, but the one that clears the file.
LEMMA AllGood ==
    ASSUME Inv, crashes \in Nat, NEW p \in Proc, Steps(p) \/ Application(p),
           ~(\E clear \in BOOLEAN : Open(p, clear) /\ db' # db)
    PROVE  Good(p)
  <1>1. CASE Steps(p)
    BY <1>1, GoodLookups, GoodChecks, GoodAllocation, GoodInsert, GoodLink, GoodDelete, GoodRecovery,
       GoodTraversal, GoodApplication DEF Steps
  <1>2. CASE Application(p)
    BY <1>2, GoodApplication, GoodDeath DEF Application
  <1> QED
    BY <1>1, <1>2

-----------------------------------------------------------------------------
(***************************************************************************)
(* The invariant holds.                                                    *)
(***************************************************************************)
\* Only the actions of a process itself change how much it has mapped.
MapMoves(p) ==
    /\ map_size' = [map_size EXCEPT ![p] = map_size'[p]]
    /\ map_size'[p] \in {map_size[p], db'.size, 0}
    /\ pc'[p] = "closed" => map_size'[p] = 0

LEMMA TouchMoves ==
    ASSUME NEW p \in Proc, map_size \in [Proc -> Nat], NEW R, Touches(p, R)
    PROVE  map_size' = [map_size EXCEPT ![p] = map_size'[p]] /\ map_size'[p] \in {map_size[p], db'.size, 0}
  BY DEF Touches

LEMMA MapsMove ==
    ASSUME Inv, NEW p \in Proc, map_size \in [Proc -> Nat], Steps(p) \/ Application(p)
    PROVE  MapMoves(p)
  <1>0. Types /\ pc \in [Proc -> PCs]
    BY DEF Inv, Types, Control
  <1>1. ASSUME Leave(p) PROVE MapMoves(p)
    <2>1. map_size' = [map_size EXCEPT ![p] = 0]
      BY <1>1 DEF Leave
    <2> QED
      BY <2>1 DEF MapMoves
  <1>2. ASSUME NEW clear \in BOOLEAN, Open(p, clear) PROVE MapMoves(p)
    <2>1. map_size' = [map_size EXCEPT ![p] = db'.size] /\ pc' = [pc EXCEPT ![p] = "idle"]
      BY <1>2 DEF Open
    <2> QED
      BY <1>0, <2>1 DEF MapMoves
  <1>3. ASSUME map_size' = map_size \/ (\E R : Touches(p, R)), pc'[p] # "closed" PROVE MapMoves(p)
    BY <1>3, TouchMoves DEF MapMoves
  <1>4. ASSUME Fetches(p) \/ Exists(p) \/ StoreChecks(p) PROVE MapMoves(p)
    <2>1. pc'[p] # "closed"
      BY <1>0, <1>4 DEF Fetches, Exists, StoreChecks, Returns, Goes
    <2>2. Touches(p, OnList(db, Bucket(call[p].key)))
      BY <1>4 DEF Fetches, Exists, StoreChecks
    <2> QED
      BY <1>3, <2>1, <2>2
  <1>5. ASSUME StoreInserts(p) \/ Deletes(p) \/ NextKey(p) PROVE MapMoves(p)
    <2>1. pc'[p] # "closed"
      BY <1>0, <1>5 DEF StoreInserts, Deletes, NextKey, Returns, Goes
    <2>2. Touches(p, OnList(db, Bucket(call[p].key)))
      BY <1>5 DEF StoreInserts, Deletes, NextKey
    <2> QED
      BY <1>3, <2>1, <2>2
  <1>6. ASSUME StoreAllocates(p) PROVE MapMoves(p)
    <2>1. pc'[p] # "closed"
      BY <1>0, <1>6 DEF StoreAllocates, Returns, Goes
    <2>2. \E R : Touches(p, R)
      BY <1>6 DEF StoreAllocates
    <2> QED
      BY <1>3, <2>1, <2>2
  <1>7. ASSUME StoreLinks(p) \/ Recovers(p) \/ TraverseVisits(p) PROVE MapMoves(p)
    <2>1. pc'[p] # "closed"
      BY <1>0, <1>7 DEF StoreLinks, Recovers, TraverseVisits, Returns, Goes
    <2>2. Touches(p, {rec_ptr[p]}) \/ Touches(p, {old[p]})
      BY <1>7 DEF StoreLinks, Recovers, TraverseVisits
    <2> QED
      BY <1>3, <2>1, <2>2
  <1>8. ASSUME FirstKey(p) \/ NextChain(p) PROVE MapMoves(p)
    <2>1. pc'[p] # "closed"
      BY <1>0, <1>8 DEF FirstKey, NextChain, Returns, Goes
    <2>2. map_size' = map_size \/ Touches(p, {Top(db.list[chain[p]])}) \/ Touches(p, {Top(db.list[chain[p] + 1])})
      BY <1>8 DEF FirstKey, NextChain
    <2> QED
      BY <1>3, <2>1, <2>2
  <1>9. ASSUME TraverseLocks(p) \/ TraverseEndsChain(p) PROVE MapMoves(p)
    <2>1. pc'[p] # "closed" /\ map_size' = map_size
      BY <1>0, <1>9 DEF TraverseLocks, TraverseEndsChain, Returns, Goes
    <2> QED
      BY <1>3, <2>1
  <1>10. ASSUME NEW l \in Lists, LockChain(p, l) \/ UnlockChain(p, l) PROVE MapMoves(p)
    <2>1. pc'[p] # "closed" /\ map_size' = map_size
      BY <1>10 DEF LockChain, UnlockChain, procVars
    <2> QED
      BY <1>3, <2>1
  <1>11. ASSUME NEW r \in Requests[p], Call(p, r) PROVE MapMoves(p)
    <2>1. pc'[p] = r.type /\ map_size' = map_size
      BY <1>0, <1>11, ControlOfCall DEF Call, fileVars
    <2>2. r.type # "closed"
      BY TdbAssumption DEF Request
    <2> QED
      BY <1>3, <2>1, <2>2
  <1>12. CASE Steps(p)
    BY <1>4, <1>5, <1>6, <1>7, <1>8, <1>9, <1>10, <1>12 DEF Steps
  <1>13. CASE Application(p)
    BY <1>1, <1>2, <1>10, <1>11, <1>13 DEF Application, Close, Dies
  <1> QED
    BY <1>12, <1>13

LEMMA EmptyFile ==
    /\ FileOK(Empty) /\ (\A o : ~Loose(Empty, o)) /\ Empty.size = First /\ DOMAIN Empty.rec = {}
    /\ Empty.doubtful = {}
  <1>1. Empty.size = First /\ Empty.list = [l \in Lists |-> <<>>] /\ Empty.rec = <<>>
        /\ Empty.doubtful = {} /\ Empty.lost = {}
        /\ Empty = [size |-> First, list |-> [l \in Lists |-> <<>>], rec |-> <<>>,
                    doubtful |-> {}, lost |-> {}]
    BY DEF Empty
  <1>2. DOMAIN Empty.rec = {} /\ Empty.rec \in [{} -> Record]
    BY <1>1
  <1>3. \A l \in Lists : Empty.list[l] = <<>> /\ OnList(Empty, l) = {} /\ IsInjective(Empty.list[l])
    BY <1>1 DEF OnList, Range, IsInjective
  <1>4. Empty.list \in [Lists -> Seq(DOMAIN Empty.rec)]
    BY <1>1
  <1>5. First \in Nat \ {0}
    BY TdbAssumption
  <1>6. Shape(Empty)
    BY <1>1, <1>2, <1>4, <1>5 DEF Shape
  <1>7. Tiled(Empty)
    BY <1>2 DEF Tiled
  <1>8. Sorted(Empty)
    BY <1>2, <1>3, FreeIsAList DEF Sorted
  <1> QED
    BY <1>1, <1>2, <1>6, <1>7, <1>8 DEF FileOK, Loose

IInv == Inv /\ Mapped /\ Accounted /\ crashes \in Nat

LEMMA InvInit == Init => IInv
  <1> SUFFICES ASSUME Init PROVE IInv
    OBVIOUS
  <1>1. /\ db = Empty /\ crashes = 0
        /\ \A p \in Proc : /\ pc[p] = "closed" /\ call[p] = CloseCall /\ rec_ptr[p] = 0 /\ old[p] = 0
                           /\ map_size[p] = 0 /\ chain[p] = 0 /\ locked[p] = Unlocked
    BY DEF Init, CloseCall
  <1>2. 0 \in Buckets /\ Unlocked \in [Lists -> Nat] /\ \A l \in Lists : Unlocked[l] = 0
    BY TdbAssumption DEF Buckets, Unlocked
  <1>3. CloseCall.type = "close"
    BY DEF CloseCall
  <1>4. \A p \in Proc : ~Storing(p) /\ ~Awaited(p) /\ ~Visiting(p) /\ ~Replacing(p) /\ ~Placing(p)
    BY <1>1 DEF Storing, Awaited, Visiting, Replacing, Placing
  <1>5. Control
    <2>1. \A p \in Proc : Process(p)
      BY <1>1, <1>3, <1>4, Ways DEF Process
    <2> QED
      BY <1>2, <2>1 DEF Init, Control, PCs, CloseCall
  <1>6. Exclusive
    BY <1>1, <1>2 DEF Exclusive
  <1>7. \A p \in Proc : Hands(p)
    BY <1>1, <1>4 DEF Hands
  <1>8. Apart /\ Contests
    BY <1>1, <1>4 DEF Apart, Contests
  <1>9. Inv
    BY <1>1, <1>5, <1>6, <1>7, <1>8, EmptyFile DEF Inv, Init
  <1>10. Mapped /\ Accounted
    <2>1. Empty.size \in Nat
      BY EmptyFile, TdbAssumption
    <2> QED
      BY <1>1, <2>1, EmptyFile DEF Init, Mapped, Bounded, Accounted
  <1> QED
    BY <1>1, <1>9, <1>10 DEF IInv

\* The first process to open the database clears it.
LEMMA Clears ==
    ASSUME IInv, NEW p \in Proc, NEW clear \in BOOLEAN, Open(p, clear), db' # db
    PROVE  IInv'
  <1>0. Types /\ Exclusive /\ pc \in [Proc -> PCs] /\ Inv /\ map_size \in [Proc -> Nat]
    BY DEF IInv, Inv, Types, Control, Mapped
  <1>1. /\ db' = Empty /\ \A q \in Proc : pc[q] = "closed"
        /\ pc' = [pc EXCEPT ![p] = "idle"] /\ map_size' = [map_size EXCEPT ![p] = db'.size]
        /\ rec_ptr' = rec_ptr /\ old' = old /\ crashes' = crashes
    BY DEF Open
  <1>2. Control' /\ Exclusive'
    BY <1>0, ControlStep DEF Application
  <1>3. \A q \in Proc : pc'[q] \in {"idle", "closed"} /\ rec_ptr'[q] = 0 /\ old'[q] = 0
    BY <1>0, <1>1 DEF Inv, Hands
  <1>4. \A q \in Proc : ~Storing(q)' /\ ~Awaited(q)' /\ ~Visiting(q)' /\ ~Replacing(q)' /\ ~Placing(q)'
    BY <1>3 DEF Storing, Awaited, Visiting, Replacing, Placing
  <1>5. \A q \in Proc : Hands(q)'
    BY <1>3, <1>4 DEF Hands
  <1>6. Apart' /\ Contests'
    BY <1>3, <1>4 DEF Apart, Contests
  <1>7. Inv'
    BY <1>0, <1>1, <1>2, <1>5, <1>6, EmptyFile DEF Inv
  <1>8. Mapped'
    <2>1. Empty.size \in Nat
      BY EmptyFile, TdbAssumption
    <2>2. \A q \in Proc : map_size'[q] \in {0, Empty.size} /\ (pc'[q] = "closed" => map_size'[q] = 0)
      BY <1>0, <1>1 DEF IInv, Mapped
    <2>3. map_size' \in [Proc -> Nat]
      BY <1>0, <1>1, <2>1
    <2> QED
      BY <1>1, <2>1, <2>2, <2>3, EmptyFile DEF Mapped, Bounded
  <1>9. Accounted' /\ crashes' \in Nat
    BY <1>1, EmptyFile DEF Accounted, IInv
  <1> QED
    BY <1>7, <1>8, <1>9 DEF IInv

LEMMA InvStep == IInv /\ [Next]_vars => IInv'
  <1> SUFFICES ASSUME IInv, [Next]_vars PROVE IInv'
    OBVIOUS
  <1>0. Types /\ Exclusive /\ Inv /\ map_size \in [Proc -> Nat] /\ pc \in [Proc -> PCs]
    BY DEF IInv, Inv, Types, Control, Mapped
  <1>1. CASE UNCHANGED vars
    BY <1>1 DEF vars, fileVars, procVars, history, IInv, Inv, Control, Process, Replacing, Visiting, Exclusive,
       Hands, Storing, Awaited, Apart, Contests, Placing, Contends, Mapped, Accounted, Mine
  <1>2. CASE Next
    <2>1. PICK p \in Proc : Steps(p) \/ Application(p)
      BY <1>2 DEF Next
    <2>2. CASE \E clear \in BOOLEAN : Open(p, clear) /\ db' # db
      BY <2>2, Clears
    <2>3. CASE ~(\E clear \in BOOLEAN : Open(p, clear) /\ db' # db)
      <3>1. Good(p)
        BY <1>0, <2>1, <2>3, AllGood DEF IInv
      <3>2. Inv'
        BY <1>0, <2>1, <3>1, InvKept DEF Good
      <3>3. Only(p)
        BY <1>0, <2>1, ControlStep
      <3>4. Mapped'
        <4>1. MapMoves(p)
          BY <1>0, <2>1, MapsMove
        <4>2. db'.size \in Nat /\ db.size \in Nat /\ DOMAIN db'.rec \subseteq Nat
          BY <1>0, <3>2 DEF Inv, FileOK, Shape
        <4>3. \A q \in Proc : map_size[q] <= db'.size /\ Bounded(db', map_size[q])
          BY <1>0, <3>1, <4>2 DEF IInv, Mapped, Good, Grows
        <4>4. Bounded(db', db'.size) /\ Bounded(db', 0)
          BY <3>2, <4>2 DEF Inv, FileOK, Tiled, Bounded
        <4>5. \A q \in Proc : map_size'[q] \in Nat /\ map_size'[q] <= db'.size /\ Bounded(db', map_size'[q])
          BY <1>0, <4>1, <4>2, <4>3, <4>4 DEF MapMoves
        <4>6. \A q \in Proc : pc'[q] = "closed" => map_size'[q] = 0
          BY <1>0, <3>3, <4>1 DEF MapMoves, Only, IInv, Mapped
        <4>7. map_size' \in [Proc -> Nat]
          BY <1>0, <4>1, <4>5 DEF MapMoves
        <4> QED
          BY <4>5, <4>6, <4>7 DEF Mapped
      <3>5. crashes' \in Nat /\ (crashes' = crashes \/ crashes' # 0)
        <4>1. crashes' = crashes \/ crashes' = crashes + 1
          BY <2>1 DEF Steps, Application, Fetches, Exists, StoreChecks, StoreAllocates, StoreInserts, StoreLinks,
             Deletes, Recovers, TraverseLocks, TraverseVisits, TraverseEndsChain, FirstKey, NextKey, NextChain,
             UnlockChain, Open, Close, Dies, Call, LockChain, StepLeaves, Leave
        <4> QED
          BY <4>1 DEF IInv
      <3>6. Accounted'
        <4> SUFFICES ASSUME crashes' = 0, NEW o, Loose(db', o), o \notin db'.lost
                     PROVE  \E q \in Proc : Mine(q, o)'
          BY DEF Accounted
        <4>1. crashes' = crashes
          BY <3>5
        <4>2. CASE Mine(p, o)'
          BY <4>2
        <4>3. CASE Loose(db, o) /\ ~Mine(p, o)
          <5>0. o \notin db.lost
            BY <3>1 DEF Good, Respects
          <5>1. PICK q \in Proc : Mine(q, o)
            BY <4>1, <4>3, <5>0 DEF IInv, Accounted
          <5>2. q # p
            BY <4>3, <5>1
          <5>3. pc'[q] = pc[q] /\ call'[q] = call[q] /\ rec_ptr'[q] = rec_ptr[q] /\ old'[q] = old[q]
            BY <1>0, <3>3, <5>2 DEF Types, Control, Only
          <5>4. Mine(q, o)'
            BY <5>1, <5>3 DEF Mine, Storing
          <5> QED
            BY <5>4
        <4> QED
          BY <3>1, <4>1, <4>2, <4>3 DEF Good, Accounts
      <3> QED
        BY <3>2, <3>4, <3>5, <3>6 DEF IInv
    <2> QED
      BY <2>2, <2>3
  <1> QED
    BY <1>1, <1>2

LEMMA InvImplies == IInv => WellFormed
  <1> SUFFICES ASSUME IInv PROVE WellFormed
    OBVIOUS
  <1>0. Inv /\ FileOK(db) /\ Control /\ Exclusive /\ \A p \in Proc : Hands(p)
    BY DEF IInv, Inv
  <1>1. \A l \in Lists : OnList(db, l) \subseteq DOMAIN db.rec
    BY <1>0 DEF FileOK, Shape, OnList, Range
  <1>2. TypeOK
    <2>1. DOMAIN db.list = Lists /\ db.size \in Nat
          /\ db.doubtful \subseteq Key /\ db.lost \subseteq DOMAIN db.rec
      BY <1>0 DEF FileOK, Shape
    <2>2. \A o \in DOMAIN db.rec : db.rec[o] \in [len : Nat, magic : {"used", "free"},
             key : Key \cup {NoValue}, val : Value \cup {NoValue}]
      <3> SUFFICES ASSUME NEW o \in DOMAIN db.rec
                   PROVE  db.rec[o] \in [len : Nat, magic : {"used", "free"},
                                         key : Key \cup {NoValue}, val : Value \cup {NoValue}]
        OBVIOUS
      <3>1. db.rec[o] \in Record
        BY <1>0 DEF FileOK, Shape
      <3> QED
        BY <3>1 DEF Record
    <2>3. \A p \in Proc : {rec_ptr[p], old[p]} \subseteq DOMAIN db.rec \cup {0}
      BY <1>0 DEF Hands
    <2> QED
      BY <1>0, <1>1, <2>1, <2>2, <2>3 DEF TypeOK, Exclusive
  <1>3. UniqueKeys /\ ListsSound
    BY <1>0 DEF FileOK, Sorted, UniqueKeys, ListsSound
  <1>4. RecordsTile
    <2>1. \A o \in DOMAIN db.rec : EndIn(db, o) = End(o)
      BY DEF EndIn, End
    <2> QED
      BY <1>0, <2>1 DEF FileOK, Tiled, Sorted, InUse, RecordsTile
  <1>5. NoSpaceLost
    <2> DEFINE L == UNION {OnList(db, l) : l \in Lists}
               H == UNION {Held(p) : p \in Proc}
    <2> SUFFICES ASSUME crashes = 0 PROVE DOMAIN db.rec = L \cup H \cup db.lost
      BY DEF NoSpaceLost
    <2>1. \A p \in Proc, o \in DOMAIN db.rec : Mine(p, o) => o \in Held(p)
      BY DEF Mine, Storing, Held
    <2>2. DOMAIN db.rec \subseteq L \cup H \cup db.lost
      <3> SUFFICES ASSUME NEW o \in DOMAIN db.rec, o \notin db.lost PROVE o \in L \cup H
        OBVIOUS
      <3>1. CASE \E l \in Lists : o \in OnList(db, l)
        BY <3>1
      <3>2. CASE ~(\E l \in Lists : o \in OnList(db, l))
        <4>1. Loose(db, o)
          BY <3>2 DEF Loose
        <4>2. PICK p \in Proc : Mine(p, o)
          BY <4>1 DEF IInv, Accounted
        <4>3. o \in Held(p)
          BY <2>1, <4>2
        <4> QED
          BY <4>3
      <3> QED
        BY <3>1, <3>2
    <2>3. \A p \in Proc : Held(p) \subseteq DOMAIN db.rec
      BY <1>0 DEF Held, Hands, Storing, Loose
    <2>4. db.lost \subseteq DOMAIN db.rec
      BY <1>0 DEF FileOK, Shape
    <2> QED
      BY <1>1, <2>2, <2>3, <2>4
  <1>6. MapEndsAtRecord
    <2>1. \A o \in DOMAIN db.rec : EndIn(db, o) = End(o) /\ o + Hdr < db.size
      <3> SUFFICES ASSUME NEW o \in DOMAIN db.rec PROVE EndIn(db, o) = End(o) /\ o + Hdr < db.size
        OBVIOUS
      <3>1. db.rec[o].len \in Nat \ {0} /\ o \in Nat /\ Hdr \in Nat /\ db.size \in Nat
        BY <1>0, TdbAssumption DEF FileOK, Shape, Record
      <3>2. EndIn(db, o) <= db.size /\ EndIn(db, o) = o + Hdr + db.rec[o].len /\ EndIn(db, o) = End(o)
        BY <1>0 DEF FileOK, Tiled, EndIn, End
      <3> QED
        BY <3>1, <3>2
    <2> QED
      BY <2>1 DEF IInv, Mapped, Bounded, MapEndsAtRecord
  <1> QED
    BY <1>2, <1>3, <1>4, <1>5, <1>6 DEF WellFormed

\* The file is well formed after every step of every process (tdb.c): its
\* lists hold the records they should and no key twice unless it is in doubt,
\* its records fill the file, no space is lost unless a process died or a store
\* ran out of memory, and what a process has mapped ends where a record ends.
THEOREM FileStaysWellFormed == Spec => []WellFormed
  BY InvInit, InvStep, InvImplies, PTL DEF Spec

-----------------------------------------------------------------------------
(***************************************************************************)
(* The values in the file.                                                 *)
(***************************************************************************)
LEMMA ValueIs ==
    ASSUME NEW d, FileOK(d), NEW k \in Key
    PROVE  /\ ~OnChain(d, k) => ValueOf(d, k) = NoValue
           /\ \A o \in OnList(d, Bucket(k)) : d.rec[o].key = k /\ k \notin d.doubtful =>
                 ValueOf(d, k) = d.rec[o].val
           /\ OnChain(d, k) => ValueOf(d, k) \in Value
           /\ ValueOf(d, k) # NoValue => OnChain(d, k)
  <1>1. ~OnChain(d, k) => ValueOf(d, k) = NoValue
    BY Finds DEF ValueOf
  <1>2. ASSUME OnChain(d, k)
        PROVE  /\ ValueOf(d, k) = d.rec[RecordOf(d, k)].val /\ ValueOf(d, k) \in Value
               /\ RecordOf(d, k) \in OnList(d, Bucket(k)) /\ d.rec[RecordOf(d, k)].key = k
    <2>1. Found(d, k) /\ RecordOf(d, k) \in OnList(d, Bucket(k)) /\ d.rec[RecordOf(d, k)].key = k
      BY <1>2, Finds
    <2>2. Bucket(k) \in Buckets /\ Bucket(k) \in Lists
      BY Hashed
    <2>3. RecordOf(d, k) \in DOMAIN d.rec
      BY <2>1, <2>2 DEF FileOK, Shape, OnList, Range
    <2>4. d.rec[RecordOf(d, k)].val \in Value
      BY <2>1, <2>2, <2>3 DEF FileOK, Sorted, InUse
    <2> QED
      BY <2>1, <2>4 DEF ValueOf
  <1>3. ASSUME NEW o \in OnList(d, Bucket(k)), d.rec[o].key = k, k \notin d.doubtful
        PROVE  ValueOf(d, k) = d.rec[o].val
    <2>1. OnChain(d, k)
      BY <1>3 DEF OnChain
    <2>2. Bucket(k) \in Buckets
      BY Hashed
    <2>3. RecordOf(d, k) = o
      BY <1>2, <1>3, <2>1, <2>2 DEF FileOK, Sorted
    <2> QED
      BY <1>2, <2>1, <2>3
  <1> QED
    BY <1>1, <1>2, <1>3

\* A key that is not in doubt keeps its value where its record stays on its
\* chain.
LEMMA SameValue ==
    ASSUME NEW d, NEW e, FileOK(d), FileOK(e), e.doubtful = d.doubtful, NEW k \in Key \ d.doubtful,
           \A o \in OnList(d, Bucket(k)) : d.rec[o].key = k =>
               o \in OnList(e, Bucket(k)) /\ e.rec[o].key = k /\ e.rec[o].val = d.rec[o].val,
           OnChain(e, k) => OnChain(d, k)
    PROVE  ValueOf(e, k) = ValueOf(d, k)
  <1>1. CASE OnChain(d, k)
    <2>1. PICK o \in OnList(d, Bucket(k)) : d.rec[o].key = k
      BY <1>1 DEF OnChain
    <2>2. ValueOf(d, k) = d.rec[o].val
      BY <2>1, ValueIs
    <2>3. ValueOf(e, k) = e.rec[o].val
      BY <2>1, ValueIs
    <2> QED
      BY <2>1, <2>2, <2>3
  <1>2. CASE ~OnChain(d, k)
    BY <1>2, ValueIs
  <1> QED
    BY <1>1, <1>2

LEMMA UnlinkedValues ==
    ASSUME NEW d, FileOK(d), NEW k \in Key, OnChain(d, k)
    PROVE  LET e == Unlinked(d, k) IN
           /\ e.doubtful = d.doubtful
           /\ k \notin d.doubtful => ValueOf(e, k) = NoValue
           /\ \A j \in Key \ d.doubtful : j # k => ValueOf(e, j) = ValueOf(d, j)
  <1> DEFINE e == Unlinked(d, k)
             r == RecordOf(d, k)
  <1>1. /\ FileOK(e) /\ e.doubtful = d.doubtful /\ e.rec = d.rec /\ d.rec[r].key = k
        /\ OnList(e, Bucket(k)) = OnList(d, Bucket(k)) \ {r}
        /\ \A l \in Lists : l # Bucket(k) => e.list[l] = d.list[l]
        /\ Vacant(e, k)
    BY Unlinks
  <1> HIDE DEF e, r
  <1>2. k \notin d.doubtful => ValueOf(e, k) = NoValue
    BY <1>1, ValueIs DEF Vacant
  <1>3. ASSUME NEW j \in Key \ d.doubtful, j # k PROVE ValueOf(e, j) = ValueOf(d, j)
    <2>1. Bucket(j) \in Lists
      BY Hashed
    <2>2. OnList(e, Bucket(j)) \subseteq OnList(d, Bucket(j)) /\ OnList(d, Bucket(j)) \ {r} \subseteq OnList(e, Bucket(j))
      BY <1>1, <2>1 DEF OnList
    <2>3. OnChain(e, j) => OnChain(d, j)
      BY <1>1, <2>2 DEF OnChain
    <2>4. \A o \in OnList(d, Bucket(j)) : d.rec[o].key = j =>
             o \in OnList(e, Bucket(j)) /\ e.rec[o].key = j /\ e.rec[o].val = d.rec[o].val
      BY <1>1, <1>3, <2>2
    <2> QED
      BY <1>1, <2>3, <2>4, SameValue
  <1> QED
    BY <1>1, <1>2, <1>3 DEF e

LEMMA FreedValues ==
    ASSUME NEW d, FileOK(d), NEW r, Loose(d, r)
    PROVE  /\ Freed(d, r).doubtful = d.doubtful
           /\ \A j \in Key \ d.doubtful : ValueOf(Freed(d, r), j) = ValueOf(d, j)
  <1> DEFINE e == Freed(d, r)
  <1>1. /\ FileOK(e) /\ e.doubtful = d.doubtful /\ \A o \in DOMAIN d.rec : o # r => e.rec[o] = d.rec[o]
        /\ \A l \in Lists : l # Free => e.list[l] = d.list[l]
    BY Frees
  <1> HIDE DEF e
  <1>2. ASSUME NEW j \in Key \ d.doubtful PROVE ValueOf(e, j) = ValueOf(d, j)
    <2>1. Bucket(j) \in Lists /\ Bucket(j) # Free
      BY Hashed
    <2>2. OnList(e, Bucket(j)) = OnList(d, Bucket(j)) /\ r \notin OnList(d, Bucket(j))
      BY <1>1, <2>1 DEF OnList, Loose
    <2>3. \A o \in OnList(d, Bucket(j)) : e.rec[o] = d.rec[o]
      BY <1>1, <2>1, <2>2, OnListInFile
    <2>4. OnChain(e, j) => OnChain(d, j)
      BY <2>2, <2>3 DEF OnChain
    <2> QED
      BY <1>1, <2>2, <2>3, <2>4, SameValue
  <1> QED
    BY <1>1, <1>2 DEF e

LEMMA LinkedValues ==
    ASSUME NEW d, FileOK(d), NEW r, Loose(d, r), NEW k \in Key, NEW v \in Value, Vacant(d, k),
           KeyLen[k] + DataLen[v] <= d.rec[r].len
    PROVE  LET e == Linked(d, r, k, v) IN
           /\ e.doubtful = d.doubtful
           /\ k \notin d.doubtful => ValueOf(e, k) = v
           /\ \A j \in Key \ d.doubtful : j # k => ValueOf(e, j) = ValueOf(d, j)
  <1> DEFINE e == Linked(d, r, k, v)
  <1>1. /\ FileOK(e) /\ e.doubtful = d.doubtful /\ \A o \in DOMAIN d.rec : o # r => e.rec[o] = d.rec[o]
        /\ e.rec[r].key = k /\ e.rec[r].val = v
        /\ OnList(e, Bucket(k)) = OnList(d, Bucket(k)) \cup {r}
        /\ \A l \in Lists : l # Bucket(k) => e.list[l] = d.list[l]
    BY Links
  <1> HIDE DEF e
  <1>2. k \notin d.doubtful => ValueOf(e, k) = v
    BY <1>1, ValueIs
  <1>3. ASSUME NEW j \in Key \ d.doubtful, j # k PROVE ValueOf(e, j) = ValueOf(d, j)
    <2>1. Bucket(j) \in Lists
      BY Hashed
    <2>2. /\ OnList(e, Bucket(j)) \ {r} \subseteq OnList(d, Bucket(j))
          /\ OnList(d, Bucket(j)) \subseteq OnList(e, Bucket(j)) /\ r \notin OnList(d, Bucket(j))
      BY <1>1, <2>1 DEF OnList, Loose
    <2>3. \A o \in OnList(d, Bucket(j)) : e.rec[o] = d.rec[o]
      BY <1>1, <2>1, <2>2, OnListInFile
    <2>4. OnChain(e, j) => OnChain(d, j)
      BY <1>1, <1>3, <2>2, <2>3 DEF OnChain
    <2> QED
      BY <1>1, <2>2, <2>3, <2>4, SameValue
  <1> QED
    BY <1>1, <1>2, <1>3 DEF e

LEMMA UpdatedValues ==
    ASSUME NEW d, FileOK(d), NEW k \in Key, OnChain(d, k), NEW v \in Value,
           KeyLen[k] + DataLen[v] <= d.rec[RecordOf(d, k)].len
    PROVE  LET e == [d EXCEPT !.rec[RecordOf(d, k)].val = v] IN
           /\ e.doubtful = d.doubtful
           /\ k \notin d.doubtful => ValueOf(e, k) = v
           /\ \A j \in Key \ d.doubtful : j # k => ValueOf(e, j) = ValueOf(d, j)
  <1> DEFINE r == RecordOf(d, k)
             e == [d EXCEPT !.rec[RecordOf(d, k)].val = v]
  <1>1. /\ FileOK(e) /\ e.doubtful = d.doubtful /\ e.list = d.list /\ r \in OnList(d, Bucket(k))
        /\ \A o \in DOMAIN d.rec : o # r => e.rec[o] = d.rec[o]
        /\ e.rec[r].key = k /\ e.rec[r].val = v /\ d.rec[r].key = k
    BY Updates
  <1> HIDE DEF e, r
  <1>2. \A j \in Key : OnList(e, Bucket(j)) = OnList(d, Bucket(j))
    BY <1>1 DEF OnList
  <1>3. k \notin d.doubtful => ValueOf(e, k) = v
    BY <1>1, <1>2, ValueIs
  <1>4. ASSUME NEW j \in Key \ d.doubtful, j # k PROVE ValueOf(e, j) = ValueOf(d, j)
    <2>1. Bucket(j) \in Lists
      BY Hashed
    <2>2. \A o \in OnList(d, Bucket(j)) : o = r \/ e.rec[o] = d.rec[o]
      BY <1>1, <2>1, OnListInFile
    <2>3. OnChain(e, j) => OnChain(d, j)
      BY <1>1, <1>2, <1>4, <2>2 DEF OnChain
    <2>4. \A o \in OnList(d, Bucket(j)) : d.rec[o].key = j =>
             o \in OnList(e, Bucket(j)) /\ e.rec[o].key = j /\ e.rec[o].val = d.rec[o].val
      BY <1>1, <1>2, <1>4, <2>2
    <2> QED
      BY <1>1, <2>3, <2>4, SameValue
  <1> QED
    BY <1>1, <1>3, <1>4 DEF e

LEMMA ProvidedValues ==
    ASSUME NEW d, FileOK(d), NEW e, NEW r, NEW n \in Nat, Provision(d, e, r, n)
    PROVE  /\ e.doubtful = d.doubtful
           /\ \A j \in Key \ d.doubtful : ValueOf(e, j) = ValueOf(d, j)
  <1>1. /\ FileOK(e) /\ e.doubtful = d.doubtful /\ \A o \in DOMAIN d.rec : o # r => e.rec[o] = d.rec[o]
        /\ \A l \in Lists : l # Free => e.list[l] = d.list[l]
        /\ r \in DOMAIN d.rec => r \in OnList(d, Free)
    BY DEF Provision
  <1>2. ASSUME NEW j \in Key \ d.doubtful PROVE ValueOf(e, j) = ValueOf(d, j)
    <2>1. Bucket(j) \in Lists /\ Bucket(j) # Free
      BY Hashed
    <2>2. OnList(e, Bucket(j)) = OnList(d, Bucket(j)) /\ OnList(d, Bucket(j)) \subseteq DOMAIN d.rec
      BY <1>1, <2>1, OnListInFile DEF OnList
    <2>3. r \notin OnList(d, Bucket(j))
      BY <1>1, <2>1, <2>2, FreeIsAList DEF FileOK, Sorted
    <2>4. \A o \in OnList(d, Bucket(j)) : e.rec[o] = d.rec[o]
      BY <1>1, <2>2, <2>3
    <2>5. OnChain(e, j) => OnChain(d, j)
      BY <2>2, <2>4 DEF OnChain
    <2> QED
      BY <1>1, <2>2, <2>4, <2>5, SameValue
  <1> QED
    BY <1>1, <1>2

\* A key comes in doubt, or a record is lost: the values are the same.
LEMMA NotedValues ==
    ASSUME NEW d, NEW e, e.list = d.list, e.rec = d.rec
    PROVE  \A j : ValueOf(e, j) = ValueOf(d, j)
  BY DEF ValueOf, Found, RecordOf, Find

-----------------------------------------------------------------------------
(***************************************************************************)
(* The database is a map.  The value that a store took from a chain is on  *)
(* record while that store lasts, and a call has no answer before it took  *)
(* effect.                                                                 *)
(***************************************************************************)
Priors ==
    /\ prior \in [Proc -> Value \cup {NoValue}]
    /\ \A p \in Proc : prior[p] # NoValue <=> Replacing(p)

Pending(p) == pc[p] \notin {"closed", "idle"} /\ ~(pc[p] = "recover" /\ call[p].type = "delete")
Answered == ret = [q \in Proc |-> ret[q]] /\ \A p \in Proc : Pending(p) => ret[p] = "none"

MapInv == Priors /\ Answered

\* A step of p that changes the history of p alone
LEMMA MapInvKept ==
    ASSUME Inv, MapInv, NEW p \in Proc, Only(p), NEW x \in Value \cup {NoValue},
           prior' = [prior EXCEPT ![p] = x], x # NoValue <=> Replacing(p)',
           NEW y, ret' = [ret EXCEPT ![p] = y], Pending(p)' => y = "none"
    PROVE  MapInv'
  <1>1. \A q \in Proc : q # p => pc'[q] = pc[q] /\ call'[q] = call[q]
    BY DEF Inv, Control, Only
  <1>2. \A q \in Proc : q # p => (Replacing(q)' <=> Replacing(q)) /\ (Pending(q)' <=> Pending(q))
    BY <1>1 DEF Replacing, Pending
  <1>3. Priors'
    BY <1>2 DEF MapInv, Priors
  <1>4. /\ ret' = [q \in Proc |-> ret'[q]]
        /\ ret'[p] = y /\ \A q \in Proc : q # p => ret'[q] = ret[q]
    BY DEF MapInv, Answered
  <1>5. Answered'
    BY <1>2, <1>4 DEF MapInv, Answered
  <1> QED
    BY <1>3, <1>5 DEF MapInv

LEMMA HistoryKept ==
    ASSUME MapInv, NEW p \in Proc
    PROVE  /\ prior = [prior EXCEPT ![p] = prior[p]] /\ prior[p] \in Value \cup {NoValue}
           /\ ret = [ret EXCEPT ![p] = ret[p]]
  BY DEF MapInv, Priors, Answered

\* What the readers of a key see: what a store is replacing, or what is in
\* the file.
Replaces(q, k) == Replacing(q) /\ call[q].key = k
VisibleTrue ==
    \A k \in Key : /\ \A q \in Proc : Replaces(q, k) => Visible(k) = prior[q]
                   /\ (\A q \in Proc : ~Replaces(q, k)) => Visible(k) = ValueOf(db, k)

LEMMA VisibleNow == Inv /\ MapInv => VisibleTrue
  <1> SUFFICES ASSUME Inv, MapInv, NEW k \in Key
               PROVE  /\ \A q \in Proc : Replaces(q, k) => Visible(k) = prior[q]
                      /\ (\A q \in Proc : ~Replaces(q, k)) => Visible(k) = ValueOf(db, k)
    BY DEF VisibleTrue
  <1>1. \A q \in Proc : Replaces(q, k) <=> prior[q] # NoValue /\ call[q].key = k
    BY DEF MapInv, Priors, Replaces
  <1>2. ASSUME NEW q \in Proc, Replaces(q, k) PROVE Visible(k) = prior[q]
    <2> DEFINE c == CHOOSE s \in Proc : prior[s] # NoValue /\ call[s].key = k
    <2>1. c \in Proc /\ prior[c] # NoValue /\ call[c].key = k
      BY <1>1, <1>2
    <2>2. Visible(k) = prior[c]
      BY <1>1, <1>2 DEF Visible
    <2> HIDE DEF c
    <2>3. Replaces(c, k)
      BY <1>1, <2>1
    <2>4. locked[c][Bucket(k)] > 0 /\ locked[q][Bucket(k)] > 0
      BY <1>2, <2>1, <2>3 DEF Replaces, Inv, Control, Process
    <2>5. Bucket(k) \in Lists
      BY Hashed
    <2>6. c = q
      BY <2>1, <2>4, <2>5 DEF Inv, Exclusive
    <2> QED
      BY <2>2, <2>6
  <1>3. ASSUME \A q \in Proc : ~Replaces(q, k) PROVE Visible(k) = ValueOf(db, k)
    BY <1>1, <1>3 DEF Visible
  <1> QED
    BY <1>2, <1>3

LEMMA VisibleNext == Inv' /\ MapInv' => VisibleTrue'
  BY VisibleNow, PTL

\* The steps of p that are looked at below
Before(p) == Inv /\ MapInv /\ Only(p)
After(p) == Inv' /\ MapInv' /\ \A q \in Proc : q # p => prior'[q] = prior[q]

LEMMA OthersReplace ==
    ASSUME NEW p \in Proc, Before(p), NEW q \in Proc, q # p, NEW k
    PROVE  Replaces(q, k)' <=> Replaces(q, k)
  <1>1. pc'[q] = pc[q] /\ call'[q] = call[q]
    BY DEF Before, Inv, Control, Only
  <1> QED
    BY <1>1 DEF Replaces, Replacing

LEMMA StillVisible ==
    ASSUME NEW p \in Proc, Before(p), After(p), NEW k \in Key,
           Replaces(p, k)' <=> Replaces(p, k), Replaces(p, k) => prior'[p] = prior[p],
           (\A q \in Proc : ~Replaces(q, k)) => ValueOf(db', k) = ValueOf(db, k)
    PROVE  Visible(k)' = Visible(k)
  <1>1. \A q \in Proc : (Replaces(q, k)' <=> Replaces(q, k)) /\ (Replaces(q, k) => prior'[q] = prior[q])
    BY OthersReplace DEF After
  <1>2. VisibleTrue /\ VisibleTrue'
    BY VisibleNow, VisibleNext DEF Before, After
  <1>3. CASE \E q \in Proc : Replaces(q, k)
    <2>1. PICK q \in Proc : Replaces(q, k)
      BY <1>3
    <2>2. Visible(k) = prior[q]
      BY <1>2, <2>1 DEF VisibleTrue
    <2>3. Visible(k)' = prior'[q]
      BY <1>1, <1>2, <2>1 DEF VisibleTrue
    <2> QED
      BY <1>1, <2>1, <2>2, <2>3
  <1>4. CASE \A q \in Proc : ~Replaces(q, k)
    <2>1. Visible(k) = ValueOf(db, k)
      BY <1>2, <1>4 DEF VisibleTrue
    <2>2. Visible(k)' = ValueOf(db', k)
      BY <1>1, <1>2, <1>4 DEF VisibleTrue
    <2> QED
      BY <1>4, <2>1, <2>2
  <1> QED
    BY <1>3, <1>4

\* Nobody else replaces the value of a key whose chain p may lock.
LEMMA NobodyElse ==
    ASSUME NEW p \in Proc, Inv, NEW k \in Key, MayLock(p, Bucket(k)), NEW q \in Proc, q # p
    PROVE  ~Replaces(q, k)
  <1> SUFFICES ASSUME Replaces(q, k) PROVE FALSE
    OBVIOUS
  <1>1. locked[q][Bucket(k)] > 0
    BY DEF Replaces, Inv, Control, Process
  <1>2. Bucket(k) \in Lists
    BY Hashed
  <1> QED
    BY <1>1, <1>2, OutOfReach DEF Inv, Types

LEMMA InFile ==
    ASSUME NEW p \in Proc, Inv, MapInv, NEW k \in Key, MayLock(p, Bucket(k)), ~Replaces(p, k)
    PROVE  Visible(k) = ValueOf(db, k)
  <1>1. \A q \in Proc : ~Replaces(q, k)
    BY NobodyElse
  <1> QED
    BY <1>1, VisibleNow DEF VisibleTrue

LEMMA InFileNext ==
    ASSUME NEW p \in Proc, Before(p), After(p), NEW k \in Key, MayLock(p, Bucket(k)), ~Replaces(p, k)'
    PROVE  Visible(k)' = ValueOf(db', k)
  <1>1. \A q \in Proc : ~Replaces(q, k)'
    BY NobodyElse, OthersReplace DEF Before
  <1> QED
    BY <1>1, VisibleNext DEF VisibleTrue, After

(***************************************************************************)
(* What a step of p is in TdbMap.                                          *)
(***************************************************************************)
Map == [k \in Key |-> IF k \in db.doubtful THEN NoValue ELSE Visible(k)]
Users == {q \in Proc : pc[q] # "closed"}
Certain == Key \ db.doubtful

LEMMA MapSame ==
    ASSUME db'.doubtful = db.doubtful, \A k \in Certain : Visible(k)' = Visible(k)
    PROVE  Map' = Map
  BY DEF Map, Certain

\* The value of a key changes.  That of a key in doubt is not known.
Sets(k, v) == Map' = IF k \in db.doubtful THEN Map ELSE [Map EXCEPT ![k] = v]

LEMMA MapSets ==
    ASSUME NEW k \in Key, NEW v, k \in Certain => Visible(k)' = v, db'.doubtful = db.doubtful,
           \A j \in Certain : j # k => Visible(j)' = Visible(j)
    PROVE  Sets(k, v)
  <1>1. CASE k \in db.doubtful
    <2>1. \A j \in Certain : Visible(j)' = Visible(j)
      BY <1>1 DEF Certain
    <2> QED
      BY <1>1, <2>1, MapSame DEF Sets
  <1>2. CASE k \notin db.doubtful
    BY <1>2 DEF Map, Sets, Certain
  <1> QED
    BY <1>1, <1>2

LEMMA SetsNone ==
    ASSUME NEW k \in Key, Sets(k, NoValue)
    PROVE  Map' = [Map EXCEPT ![k] = NoValue]
  BY DEF Sets, Map

LEMMA MapDoubts ==
    ASSUME NEW k \in Key, db'.doubtful = db.doubtful \cup {k},
           \A j \in Certain : j # k => Visible(j)' = Visible(j)
    PROVE  Map' = [Map EXCEPT ![k] = NoValue]
  BY DEF Map, Certain

LEMMA MapOf ==
    ASSUME NEW k \in Key
    PROVE  /\ k \in Certain => Map[k] = Visible(k)
           /\ k \notin Certain => Map[k] = NoValue /\ k \in db.doubtful
  BY DEF Map, Certain

LEMMA UsersSame ==
    ASSUME NEW p \in Proc, Before(p), pc[p] # "closed", pc'[p] # "closed"
    PROVE  Users' = Users /\ p \in Users
  <1>1. \A q \in Proc : q # p => pc'[q] = pc[q]
    BY DEF Before, Inv, Control, Only
  <1> QED
    BY <1>1 DEF Users

\* How the memory is
Shortage == shortages' = shortages \/ shortages' = shortages + 1
Same == Users' = Users /\ db'.doubtful = db.doubtful /\ call' = call /\ Shortage

\* The effect of a call with the answer a on a key of which something is known
TakesIt(r, a) ==
    \/ r.type = "store" /\ Map' = Map /\ a = "fail"
    \/ r.type = "store" /\ Map' = Map /\ a = "exists" /\ r.flag = "insert" /\ Map[r.key] # NoValue
    \/ /\ r.type = "store" /\ Map' = [Map EXCEPT ![r.key] = r.val] /\ a = "ok"
       /\ r.flag = "replace" \/ Map[r.key] = NoValue
    \/ /\ r.type = "store" /\ Map' = [Map EXCEPT ![r.key] = NoValue] /\ a = "fail"
       /\ shortages' = shortages + 1
    \/ /\ r.type = "delete" /\ Map' = [Map EXCEPT ![r.key] = NoValue]
       /\ a = IF Map[r.key] = NoValue THEN "fail" ELSE "ok"
    \/ r.type = "delete" /\ Map' = Map /\ a = "fail" /\ shortages' = shortages + 1
    \/ r.type = "fetch" /\ Map' = Map /\ a = Map[r.key]
    \/ r.type = "fetch" /\ Map' = Map /\ a = NoValue /\ shortages' = shortages + 1
    \/ r.type = "exists" /\ Map' = Map /\ a = IF Map[r.key] = NoValue THEN "no" ELSE "yes"
    \/ r.type = "exists" /\ Map' = Map /\ a = "no" /\ shortages' = shortages + 1

LEMMA AsTakes ==
    ASSUME NEW p \in Proc, Same, p \in Users, ret[p] = "none",
           NEW a, ret' = [ret EXCEPT ![p] = a], call[p].type \in {"store", "delete", "fetch", "exists"},
           call[p].key \notin db.doubtful, TakesIt(call[p], a)
    PROVE  Abstract!Next
  <1>1. Abstract!TakesKey(p)
    BY DEF Abstract!TakesKey, Abstract!Answers, Abstract!Short, Map, TakesIt
  <1>2. Abstract!Takes(p)
    BY <1>1 DEF Abstract!Takes, Abstract!MayBeShort, Abstract!Short, Same, Shortage, Users
  <1> QED
    BY <1>2 DEF Abstract!Next

\* A call on a key in doubt
LEMMA AsDoubtful ==
    ASSUME NEW p \in Proc, Same, p \in Users, ret[p] = "none", Map' = Map,
           NEW a, ret' = [ret EXCEPT ![p] = a], ret'[p] = a,
           call[p].type \in {"store", "delete", "fetch", "exists"}, call[p].key \in db.doubtful
    PROVE  Abstract!Next
  <1>1. Abstract!TakesDoubtful(p)
    BY DEF Abstract!TakesDoubtful, Map
  <1>2. Abstract!Takes(p)
    BY <1>1 DEF Abstract!Takes, Abstract!MayBeShort, Abstract!Short, Same, Shortage, Users
  <1> QED
    BY <1>2 DEF Abstract!Next

\* A call that names no key, or gives one
LEMMA AsVisits ==
    ASSUME NEW p \in Proc, Same, p \in Users, ret[p] = "none", Map' = Map,
           NEW a, ret' = [ret EXCEPT ![p] = a],
           \/ /\ call[p].type \in {"firstkey", "nextkey"}
              /\ a \in {k \in Key : Map[k] # NoValue} \cup db.doubtful \cup {"end"}
           \/ call[p].type = "traverse" /\ a \in {"ok", "stopped", "fail"}
    PROVE  Abstract!Next
  <1>1. Abstract!Takes(p)
    <2>1. CASE /\ call[p].type \in {"firstkey", "nextkey"}
               /\ a \in {k \in Key : Map[k] # NoValue} \cup db.doubtful \cup {"end"}
      BY <2>1 DEF Abstract!Takes, Abstract!Answers, Abstract!MayBeShort, Abstract!Short, Same, Shortage, Users, Map
    <2>2. CASE call[p].type = "traverse" /\ a \in {"ok", "stopped", "fail"}
      BY <2>2 DEF Abstract!Takes, Abstract!Answers, Abstract!MayBeShort, Abstract!Short, Same, Shortage, Users, Map
    <2> QED
      BY <2>1, <2>2
  <1> QED
    BY <1>1 DEF Abstract!Next

\* A store puts its key in doubt.
LEMMA AsDoubts ==
    ASSUME NEW p \in Proc, Inv, MapInv, Users' = Users, p \in Users, call' = call, Shortage,
           call[p].type = "store", ret[p] = "none", ret' = ret \/ ret' = [ret EXCEPT ![p] = "ok"],
           NEW k \in Key, k = call[p].key,
           db'.doubtful = db.doubtful \cup {k}, Map' = [Map EXCEPT ![k] = NoValue],
           shortages' = shortages + 1 \/ Contested(p)
    PROVE  Abstract!Next
  <1>1. Contested(p) => Abstract!Rivals(p)
    <2> SUFFICES ASSUME Contested(p) PROVE Abstract!Rivals(p)
      OBVIOUS
    <2>1. PICK q \in Proc \ {p} : /\ call[q].type = "store" /\ pc[q] \in {"allocate", "insert"}
                                 /\ call[q].key = call[p].key
                                 /\ "insert" \in {call[p].flag, call[q].flag}
      BY DEF Contested
    <2>2. ret[q] = "none" /\ q \in Users
      BY <2>1 DEF MapInv, Answered, Pending, Users
    <2> QED
      BY <2>1, <2>2 DEF Abstract!Rivals, Users
  <1>2. Abstract!Doubts(p)
    BY <1>1 DEF Abstract!Doubts, Abstract!MayBeShort, Abstract!Short, Abstract!Answers, Shortage, Users, Map
  <1> QED
    BY <1>2 DEF Abstract!Next

LEMMA ValuesKept ==
    ASSUME NEW p \in Proc, Before(p), After(p), prior' = prior, call' = call,
           Replacing(p)' <=> Replacing(p), db'.doubtful = db.doubtful,
           \A k \in Certain : (\A q \in Proc : ~Replaces(q, k)) => ValueOf(db', k) = ValueOf(db, k)
    PROVE  Map' = Map
  <1>1. \A k : Replaces(p, k)' <=> Replaces(p, k)
    BY DEF Replaces
  <1>2. \A k \in Certain : Visible(k)' = Visible(k)
    BY <1>1, StillVisible DEF Certain
  <1> QED
    BY <1>2, MapSame

\* A step of a call that has not taken effect, and of no store that replaces
\* a value
LEMMA PlainStep ==
    ASSUME NEW p \in Proc, Inv, MapInv, Inv', Only(p), Pending(p), ~Replacing(p), ~Replacing(p)',
           pc'[p] # "closed", call' = call, prior' = prior,
           NEW a, ret' = [ret EXCEPT ![p] = a] \/ (ret' = ret /\ a = "none"), a = "none" \/ ~Pending(p)'
    PROVE  /\ MapInv' /\ Before(p) /\ After(p) /\ ret[p] = "none" /\ Users' = Users /\ p \in Users
           /\ ret' = [ret EXCEPT ![p] = a] /\ ret'[p] = a
  <1>1. ret[p] = "none" /\ prior[p] = NoValue /\ p \in DOMAIN ret
    BY DEF MapInv, Answered, Priors
  <1>2. ret' = [ret EXCEPT ![p] = a] /\ prior' = [prior EXCEPT ![p] = NoValue]
    BY <1>1, HistoryKept
  <1>3. MapInv'
    BY <1>2, MapInvKept
  <1>4. Before(p) /\ After(p)
    BY <1>3 DEF Before, After
  <1>5. pc[p] # "closed"
    BY DEF Pending
  <1> QED
    BY <1>1, <1>2, <1>3, <1>4, <1>5, UsersSame

AbstractVars == <<Map, Users, db.doubtful, shortages, call, ret>>

\* The steps that a key may not survive
Outlast == \A k \in Key : Map[k] # NoValue => Map'[k] # NoValue \/ k \in db'.doubtful
Loses(p) == Deletes(p) \/ StoreLinks(p) \/ TraverseVisits(p) \/ Leave(p) \/ Users = {}

Refined(p) == MapInv' /\ (Abstract!Next \/ UNCHANGED AbstractVars) /\ (Outlast \/ Loses(p))

LEMMA Outlasting ==
    ASSUME \/ Map' = Map
           \/ \E k \in Key, v \in Value : Map' = [Map EXCEPT ![k] = v]
           \/ \E k \in Key : Map' = [Map EXCEPT ![k] = NoValue] /\ k \in db'.doubtful
    PROVE  Outlast
  <1>1. \A k \in Key : k \in DOMAIN Map
    BY DEF Map
  <1>2. NoValue \notin Value
    BY TdbAssumption
  <1> QED
    BY <1>1, <1>2 DEF Outlast

\* A step that the map does not see
LEMMA Unseen ==
    ASSUME NEW p \in Proc, MapInv', Same, Map' = Map, ret' = ret
    PROVE  Refined(p)
  <1>1. CASE shortages' = shortages
    BY <1>1, Outlasting DEF Refined, AbstractVars, Same
  <1>2. CASE shortages' = shortages + 1
    <2>1. Abstract!RunsShort
      BY <1>2 DEF Abstract!RunsShort, Abstract!Short, Same, Users, Map
    <2> QED
      BY <2>1, Outlasting DEF Refined, Abstract!Next
  <1> QED
    BY <1>1, <1>2 DEF Same, Shortage

\* The same for any key
LEMMA AsAnswered ==
    ASSUME NEW p \in Proc, Same, p \in Users, ret[p] = "none",
           NEW a, ret' = [ret EXCEPT ![p] = a], ret'[p] = a,
           call[p].type \in {"store", "delete", "fetch", "exists"},
           call[p].key \notin db.doubtful => TakesIt(call[p], a),
           call[p].key \in db.doubtful => Map' = Map
    PROVE  Abstract!Next
  BY AsTakes, AsDoubtful

LEMMA FetchRefined ==
    ASSUME NEW p \in Proc, Inv, MapInv, Inv', Only(p), Fetches(p) \/ Exists(p)
    PROVE  Refined(p)
  <1> DEFINE k == call[p].key
  <1>0. Types /\ pc \in [Proc -> PCs] /\ FileOK(db)
    BY DEF Inv, Types, Control
  <1>1. PICK a : /\ pc[p] \in {"fetch", "exists"} /\ CanLock(p, Bucket(k)) /\ db' = db
                 /\ prior' = prior /\ call' = call /\ pc' = [pc EXCEPT ![p] = "idle"]
                 /\ ret' = [ret EXCEPT ![p] = a]
                 /\ \/ /\ shortages' = shortages
                       /\ \/ pc[p] = "fetch" /\ a = ValueOf(db, k)
                          \/ pc[p] = "exists" /\ a = IF Found(db, k) THEN "yes" ELSE "no"
                    \/ /\ shortages' = shortages + 1
                       /\ (pc[p] = "fetch" /\ a = NoValue) \/ (pc[p] = "exists" /\ a = "no")
    <2>1. CASE Fetches(p)
      BY <2>1 DEF Fetches, AtChain, Returns, Goes, StepLeaves, history, Remembers, NoMemory
    <2>2. CASE Exists(p)
      BY <2>2 DEF Exists, AtChain, Returns, Goes, StepLeaves, history, Remembers, NoMemory
    <2> QED
      BY <2>1, <2>2
  <1>2. /\ pc'[p] = "idle" /\ call[p].type = pc[p] /\ k \in Key /\ MayLock(p, Bucket(k))
    BY <1>0, <1>1, Positions, Requested DEF Types, MayLock
  <1>3. Pending(p) /\ ~Replacing(p) /\ ~Replacing(p)' /\ ~Pending(p)'
    BY <1>1, <1>2 DEF Pending, Replacing
  <1>4. /\ MapInv' /\ Before(p) /\ After(p) /\ ret[p] = "none" /\ Users' = Users /\ p \in Users
        /\ ret'[p] = a
    BY <1>1, <1>2, <1>3, PlainStep
  <1>5. Map' = Map
    BY <1>1, <1>3, <1>4, ValuesKept
  <1>6. k \notin db.doubtful => Map[k] = ValueOf(db, k)
    BY <1>2, <1>3, InFile, MapOf DEF Certain, Replaces
  <1>7. Same
    BY <1>1, <1>4 DEF Same, Shortage
  <1>8. k \notin db.doubtful => TakesIt(call[p], a)
    <2>1. Found(db, k) <=> ValueOf(db, k) # NoValue
      BY <1>0, <1>2, Finds, ValueIs, TdbAssumption
    <2> QED
      BY <1>1, <1>2, <1>5, <1>6, <2>1 DEF TakesIt
  <1>9. Abstract!Next
    <2>1. call[p].type \in {"fetch", "exists"}
      BY <1>1, <1>2
    <2> QED
      BY <1>1, <1>4, <1>5, <1>7, <1>8, <2>1, AsAnswered
  <1> QED
    BY <1>4, <1>5, <1>9, Outlasting DEF Refined

\* A step of p that changes the value of one key, whose chain it may lock
LEMMA ValueSet ==
    ASSUME NEW p \in Proc, Before(p), After(p), NEW k \in Key, MayLock(p, Bucket(k)), ~Replacing(p)',
           Replacing(p) => call[p].key = k, NEW v, k \in Certain => ValueOf(db', k) = v,
           db'.doubtful = db.doubtful,
           \A j \in Certain : j # k => ValueOf(db', j) = ValueOf(db, j)
    PROVE  Sets(k, v)
  <1>1. k \in Certain => Visible(k)' = v
    BY InFileNext DEF Replaces
  <1>2. ASSUME NEW j \in Certain, j # k PROVE Visible(j)' = Visible(j)
    <2>1. ~Replaces(p, j) /\ ~Replaces(p, j)' /\ j \in Key
      BY <1>2 DEF Replaces, Certain
    <2> QED
      BY <1>2, <2>1, StillVisible
  <1> QED
    BY <1>1, <1>2, MapSets

\* A step of p that puts its key in doubt
LEMMA DoubtSet ==
    ASSUME NEW p \in Proc, Before(p), After(p), NEW k \in Key, ~Replacing(p)', ~Replacing(p),
           db'.doubtful = db.doubtful \cup {k},
           \A j \in Certain : j # k => ValueOf(db', j) = ValueOf(db, j)
    PROVE  Map' = [Map EXCEPT ![k] = NoValue]
  <1>1. ASSUME NEW j \in Certain, j # k PROVE Visible(j)' = Visible(j)
    <2>1. ~Replaces(p, j) /\ ~Replaces(p, j)' /\ j \in Key
      BY <1>1 DEF Replaces, Certain
    <2> QED
      BY <1>1, <2>1, StillVisible
  <1> QED
    BY <1>1, MapDoubts

LEMMA ChecksRefined ==
    ASSUME NEW p \in Proc, Inv, MapInv, Inv', Only(p), StoreChecks(p)
    PROVE  Refined(p)
  <1> DEFINE k == call[p].key
             v == call[p].val
             f == call[p].flag
             o == RecordOf(db, k)
  <1>0. Types /\ pc \in [Proc -> PCs] /\ FileOK(db)
    BY DEF Inv, Types, Control
  <1>1. pc[p] = "store" /\ call' = call /\ prior' = prior /\ CanLock(p, Bucket(k))
    BY DEF StoreChecks, AtChain, StepLeaves, history
  <1>2. call[p].type = "store" /\ k \in Key /\ v \in Value /\ f \in {"replace", "insert"} /\ MayLock(p, Bucket(k))
    BY <1>0, <1>1, Positions, Requested DEF Types, MayLock
  <1>3. Pending(p) /\ ~Replacing(p)
    BY <1>1, <1>2 DEF Pending, Replacing
  <1>4. (k \notin db.doubtful => (Found(db, k) <=> Map[k] # NoValue)) /\ (Found(db, k) <=> OnChain(db, k))
    <2>1. k \notin db.doubtful => Map[k] = ValueOf(db, k)
      BY <1>2, <1>3, InFile, MapOf DEF Certain, Replaces
    <2>2. Found(db, k) <=> ValueOf(db, k) # NoValue
      BY <1>0, <1>2, Finds, ValueIs, TdbAssumption
    <2> QED
      BY <1>0, <1>2, <2>1, <2>2, Finds
  <1>5. \/ /\ db' = db /\ pc' = [pc EXCEPT ![p] = "idle"] /\ f = "insert" /\ Found(db, k)
           /\ ret' = [ret EXCEPT ![p] = "exists"] /\ shortages' = shortages
        \/ /\ f = "replace" /\ Found(db, k) /\ db.rec[o].len >= Size(call[p])
           /\ db' = [db EXCEPT !.rec[o].val = v] /\ pc' = [pc EXCEPT ![p] = "idle"]
           /\ ret' = [ret EXCEPT ![p] = "ok"] /\ shortages' = shortages
        \/ /\ db' = db \/ (db' = Doubted(db, k) /\ (shortages' = shortages + 1 \/ Contested(p)))
           /\ pc' = [pc EXCEPT ![p] = "allocate"] /\ ret' = ret /\ Shortage
    BY DEF StoreChecks, Returns, Goes, Remembers, NoMemory, Shortage
  <1>6. pc'[p] \in {"idle", "allocate"} /\ pc'[p] # "closed" /\ ~Replacing(p)' /\ (pc'[p] = "idle" => ~Pending(p)')
    <2>1. pc'[p] \in {"idle", "allocate"}
      BY <1>0, <1>5
    <2> QED
      BY <2>1 DEF Replacing, Pending
  <1>7. CASE db' = db /\ pc' = [pc EXCEPT ![p] = "idle"] /\ f = "insert" /\ Found(db, k)
             /\ ret' = [ret EXCEPT ![p] = "exists"] /\ shortages' = shortages
    <2>1. pc'[p] = "idle"
      BY <1>0, <1>7
    <2>2. /\ MapInv' /\ Before(p) /\ After(p) /\ ret[p] = "none" /\ Users' = Users /\ p \in Users
          /\ ret'[p] = "exists"
      BY <1>1, <1>3, <1>6, <1>7, <2>1, PlainStep
    <2>3. Map' = Map
      BY <1>1, <1>3, <1>6, <1>7, <2>2, ValuesKept
    <2>4. Same /\ (k \notin db.doubtful => TakesIt(call[p], "exists"))
      BY <1>1, <1>2, <1>4, <1>7, <2>2, <2>3 DEF Same, Shortage, TakesIt
    <2>5. Abstract!Next
      BY <1>2, <1>7, <2>2, <2>3, <2>4, AsAnswered
    <2> QED
      BY <2>2, <2>3, <2>5, Outlasting DEF Refined
  <1>8. CASE /\ f = "replace" /\ Found(db, k) /\ db.rec[o].len >= Size(call[p])
             /\ db' = [db EXCEPT !.rec[o].val = v] /\ pc' = [pc EXCEPT ![p] = "idle"]
             /\ ret' = [ret EXCEPT ![p] = "ok"] /\ shortages' = shortages
    <2>1. pc'[p] = "idle"
      BY <1>0, <1>8
    <2>2. /\ MapInv' /\ Before(p) /\ After(p) /\ ret[p] = "none" /\ Users' = Users /\ p \in Users
          /\ ret'[p] = "ok"
      BY <1>1, <1>3, <1>6, <1>8, <2>1, PlainStep
    <2>3. KeyLen[k] + DataLen[v] <= db.rec[o].len
      <3>1. KeyLen[k] \in Nat /\ DataLen[v] \in Nat
        BY <1>2, TdbAssumption
      <3>2. o \in OnList(db, Bucket(k))
        BY <1>0, <1>2, <1>8, Finds
      <3>3. db.rec[o].len \in Nat
        BY <1>0, <1>2, <3>2, Hashed, OnListInFile DEF FileOK, Shape, Record
      <3> QED
        BY <1>8, <3>1, <3>3 DEF Size
    <2> HIDE DEF k, v, f
    <2>4. /\ db'.doubtful = db.doubtful /\ (k \in Certain => ValueOf(db', k) = v)
          /\ \A j \in Certain : j # k => ValueOf(db', j) = ValueOf(db, j)
      BY <1>0, <1>2, <1>4, <1>8, <2>3, UpdatedValues DEF Certain
    <2>5. Sets(k, v)
      BY <1>2, <1>3, <1>6, <2>2, <2>4, ValueSet
    <2>6. Same /\ (call[p].key \notin db.doubtful => TakesIt(call[p], "ok"))
               /\ (call[p].key \in db.doubtful => Map' = Map)
      BY <1>1, <1>2, <1>8, <2>2, <2>4, <2>5 DEF Same, Shortage, TakesIt, Sets, k, v, f
    <2>7. Abstract!Next
      BY <1>2, <1>8, <2>2, <2>6, AsAnswered
    <2> QED
      BY <1>2, <2>2, <2>5, <2>7, Outlasting DEF Refined, Sets
  <1>9. CASE db' = db /\ pc' = [pc EXCEPT ![p] = "allocate"] /\ ret' = ret /\ Shortage
    <2>1. MapInv' /\ Before(p) /\ After(p) /\ ret[p] = "none" /\ Users' = Users /\ p \in Users
      BY <1>1, <1>3, <1>6, <1>9, PlainStep
    <2>2. Map' = Map
      BY <1>1, <1>3, <1>6, <1>9, <2>1, ValuesKept
    <2> QED
      BY <1>1, <1>9, <2>1, <2>2, Unseen DEF Same
  <1>10. CASE /\ db' = Doubted(db, k) /\ (shortages' = shortages + 1 \/ Contested(p))
              /\ pc' = [pc EXCEPT ![p] = "allocate"] /\ ret' = ret /\ Shortage
    <2>1. MapInv' /\ Before(p) /\ After(p) /\ ret[p] = "none" /\ Users' = Users /\ p \in Users
      BY <1>1, <1>3, <1>6, <1>10, PlainStep
    <2>2. db'.list = db.list /\ db'.rec = db.rec /\ db'.doubtful = db.doubtful \cup {k}
      BY <1>0, <1>2, <1>10, Doubting
    <2>3. \A j : ValueOf(db', j) = ValueOf(db, j)
      BY <2>2, NotedValues
    <2>4. Map' = [Map EXCEPT ![k] = NoValue]
      BY <1>2, <1>3, <1>6, <2>1, <2>2, <2>3, DoubtSet
    <2>5. Abstract!Next
      BY <1>1, <1>2, <1>10, <2>1, <2>2, <2>4, AsDoubts
    <2>6. Outlast
      BY <1>2, <2>2, <2>4, Outlasting
    <2> QED
      BY <2>1, <2>5, <2>6 DEF Refined
  <1> QED
    BY <1>5, <1>7, <1>8, <1>9, <1>10

LEMMA AllocatesRefined ==
    ASSUME NEW p \in Proc, Inv, MapInv, Inv', Only(p), StoreAllocates(p)
    PROVE  Refined(p)
  <1> DEFINE n == Size(call[p])
             fits == FirstFit(db, n) # 0
             grown == Expanded(db, n + Hdr)
             a == Allocated(IF fits THEN db ELSE grown, n)
  <1>0. Types /\ pc \in [Proc -> PCs] /\ FileOK(db)
    BY DEF Inv, Types, Control
  <1>1. pc[p] = "allocate" /\ prior' = prior /\ call' = call /\ shortages' = shortages
    BY DEF StoreAllocates, StepLeaves, history
  <1>2. call[p].type = "store" /\ n \in Nat
    BY <1>0, <1>1, Positions, Requested DEF Types
  <1>3. Pending(p) /\ ~Replacing(p)
    BY <1>1, <1>2 DEF Pending, Replacing
  <1>4. Provision(db, a.file, a.ptr, n)
    BY <1>0, <1>2, Provides
  <1>5. a.file.doubtful = db.doubtful /\ \A j \in Certain : ValueOf(a.file, j) = ValueOf(db, j)
    <2> HIDE DEF a, n
    <2> QED
      BY <1>0, <1>2, <1>4, ProvidedValues DEF Certain
  <1> HIDE DEF a
  <1>6. \/ db' = a.file /\ pc' = [pc EXCEPT ![p] = "insert"] /\ ret' = ret
        \/ db' = db /\ pc' = [pc EXCEPT ![p] = "idle"] /\ ret' = [ret EXCEPT ![p] = "fail"]
    BY DEF StoreAllocates, Returns, Goes, a
  <1>7. db'.doubtful = db.doubtful /\ \A j \in Certain : ValueOf(db', j) = ValueOf(db, j)
    BY <1>5, <1>6
  <1>8. PICK x : /\ ret' = [ret EXCEPT ![p] = x] \/ (ret' = ret /\ x = "none")
                 /\ \/ pc'[p] = "insert" /\ x = "none" /\ ret' = ret
                    \/ pc'[p] = "idle" /\ x = "fail"
    BY <1>0, <1>6
  <1>9. pc'[p] # "closed" /\ ~Replacing(p)' /\ (pc'[p] = "idle" => ~Pending(p)')
    BY <1>8 DEF Replacing, Pending
  <1>10. /\ MapInv' /\ Before(p) /\ After(p) /\ ret[p] = "none" /\ Users' = Users /\ p \in Users
         /\ ret' = [ret EXCEPT ![p] = x] /\ ret'[p] = x
    BY <1>1, <1>3, <1>8, <1>9, PlainStep
  <1>11. Map' = Map
    BY <1>1, <1>3, <1>7, <1>9, <1>10, ValuesKept
  <1>14. Same
    BY <1>1, <1>7, <1>10 DEF Same, Shortage
  <1>12. CASE pc'[p] = "insert" /\ ret' = ret
    BY <1>10, <1>11, <1>12, <1>14, Unseen
  <1>13. CASE x = "fail"
    <2>1. Abstract!Next
      BY <1>2, <1>10, <1>11, <1>13, <1>14, AsAnswered DEF TakesIt
    <2> QED
      BY <1>10, <1>11, <2>1, Outlasting DEF Refined
  <1> QED
    BY <1>8, <1>12, <1>13

\* The value that a store takes from a chain stays visible.
LEMMA ReplacementStarts ==
    ASSUME NEW p \in Proc, Before(p), After(p), NEW k \in Key, MayLock(p, Bucket(k)), k = call[p].key,
           call' = call, ~Replacing(p), Replacing(p)', prior'[p] = ValueOf(db, k),
           db'.doubtful = db.doubtful,
           \A j \in Certain : j # k => ValueOf(db', j) = ValueOf(db, j)
    PROVE  Map' = Map
  <1>1. Visible(k) = ValueOf(db, k)
    BY InFile DEF Before, Replaces
  <1>2. Replaces(p, k)'
    BY DEF Replaces
  <1>3. VisibleTrue'
    BY VisibleNext DEF After
  <1>4. Visible(k)' = prior'[p]
    BY <1>2, <1>3 DEF VisibleTrue
  <1>5. ASSUME NEW j \in Certain, j # k PROVE Visible(j)' = Visible(j)
    <2>1. ~Replaces(p, j) /\ ~Replaces(p, j)' /\ j \in Key
      BY <1>5 DEF Replaces, Certain
    <2> QED
      BY <1>5, <2>1, StillVisible
  <1>6. \A j \in Certain : Visible(j)' = Visible(j)
    BY <1>1, <1>4, <1>5
  <1> QED
    BY <1>6, MapSame

LEMMA InsertsRefined ==
    ASSUME NEW p \in Proc, Inv, MapInv, Inv', Only(p), StoreInserts(p)
    PROVE  Refined(p)
  <1> DEFINE k == call[p].key
             v == call[p].val
             f == call[p].flag
             r == rec_ptr[p]
  <1>0. Types /\ pc \in [Proc -> PCs] /\ FileOK(db) /\ prior \in [Proc -> Value \cup {NoValue}]
    BY DEF Inv, Types, Control, MapInv, Priors
  <1>1. pc[p] = "insert" /\ call' = call /\ CanLock(p, Bucket(k))
    BY DEF StoreInserts, AtChain, StepLeaves
  <1>2. call[p].type = "store" /\ k \in Key /\ v \in Value /\ f \in {"replace", "insert"} /\ MayLock(p, Bucket(k))
    BY <1>0, <1>1, Positions, Requested DEF Types, MayLock
  <1>3. Pending(p) /\ ~Replacing(p) /\ Storing(p) /\ ret[p] = "none"
    BY <1>1, <1>2 DEF Pending, Replacing, Storing, MapInv, Answered
  <1>4. k \notin db.doubtful => Map[k] = ValueOf(db, k)
    BY <1>2, <1>3, InFile, MapOf DEF Certain, Replaces
  <1>5. Loose(db, r) /\ db.rec[r].len >= Size(call[p]) /\ r \in DOMAIN db.rec
    BY <1>3 DEF Inv, Hands, Loose
  <1>6. KeyLen[k] + DataLen[v] <= db.rec[r].len
    <2>1. KeyLen[k] \in Nat /\ DataLen[v] \in Nat
      BY <1>2, TdbAssumption
    <2>2. db.rec[r].len \in Nat
      BY <1>0, <1>5 DEF FileOK, Shape, Record
    <2> QED
      BY <1>5, <2>1, <2>2 DEF Size
  <1>7. CASE /\ f = "replace" /\ Found(db, k) /\ shortages' = shortages
             /\ db' = Unlinked(db, k) /\ prior' = [prior EXCEPT ![p] = ValueOf(db, k)]
             /\ pc' = [pc EXCEPT ![p] = "recover"] /\ ret' = ret
    <2>2. OnChain(db, k) /\ ValueOf(db, k) \in Value /\ ValueOf(db, k) # NoValue
      BY <1>0, <1>2, <1>7, Finds, ValueIs, TdbAssumption
    <2>3. pc'[p] = "recover" /\ Replacing(p)' /\ pc[p] # "closed"
      BY <1>0, <1>1, <1>2, <1>7 DEF Replacing
    <2>4. ret' = [ret EXCEPT ![p] = "none"]
      BY <1>3, <1>7, HistoryKept
    <2> HIDE DEF k
    <2>5. MapInv'
      BY <1>7, <2>2, <2>3, <2>4, MapInvKept
    <2>6. Before(p) /\ After(p) /\ prior'[p] = ValueOf(db, k)
      BY <1>0, <1>7, <2>5 DEF Before, After
    <2>7. db'.doubtful = db.doubtful /\ \A j \in Certain : j # k => ValueOf(db', j) = ValueOf(db, j)
      BY <1>0, <1>2, <1>7, <2>2, UnlinkedValues DEF Certain
    <2>8. Map' = Map
      <3>1. k = call[p].key /\ ~Replacing(p)
        BY <1>3 DEF k
      <3> QED
        BY <1>1, <1>2, <2>3, <2>6, <2>7, <3>1, ReplacementStarts
    <2>9. Users' = Users
      BY <2>3, <2>6, UsersSame
    <2> QED
      BY <1>1, <1>7, <2>5, <2>7, <2>8, <2>9, Unseen DEF Same, Shortage
  <1>8. ASSUME NEW a, prior' = prior, pc' = [pc EXCEPT ![p] = "idle"], ret' = [ret EXCEPT ![p] = a]
        PROVE  /\ MapInv' /\ Before(p) /\ After(p) /\ Users' = Users /\ p \in Users
               /\ ret'[p] = a /\ ~Replacing(p)'
    <2>1. pc'[p] = "idle" /\ ~Replacing(p)' /\ ~Pending(p)' /\ pc'[p] # "closed"
      BY <1>0, <1>8 DEF Replacing, Pending
    <2> QED
      BY <1>1, <1>3, <1>8, <2>1, PlainStep
  <1>9. CASE /\ ~(f = "replace" /\ Found(db, k)) /\ shortages' = shortages
             /\ db' = Linked(db, r, k, v) /\ prior' = prior
             /\ pc' = [pc EXCEPT ![p] = "idle"] /\ ret' = [ret EXCEPT ![p] = "ok"]
    <2>1. /\ MapInv' /\ Before(p) /\ After(p) /\ Users' = Users /\ p \in Users
          /\ ret'[p] = "ok" /\ ~Replacing(p)'
      BY <1>8, <1>9
    <2>2. Vacant(db, k)
      <3>1. CASE f = "replace"
        BY <1>0, <1>2, <1>9, <3>1, Finds DEF Vacant
      <3>2. CASE f = "insert"
        <4>1. Awaited(p)
          BY <1>1, <1>2, <3>2 DEF Awaited
        <4> QED
          BY <4>1 DEF Inv, Hands
      <3> QED
        BY <1>2, <3>1, <3>2
    <2> HIDE DEF k, v, f, r
    <2>3. /\ db'.doubtful = db.doubtful /\ (k \in Certain => ValueOf(db', k) = v)
          /\ \A j \in Certain : j # k => ValueOf(db', j) = ValueOf(db, j)
      BY <1>0, <1>2, <1>5, <1>6, <1>9, <2>2, LinkedValues DEF Certain
    <2>4. Sets(k, v)
      BY <1>2, <1>3, <2>1, <2>3, ValueSet
    <2>5. k \notin db.doubtful => Map[k] = NoValue
      BY <1>0, <1>2, <1>4, <2>2, ValueIs DEF Vacant
    <2>6. /\ Same /\ (call[p].key \notin db.doubtful => TakesIt(call[p], "ok"))
          /\ (call[p].key \in db.doubtful => Map' = Map)
      BY <1>1, <1>2, <1>9, <2>1, <2>3, <2>4, <2>5 DEF Same, Shortage, TakesIt, Sets, k, v, f
    <2>7. Abstract!Next
      BY <1>2, <1>3, <1>9, <2>1, <2>6, AsAnswered
    <2> QED
      BY <1>2, <2>1, <2>4, <2>7, Outlasting DEF Refined, Sets
  <1>10. CASE /\ shortages' = shortages + 1 /\ db' = Linked(Doubted(db, k), r, k, v) /\ prior' = prior
              /\ pc' = [pc EXCEPT ![p] = "idle"] /\ ret' = [ret EXCEPT ![p] = "ok"]
    <2>1. /\ MapInv' /\ Before(p) /\ After(p) /\ Users' = Users /\ p \in Users /\ ~Replacing(p)'
      BY <1>8, <1>10
    <2> DEFINE d == Doubted(db, k)
    <2>2. FileOK(d) /\ d.list = db.list /\ d.rec = db.rec /\ d.doubtful = db.doubtful \cup {k}
      BY <1>0, <1>2, Doubting
    <2> HIDE DEF d
    <2>3. Loose(d, r) /\ Vacant(d, k) /\ KeyLen[k] + DataLen[v] <= d.rec[r].len
      BY <1>5, <1>6, <2>2 DEF Loose, OnList, Vacant
    <2>4. db' = Linked(d, r, k, v)
      BY <1>10 DEF d
    <2> HIDE DEF k, v, f, r
    <2>5. db'.doubtful = d.doubtful /\ \A j \in Key \ d.doubtful : j # k => ValueOf(db', j) = ValueOf(d, j)
      BY <1>2, <2>2, <2>3, <2>4, LinkedValues
    <2>6. \A j : ValueOf(d, j) = ValueOf(db, j)
      BY <2>2, NotedValues
    <2>7. db'.doubtful = db.doubtful \cup {k} /\ \A j \in Certain : j # k => ValueOf(db', j) = ValueOf(db, j)
      BY <2>2, <2>5, <2>6 DEF Certain
    <2>8. Map' = [Map EXCEPT ![k] = NoValue]
      BY <1>2, <1>3, <2>1, <2>7, DoubtSet
    <2>9. k = call[p].key
      BY DEF k
    <2>10. Abstract!Next
      BY <1>1, <1>2, <1>3, <1>10, <2>1, <2>7, <2>8, <2>9, AsDoubts DEF Shortage
    <2>11. Outlast
      BY <1>2, <2>7, <2>8, Outlasting
    <2> QED
      BY <2>1, <2>10, <2>11 DEF Refined
  <1>11. CASE /\ shortages' = shortages + 1 /\ db' = Lost(db, r) /\ prior' = prior
              /\ pc' = [pc EXCEPT ![p] = "idle"] /\ ret' = [ret EXCEPT ![p] = "fail"]
    <2>1. /\ MapInv' /\ Before(p) /\ After(p) /\ Users' = Users /\ p \in Users
          /\ ret'[p] = "fail" /\ ~Replacing(p)'
      BY <1>8, <1>11
    <2>2. db'.list = db.list /\ db'.rec = db.rec /\ db'.doubtful = db.doubtful
      BY <1>0, <1>5, <1>11, Losing
    <2>3. \A j : ValueOf(db', j) = ValueOf(db, j)
      BY <2>2, NotedValues
    <2>4. Map' = Map
      BY <1>1, <1>3, <1>11, <2>1, <2>2, <2>3, ValuesKept
    <2>5. Same
      BY <1>1, <1>11, <2>1, <2>2 DEF Same, Shortage
    <2>6. Abstract!Next
      BY <1>2, <1>3, <1>11, <2>1, <2>4, <2>5, AsAnswered DEF TakesIt
    <2> QED
      BY <2>1, <2>4, <2>6, Outlasting DEF Refined
  <1>12. \/ /\ f = "replace" /\ Found(db, k) /\ shortages' = shortages
            /\ db' = Unlinked(db, k) /\ prior' = [prior EXCEPT ![p] = ValueOf(db, k)]
            /\ pc' = [pc EXCEPT ![p] = "recover"] /\ ret' = ret
         \/ /\ ~(f = "replace" /\ Found(db, k)) /\ shortages' = shortages
            /\ db' = Linked(db, r, k, v) /\ prior' = prior
            /\ pc' = [pc EXCEPT ![p] = "idle"] /\ ret' = [ret EXCEPT ![p] = "ok"]
         \/ /\ shortages' = shortages + 1 /\ db' = Linked(Doubted(db, k), r, k, v) /\ prior' = prior
            /\ pc' = [pc EXCEPT ![p] = "idle"] /\ ret' = [ret EXCEPT ![p] = "ok"]
         \/ /\ shortages' = shortages + 1 /\ db' = Lost(db, r) /\ prior' = prior
            /\ pc' = [pc EXCEPT ![p] = "idle"] /\ ret' = [ret EXCEPT ![p] = "fail"]
    BY DEF StoreInserts, Returns, Goes, Remembers, NoMemory
  <1> HIDE DEF k, v, f, r
  <1> QED
    BY <1>7, <1>9, <1>10, <1>11, <1>12

LEMMA LinksRefined ==
    ASSUME NEW p \in Proc, Inv, MapInv, Inv', Only(p), StoreLinks(p)
    PROVE  Refined(p)
  <1> DEFINE k == call[p].key
             v == call[p].val
             r == rec_ptr[p]
  <1>0. /\ Types /\ pc \in [Proc -> PCs] /\ FileOK(db) /\ Process(p) /\ Hands(p)
        /\ prior \in [Proc -> Value \cup {NoValue}]
    BY DEF Inv, Types, Control, MapInv, Priors
  <1>1. pc[p] = "link" /\ call' = call /\ prior' = [prior EXCEPT ![p] = NoValue]
    BY DEF StoreLinks, StepLeaves
  <1>2. call[p].type = "store" /\ k \in Key /\ v \in Value
    BY <1>0, <1>1, Positions, Requested DEF Types
  <1>3. Pending(p) /\ Replacing(p) /\ Storing(p) /\ Awaited(p) /\ ret[p] = "none"
    BY <1>1, <1>2 DEF Pending, Replacing, Storing, Awaited, MapInv, Answered
  <1>4. /\ MayLock(p, Bucket(k)) /\ Vacant(db, k) /\ call[p].flag = "replace"
        /\ Loose(db, r) /\ r \in DOMAIN db.rec /\ db.rec[r].magic = "free"
        /\ db.rec[r].len >= Size(call[p])
    BY <1>0, <1>3 DEF Process, MayLock, Hands, Loose
  <1>5. PICK a : /\ pc' = [pc EXCEPT ![p] = "idle"] /\ ret' = [ret EXCEPT ![p] = a]
                 /\ \/ db' = Linked(db, r, k, v) /\ a = "ok" /\ shortages' = shortages
                    \/ db' = Lost(db, r) /\ a = "fail" /\ shortages' = shortages + 1
    BY <1>4 DEF StoreLinks, Returns, Goes, Remembers, NoMemory
  <1>6. pc'[p] = "idle" /\ ~Replacing(p)' /\ ~Pending(p)' /\ pc'[p] # "closed" /\ pc[p] # "closed"
    BY <1>0, <1>1, <1>5 DEF Replacing, Pending
  <1>7. MapInv' /\ ret'[p] = a
    <2>1. MapInv'
      BY <1>1, <1>5, <1>6, MapInvKept
    <2> QED
      BY <1>5, <2>1 DEF MapInv, Answered
  <1>8. Before(p) /\ After(p)
    BY <1>0, <1>1, <1>7 DEF Before, After
  <1>9. Users' = Users /\ p \in Users
    BY <1>6, <1>8, UsersSame
  <1>10. KeyLen[k] + DataLen[v] <= db.rec[r].len
    <2>1. KeyLen[k] \in Nat /\ DataLen[v] \in Nat
      BY <1>2, TdbAssumption
    <2>2. db.rec[r].len \in Nat
      BY <1>0, <1>4 DEF FileOK, Shape, Record
    <2> QED
      BY <1>4, <2>1, <2>2 DEF Size
  <1>12. call[p].key = k
    OBVIOUS
  <1> HIDE DEF k, v, r
  <1>13. CASE db' = Linked(db, r, k, v) /\ a = "ok" /\ shortages' = shortages
    <2>1. /\ db'.doubtful = db.doubtful /\ (k \in Certain => ValueOf(db', k) = v)
          /\ \A j \in Certain : j # k => ValueOf(db', j) = ValueOf(db, j)
      BY <1>0, <1>2, <1>4, <1>10, <1>13, LinkedValues DEF Certain
    <2>2. Sets(k, v)
      BY <1>2, <1>4, <1>6, <1>8, <1>12, <2>1, ValueSet
    <2>3. /\ Same /\ (call[p].key \notin db.doubtful => TakesIt(call[p], a))
          /\ (call[p].key \in db.doubtful => Map' = Map)
      BY <1>1, <1>2, <1>4, <1>9, <1>13, <2>1, <2>2 DEF Same, Shortage, TakesIt, Sets, k, v
    <2> QED
      BY <1>2, <1>3, <1>5, <1>7, <1>9, <2>3, AsAnswered DEF Refined, Loses
  <1>14. CASE db' = Lost(db, r) /\ a = "fail" /\ shortages' = shortages + 1
    <2>1. db'.list = db.list /\ db'.rec = db.rec /\ db'.doubtful = db.doubtful
      BY <1>0, <1>4, <1>14, Losing
    <2>2. \A j : ValueOf(db', j) = ValueOf(db, j)
      BY <2>1, NotedValues
    <2>3. k \in Certain => ValueOf(db', k) = NoValue
      BY <1>0, <1>2, <1>4, <2>2, ValueIs DEF Certain, Vacant
    <2>4. Sets(k, NoValue)
      BY <1>2, <1>4, <1>6, <1>8, <1>12, <2>1, <2>2, <2>3, ValueSet
    <2>5. /\ Same /\ (call[p].key \notin db.doubtful => TakesIt(call[p], a))
          /\ (call[p].key \in db.doubtful => Map' = Map)
      BY <1>1, <1>2, <1>4, <1>9, <1>14, <2>1, <2>4 DEF Same, Shortage, TakesIt, Sets, k, v
    <2> QED
      BY <1>2, <1>3, <1>5, <1>7, <1>9, <2>5, AsAnswered DEF Refined, Loses
  <1> QED
    BY <1>5, <1>13, <1>14

LEMMA RecoversRefined ==
    ASSUME NEW p \in Proc, Inv, MapInv, Inv', Only(p), Recovers(p)
    PROVE  Refined(p)
  <1>0. Types /\ pc \in [Proc -> PCs] /\ FileOK(db)
    BY DEF Inv, Types, Control
  <1>1. /\ pc[p] = "recover" /\ call' = call /\ prior' = prior /\ ret' = ret /\ db' = Freed(db, old[p])
        /\ shortages' = shortages
        /\ pc' = [pc EXCEPT ![p] = CASE call[p].type = "store" -> "link"
                                     [] call[p].type = "delete" -> "idle" [] OTHER -> "visit"]
    BY DEF Recovers, StepLeaves, history, Goes
  <1>2. /\ pc'[p] = IF call[p].type = "store" THEN "link"
                    ELSE IF call[p].type = "delete" THEN "idle" ELSE "visit"
        /\ call[p].type \in {"store", "delete", "traverse"}
    BY <1>0, <1>1, Positions DEF Types
  <1>3. (Replacing(p)' <=> Replacing(p)) /\ (Pending(p)' <=> Pending(p)) /\ pc[p] # "closed" /\ pc'[p] # "closed"
    BY <1>1, <1>2 DEF Replacing, Pending
  <1>4. MapInv'
    <2>1. /\ prior' = [prior EXCEPT ![p] = prior[p]] /\ prior[p] \in Value \cup {NoValue}
          /\ ret' = [ret EXCEPT ![p] = ret[p]]
      BY <1>1, HistoryKept
    <2>2. (prior[p] # NoValue <=> Replacing(p)') /\ (Pending(p)' => ret[p] = "none")
      BY <1>3 DEF MapInv, Priors, Answered
    <2> QED
      BY <2>1, <2>2, MapInvKept
  <1>5. Before(p) /\ After(p)
    BY <1>1, <1>4 DEF Before, After
  <1>6. Loose(db, old[p])
    BY <1>1 DEF Inv, Hands
  <1>7. db'.doubtful = db.doubtful /\ \A j \in Certain : ValueOf(db', j) = ValueOf(db, j)
    BY <1>0, <1>1, <1>6, FreedValues DEF Certain
  <1>8. Map' = Map /\ Users' = Users
    BY <1>1, <1>3, <1>5, <1>7, ValuesKept, UsersSame
  <1> QED
    BY <1>1, <1>4, <1>7, <1>8, Unseen DEF Same, Shortage

LEMMA DeletesRefined ==
    ASSUME NEW p \in Proc, Inv, MapInv, Inv', Only(p), Deletes(p)
    PROVE  Refined(p)
  <1> DEFINE k == call[p].key
  <1>0. Types /\ pc \in [Proc -> PCs] /\ FileOK(db)
    BY DEF Inv, Types, Control
  <1>1. pc[p] = "delete" /\ call' = call /\ prior' = prior /\ CanLock(p, Bucket(k))
    BY DEF Deletes, AtChain, StepLeaves
  <1>2. call[p].type = "delete" /\ k \in Key /\ MayLock(p, Bucket(k))
    BY <1>0, <1>1, Positions, Requested DEF Types, MayLock
  <1>3. Pending(p) /\ ~Replacing(p) /\ ~Replacing(p)'
    BY <1>1, <1>2 DEF Pending, Replacing
  <1>4. (k \notin db.doubtful => (Found(db, k) <=> Map[k] # NoValue)) /\ (Found(db, k) <=> OnChain(db, k))
    <2>1. k \notin db.doubtful => Map[k] = ValueOf(db, k)
      BY <1>2, <1>3, InFile, MapOf DEF Certain, Replaces
    <2>2. Found(db, k) <=> ValueOf(db, k) # NoValue
      BY <1>0, <1>2, Finds, ValueIs, TdbAssumption
    <2> QED
      BY <1>0, <1>2, <2>1, <2>2, Finds
  <1>5. PICK a, l : /\ ret' = [ret EXCEPT ![p] = a] /\ pc' = [pc EXCEPT ![p] = l]
                    /\ \/ /\ Found(db, k) /\ db' = Unlinked(db, k) /\ a = "ok" /\ l = "recover"
                          /\ shortages' = shortages
                       \/ ~Found(db, k) /\ db' = db /\ a = "fail" /\ l = "idle" /\ shortages' = shortages
                       \/ db' = db /\ a = "fail" /\ l = "idle" /\ shortages' = shortages + 1
    BY DEF Deletes, Returns, Goes, Remembers, NoMemory
  <1>6. pc'[p] \in {"idle", "recover"} /\ pc'[p] # "closed" /\ ~Pending(p)'
    <2>1. pc'[p] \in {"idle", "recover"}
      BY <1>0, <1>5
    <2> QED
      BY <1>1, <1>2, <2>1 DEF Pending
  <1>7. /\ MapInv' /\ Before(p) /\ After(p) /\ ret[p] = "none" /\ Users' = Users /\ p \in Users
        /\ ret'[p] = a
    BY <1>1, <1>3, <1>5, <1>6, PlainStep
  <1>11. call[p].key = k
    OBVIOUS
  <1> HIDE DEF k
  <1>8. ASSUME db'.doubtful = db.doubtful, shortages' = shortages \/ shortages' = shortages + 1,
               k \notin db.doubtful => TakesIt(call[p], a), k \in db.doubtful => Map' = Map
        PROVE  Refined(p)
    <2>1. Same
      BY <1>1, <1>7, <1>8 DEF Same, Shortage
    <2> QED
      BY <1>2, <1>5, <1>7, <1>8, <1>11, <2>1, AsAnswered DEF Refined, Loses
  <1>9. CASE \/ Found(db, k) /\ db' = Unlinked(db, k) /\ a = "ok" /\ shortages' = shortages
             \/ ~Found(db, k) /\ db' = db /\ a = "fail" /\ shortages' = shortages
    <2>1. /\ db'.doubtful = db.doubtful /\ (k \in Certain => ValueOf(db', k) = NoValue)
          /\ \A j \in Certain : j # k => ValueOf(db', j) = ValueOf(db, j)
      <3>1. CASE Found(db, k)
        BY <1>0, <1>2, <1>4, <1>9, <3>1, UnlinkedValues DEF Certain
      <3>2. CASE ~Found(db, k)
        BY <1>0, <1>2, <1>4, <1>9, <3>2, ValueIs
      <3> QED
        BY <3>1, <3>2
    <2>2. Sets(k, NoValue)
      BY <1>2, <1>3, <1>7, <2>1, ValueSet
    <2>3. k \notin db.doubtful => TakesIt(call[p], a)
      BY <1>2, <1>4, <1>9, <1>11, <2>2 DEF TakesIt, Sets
    <2> QED
      BY <1>8, <1>9, <2>1, <2>2, <2>3 DEF Sets
  <1>10. CASE db' = db /\ a = "fail" /\ shortages' = shortages + 1
    <2>1. Map' = Map
      BY <1>1, <1>3, <1>7, <1>10, ValuesKept
    <2>2. TakesIt(call[p], a)
      BY <1>2, <1>10, <2>1 DEF TakesIt
    <2> QED
      BY <1>8, <1>10, <2>1, <2>2
  <1> QED
    BY <1>5, <1>9, <1>10

LEMMA AsCallback ==
    ASSUME NEW p \in Proc, Same, p \in Users, ret[p] = "none", ret' = ret,
           call[p].type = "traverse", NEW k \in Key, Map' = [Map EXCEPT ![k] = NoValue]
    PROVE  Abstract!Next
  <1>1. Abstract!Takes(p)
    BY DEF Abstract!Takes, Abstract!Answers, Abstract!MayBeShort, Abstract!Short, Same, Shortage, Map, Users
  <1> QED
    BY <1>1 DEF Abstract!Next

\* A record on a chain that p may lock holds a key that is there, or in doubt.
LEMMA KeyThere ==
    ASSUME NEW p \in Proc, Inv, MapInv, ~Replacing(p), NEW b \in Buckets, MayLock(p, b), NEW o \in OnList(db, b)
    PROVE  /\ db.rec[o].key \in Key /\ Bucket(db.rec[o].key) = b /\ OnChain(db, db.rec[o].key)
           /\ Map[db.rec[o].key] # NoValue \/ db.rec[o].key \in db.doubtful
  <1> DEFINE k == db.rec[o].key
  <1>0. FileOK(db)
    BY DEF Inv
  <1>1. o \in DOMAIN db.rec
    BY <1>0, FreeIsAList, OnListInFile
  <1>2. db.rec[o].magic = "used" /\ Bucket(k) = b
    BY <1>0 DEF FileOK, Sorted
  <1>3. k \in Key
    BY <1>0, <1>1, <1>2 DEF FileOK, Sorted, InUse
  <1>4. OnChain(db, k)
    BY <1>2 DEF OnChain
  <1>5. ValueOf(db, k) # NoValue
    BY <1>0, <1>3, <1>4, ValueIs, TdbAssumption
  <1>6. Visible(k) = ValueOf(db, k)
    BY <1>2, <1>3, InFile DEF Replaces
  <1> QED
    BY <1>2, <1>3, <1>4, <1>5, <1>6 DEF Map

LEMMA TraversalRefined ==
    ASSUME NEW p \in Proc, Inv, MapInv, Inv', Only(p),
           TraverseLocks(p) \/ TraverseVisits(p) \/ TraverseEndsChain(p)
    PROVE  Refined(p)
  <1>0. /\ Types /\ pc \in [Proc -> PCs] /\ chain \in [Proc -> Buckets] /\ Hands(p) /\ Process(p) /\ FileOK(db)
    BY DEF Inv, Types, Control
  <1>1. /\ pc[p] \in {"traverse", "visit"} /\ call' = call /\ prior' = prior
        /\ call[p].type = "traverse" /\ chain[p] \in Buckets
    BY <1>0, Positions DEF TraverseLocks, TraverseVisits, TraverseEndsChain, StepLeaves, history, Types
  <1>2. Pending(p) /\ ~Replacing(p) /\ ~Replacing(p)'
    BY <1>1 DEF Pending, Replacing
  <1>9. Shortage
    BY DEF TraverseLocks, TraverseVisits, TraverseEndsChain, Remembers, NoMemory, Shortage
  <1>3. ASSUME db' = db, ret' = ret, pc'[p] # "closed" PROVE Refined(p)
    <2>1. MapInv' /\ Before(p) /\ After(p) /\ Users' = Users
      BY <1>1, <1>2, <1>3, PlainStep
    <2>2. Map' = Map
      BY <1>1, <1>2, <1>3, <2>1, ValuesKept
    <2> QED
      BY <1>1, <1>3, <1>9, <2>1, <2>2, Unseen DEF Same
  <1>4. ASSUME NEW a \in {"ok", "stopped", "fail"}, db' = db, ret' = [ret EXCEPT ![p] = a],
               pc' = [pc EXCEPT ![p] = "idle"]
        PROVE  Refined(p)
    <2>1. pc'[p] = "idle" /\ pc'[p] # "closed" /\ ~Pending(p)'
      BY <1>0, <1>4 DEF Pending
    <2>2. MapInv' /\ Before(p) /\ After(p) /\ Users' = Users /\ p \in Users /\ ret[p] = "none"
      BY <1>1, <1>2, <1>4, <2>1, PlainStep
    <2>3. Map' = Map
      BY <1>1, <1>2, <1>4, <2>2, ValuesKept
    <2>4. Abstract!Next
      BY <1>1, <1>4, <1>9, <2>2, <2>3, AsVisits DEF Same
    <2> QED
      BY <2>2, <2>3, <2>4, Outlasting DEF Refined
  <1>5. CASE TraverseLocks(p)
    <2>1. db' = db /\ ret' = ret /\ pc'[p] # "closed"
      BY <1>0, <1>5 DEF TraverseLocks, Goes
    <2> QED
      BY <1>3, <2>1
  <1>6. CASE TraverseEndsChain(p)
    <2>1. \/ db' = db /\ ret' = ret /\ pc' = [pc EXCEPT ![p] = "traverse"]
          \/ db' = db /\ ret' = [ret EXCEPT ![p] = "ok"] /\ pc' = [pc EXCEPT ![p] = "idle"]
      BY <1>6 DEF TraverseEndsChain, Returns, Goes
    <2>2. CASE db' = db /\ ret' = ret /\ pc' = [pc EXCEPT ![p] = "traverse"]
      <3>1. pc'[p] # "closed"
        BY <1>0, <2>2
      <3> QED
        BY <1>3, <2>2, <3>1
    <2> QED
      BY <1>4, <2>1, <2>2
  <1>7. CASE TraverseVisits(p)
    <2>1. pc[p] = "visit" /\ rec_ptr[p] # 0
      BY <1>7 DEF TraverseVisits
    <2>2. rec_ptr[p] \in OnList(db, chain[p]) /\ MayLock(p, chain[p])
      BY <1>0, <1>1, <2>1 DEF Hands, Visiting, Process, MayLock
    <2>3. PICK k : k = db.rec[rec_ptr[p]].key
      OBVIOUS
    <2>4. k \in Key /\ Bucket(k) = chain[p] /\ OnChain(db, k)
      BY <1>1, <1>2, <2>2, <2>3, KeyThere
    <2>5. \/ db' = db /\ ret' = ret /\ pc' = pc
          \/ db' = Unlinked(db, k) /\ ret' = ret /\ pc' = [pc EXCEPT ![p] = "recover"]
          \/ db' = db /\ ret' = [ret EXCEPT ![p] = "stopped"] /\ pc' = [pc EXCEPT ![p] = "idle"]
          \/ db' = db /\ ret' = [ret EXCEPT ![p] = "fail"] /\ pc' = [pc EXCEPT ![p] = "idle"]
      BY <1>7, <2>3 DEF TraverseVisits, Returns, Goes
    <2>6. CASE db' = db /\ ret' = ret /\ pc' = pc
      BY <1>1, <1>3, <2>6
    <2>7. CASE db' = Unlinked(db, k) /\ ret' = ret /\ pc' = [pc EXCEPT ![p] = "recover"]
      <3>1. pc'[p] # "closed"
        BY <1>0, <2>7
      <3>2. MapInv' /\ Before(p) /\ After(p) /\ Users' = Users /\ p \in Users /\ ret[p] = "none"
        BY <1>1, <1>2, <2>7, <3>1, PlainStep
      <3>3. /\ db'.doubtful = db.doubtful /\ (k \in Certain => ValueOf(db', k) = NoValue)
            /\ \A j \in Certain : j # k => ValueOf(db', j) = ValueOf(db, j)
        BY <1>0, <2>4, <2>7, UnlinkedValues DEF Certain
      <3>4. Map' = [Map EXCEPT ![k] = NoValue]
        BY <1>2, <2>2, <2>4, <3>2, <3>3, ValueSet, SetsNone
      <3>5. Abstract!Next
        BY <1>1, <1>9, <2>4, <2>7, <3>2, <3>3, <3>4, AsCallback DEF Same
      <3> QED
        BY <1>7, <3>2, <3>5 DEF Refined, Loses
    <2> QED
      BY <1>4, <2>5, <2>6, <2>7
  <1> QED
    BY <1>5, <1>6, <1>7

LEMMA KeysRefined ==
    ASSUME NEW p \in Proc, Inv, MapInv, Inv', Only(p), FirstKey(p) \/ NextKey(p) \/ NextChain(p)
    PROVE  Refined(p)
  <1>0. /\ Types /\ pc \in [Proc -> PCs] /\ chain \in [Proc -> Buckets] /\ FileOK(db)
    BY DEF Inv, Types, Control
  <1>1. /\ pc[p] \in {"firstkey", "nextkey", "nextchain"} /\ call' = call /\ prior' = prior /\ db' = db
        /\ call[p].type \in {"firstkey", "nextkey"} /\ chain[p] \in Buckets
    BY <1>0, Positions DEF FirstKey, NextKey, NextChain, AtChain, StepLeaves, history, Types
  <1>2. Pending(p) /\ ~Replacing(p) /\ ~Replacing(p)'
    BY <1>1 DEF Pending, Replacing
  <1>9. Shortage
    BY DEF FirstKey, NextKey, NextChain, Remembers, NoMemory, Shortage
  <1>3. ASSUME ret' = ret, pc'[p] # "closed" PROVE Refined(p)
    <2>1. MapInv' /\ Before(p) /\ After(p) /\ Users' = Users
      BY <1>1, <1>2, <1>3, PlainStep
    <2>2. Map' = Map
      BY <1>1, <1>2, <1>3, <2>1, ValuesKept
    <2> QED
      BY <1>1, <1>3, <1>9, <2>1, <2>2, Unseen DEF Same
  <1>4. ASSUME NEW a, a = "end" \/ (a \in Key /\ (Map[a] # NoValue \/ a \in db.doubtful)), ret' = [ret EXCEPT ![p] = a],
               pc' = [pc EXCEPT ![p] = "idle"]
        PROVE  Refined(p)
    <2>1. pc'[p] = "idle" /\ pc'[p] # "closed" /\ ~Pending(p)'
      BY <1>0, <1>4 DEF Pending
    <2>2. MapInv' /\ Before(p) /\ After(p) /\ Users' = Users /\ p \in Users /\ ret[p] = "none"
      BY <1>1, <1>2, <1>4, <2>1, PlainStep
    <2>3. Map' = Map
      BY <1>1, <1>2, <1>4, <2>2, ValuesKept
    <2>4. Abstract!Next
      BY <1>1, <1>4, <1>9, <2>2, <2>3, AsVisits DEF Same
    <2> QED
      BY <2>2, <2>3, <2>4, Outlasting DEF Refined
  <1>5. ASSUME NEW b \in Buckets, CanLock(p, b), db.list[b] # <<>>
        PROVE  HeadKey(b) \in Key /\ (Map[HeadKey(b)] # NoValue \/ HeadKey(b) \in db.doubtful)
    <2>1. Top(db.list[b]) \in OnList(db, b)
      <3>1. db.list[b] \in Seq(DOMAIN db.rec)
        BY <1>0, FreeIsAList DEF FileOK, Shape
      <3>2. Head(db.list[b]) = db.list[b][1] /\ 1 \in DOMAIN db.list[b]
        BY <1>5, <3>1
      <3> QED
        BY <1>5, <3>2 DEF Top, OnList, Range
    <2>2. MayLock(p, b)
      BY <1>5 DEF MayLock
    <2> QED
      BY <1>2, <2>1, <2>2, KeyThere DEF HeadKey
  <1>6. CASE FirstKey(p)
    <2>1. CanLock(p, chain[p])
      BY <1>6 DEF FirstKey
    <2>2. \/ /\ db.list[chain[p]] # <<>> /\ ret' = [ret EXCEPT ![p] = HeadKey(chain[p])]
             /\ pc' = [pc EXCEPT ![p] = "idle"]
          \/ ret' = ret /\ pc' = pc
          \/ ret' = [ret EXCEPT ![p] = "end"] /\ pc' = [pc EXCEPT ![p] = "idle"]
      BY <1>6 DEF FirstKey, Returns, Goes
    <2>3. ret' = ret /\ pc' = pc => pc'[p] # "closed"
      BY <1>1
    <2> QED
      BY <1>1, <1>3, <1>4, <1>5, <2>1, <2>2, <2>3
  <1>7. CASE NextKey(p)
    <2> DEFINE k == call[p].key
               s == db.list[Bucket(k)]
               x == IF Found(db, k) THEN NextOf(s, RecordOf(db, k)) ELSE 0
    <2>1. CanLock(p, Bucket(k)) /\ pc[p] = "nextkey"
      BY <1>7 DEF NextKey, AtChain
    <2>2. k \in Key /\ Bucket(k) \in Buckets
      BY <1>0, <1>1, <2>1, Positions, Requested, Hashed DEF Types
    <2>3. \/ x # 0 /\ ret' = [ret EXCEPT ![p] = db.rec[x].key] /\ pc' = [pc EXCEPT ![p] = "idle"]
          \/ ret' = [ret EXCEPT ![p] = "end"] /\ pc' = [pc EXCEPT ![p] = "idle"]
          \/ ret' = ret /\ pc' = [pc EXCEPT ![p] = "nextchain"]
      BY <1>7 DEF NextKey, Returns, Goes
    <2>4. x # 0 => db.rec[x].key \in Key /\ (Map[db.rec[x].key] # NoValue \/ db.rec[x].key \in db.doubtful)
      <3> SUFFICES ASSUME x # 0 PROVE db.rec[x].key \in Key /\ (Map[db.rec[x].key] # NoValue \/ db.rec[x].key \in db.doubtful)
        OBVIOUS
      <3>1. Found(db, k) /\ x = NextOf(s, RecordOf(db, k))
        OBVIOUS
      <3>2. RecordOf(db, k) \in OnList(db, Bucket(k))
        BY <1>0, <2>2, <3>1, Finds
      <3>3. x \in OnList(db, Bucket(k))
        BY <2>2, <3>1, <3>2, FollowsOnList
      <3>4. MayLock(p, Bucket(k))
        BY <2>1 DEF MayLock
      <3> HIDE DEF x, k
      <3> QED
        BY <1>2, <2>2, <3>3, <3>4, KeyThere
    <2> HIDE DEF x
    <2>5. CASE x # 0 /\ ret' = [ret EXCEPT ![p] = db.rec[x].key] /\ pc' = [pc EXCEPT ![p] = "idle"]
      BY <1>4, <2>4, <2>5
    <2>6. CASE ret' = ret /\ pc' = [pc EXCEPT ![p] = "nextchain"]
      <3>1. pc'[p] # "closed"
        BY <1>0, <2>6
      <3> QED
        BY <1>3, <2>6, <3>1
    <2> QED
      BY <1>4, <2>3, <2>5, <2>6
  <1>8. CASE NextChain(p)
    <2> DEFINE h == chain[p] + 1
    <2>1. \/ ret' = [ret EXCEPT ![p] = "end"] /\ pc' = [pc EXCEPT ![p] = "idle"]
          \/ ret' = ret /\ pc' = pc
          \/ /\ h < HashSize - 1 /\ CanLock(p, h) /\ db.list[h] # <<>>
             /\ ret' = [ret EXCEPT ![p] = HeadKey(h)] /\ pc' = [pc EXCEPT ![p] = "idle"]
      BY <1>8 DEF NextChain, Returns, Goes
    <2>2. h < HashSize - 1 => h \in Buckets
      BY <1>1, TdbAssumption DEF Buckets
    <2> HIDE DEF h
    <2>3. ret' = ret /\ pc' = pc => pc'[p] # "closed"
      BY <1>1
    <2> QED
      BY <1>3, <1>4, <1>5, <2>1, <2>2, <2>3
  <1> QED
    BY <1>6, <1>7, <1>8

\* A step outside of any call
LEMMA IdleStep ==
    ASSUME NEW p \in Proc, Inv, MapInv, Inv', Only(p), ~Replacing(p), ~Replacing(p)',
           NEW a, ret' = [ret EXCEPT ![p] = a] \/ (ret' = ret /\ a = ret[p]), Pending(p)' => a = "none",
           prior' = prior
    PROVE  MapInv' /\ Before(p) /\ After(p) /\ ret' = [ret EXCEPT ![p] = a]
  <1>1. prior[p] = NoValue
    BY DEF MapInv, Priors
  <1>2. ret' = [ret EXCEPT ![p] = a] /\ prior' = [prior EXCEPT ![p] = NoValue]
    BY <1>1, HistoryKept
  <1>3. MapInv'
    BY <1>2, MapInvKept
  <1> QED
    BY <1>2, <1>3 DEF Before, After

LEMMA LocksRefined ==
    ASSUME NEW p \in Proc, Inv, MapInv, Inv', Only(p), NEW l \in Lists, LockChain(p, l) \/ UnlockChain(p, l)
    PROVE  Refined(p)
  <1>1. pc[p] = "idle" /\ pc' = pc /\ call' = call /\ ret' = ret /\ prior' = prior /\ db' = db
        /\ shortages' = shortages
    BY DEF LockChain, UnlockChain, procVars, history
  <1>2. ~Replacing(p) /\ ~Replacing(p)' /\ ~Pending(p)'
    BY <1>1 DEF Replacing, Pending
  <1>3. MapInv' /\ Before(p) /\ After(p)
    BY <1>1, <1>2, IdleStep
  <1>4. Map' = Map
    BY <1>1, <1>2, <1>3, ValuesKept
  <1>5. Users' = Users
    BY <1>1 DEF Users
  <1> QED
    BY <1>1, <1>3, <1>4, <1>5, Unseen DEF Same, Shortage

LEMMA CallRefined ==
    ASSUME NEW p \in Proc, Inv, MapInv, Inv', NEW r \in Requests[p], Call(p, r)
    PROVE  Refined(p)
  <1>0. Types /\ pc \in [Proc -> PCs]
    BY DEF Inv, Types, Control
  <1>1. /\ pc[p] = "idle" /\ call' = [call EXCEPT ![p] = r] /\ prior' = prior /\ db' = db
        /\ ret' = [ret EXCEPT ![p] = "none"] /\ shortages' = shortages
    BY DEF Call, fileVars
  <1>2. Only(p) /\ pc'[p] = r.type /\ call'[p] = r
    BY <1>0, ControlOfCall
  <1>3. r.type \in {"store", "fetch", "exists", "delete", "nextkey", "firstkey", "traverse"}
    <2>1. r \in Request
      BY TdbAssumption
    <2> QED
      BY <2>1 DEF Request
  <1>4. ~Replacing(p) /\ ~Replacing(p)' /\ pc[p] # "closed" /\ pc'[p] # "closed"
    BY <1>1, <1>2, <1>3 DEF Replacing
  <1>5. MapInv' /\ Before(p) /\ After(p)
    BY <1>1, <1>2, <1>4, IdleStep
  <1>6. ASSUME NEW k \in Key PROVE Visible(k)' = Visible(k)
    BY <1>1, <1>4, <1>5, StillVisible DEF Replaces
  <1>7. Map' = Map /\ Users' = Users /\ p \in Users
    BY <1>1, <1>4, <1>5, <1>6, MapSame, UsersSame DEF Certain
  <1>8. Abstract!Calls(p)
    BY <1>1, <1>2, <1>7 DEF Abstract!Calls, Map, Users
  <1> QED
    BY <1>5, <1>7, <1>8, Outlasting DEF Refined, Abstract!Next

LEMMA OpenRefined ==
    ASSUME NEW p \in Proc, Inv, MapInv, Inv', Only(p), NEW clear \in BOOLEAN, Open(p, clear)
    PROVE  Refined(p)
  <1>0. Types /\ pc \in [Proc -> PCs]
    BY DEF Inv, Types, Control
  <1>1. /\ pc[p] = "closed" /\ pc' = [pc EXCEPT ![p] = "idle"] /\ call' = call /\ ret' = ret /\ prior' = prior
        /\ shortages' = shortages
        /\ db' = db \/ (db' = Empty /\ \A q \in Proc : pc[q] = "closed")
    BY DEF Open, history
  <1>2. ~Replacing(p) /\ ~Replacing(p)' /\ ~Pending(p)'
    BY <1>0, <1>1 DEF Replacing, Pending
  <1>3. MapInv' /\ Before(p) /\ After(p)
    BY <1>1, <1>2, IdleStep
  <1>4. p \notin Users /\ Users' = Users \cup {p}
    BY <1>0, <1>1 DEF Users
  <1>5. \/ Map' = Map /\ db'.doubtful = db.doubtful
        \/ Users = {} /\ Map' = [k \in Key |-> NoValue] /\ db'.doubtful = {}
    <2>1. CASE db' = db
      BY <1>1, <1>2, <1>3, <2>1, ValuesKept
    <2>2. CASE db' = Empty /\ \A q \in Proc : pc[q] = "closed"
      <3>1. \A q \in Proc : pc'[q] \in {"closed", "idle"}
        BY <1>0, <1>1, <2>2
      <3>2. \A q \in Proc : ~Replacing(q)'
        BY <3>1 DEF Replacing
      <3>3. \A k \in Key : Visible(k)' = ValueOf(db', k)
        BY <1>3, <3>2, VisibleNext DEF VisibleTrue, After, Replaces
      <3>4. \A k \in Key : ValueOf(Empty, k) = NoValue
        <4>1. \A l \in Lists : OnList(Empty, l) = {}
          BY DEF Empty, OnList, Range
        <4>2. \A k \in Key : ~OnChain(Empty, k)
          BY <4>1, Hashed DEF OnChain
        <4> QED
          BY <4>2, EmptyFile, ValueIs
      <3>5. Users = {}
        BY <2>2 DEF Users
      <3> QED
        BY <2>2, <3>3, <3>4, <3>5 DEF Map, Empty
    <2> QED
      BY <1>1, <2>1, <2>2
  <1>6. Abstract!Opens(p)
    BY <1>1, <1>4, <1>5 DEF Abstract!Opens, Map, Users
  <1> QED
    BY <1>3, <1>5, <1>6, Outlasting DEF Refined, Loses, Abstract!Next

LEMMA LeaveRefined ==
    ASSUME NEW p \in Proc, Inv, MapInv, Inv', Only(p), Leave(p), pc[p] # "closed"
    PROVE  Refined(p)
  <1>0. Types /\ pc \in [Proc -> PCs] /\ prior \in [Proc -> Value \cup {NoValue}] /\ FileOK(db)
    BY DEF Inv, Types, Control, MapInv, Priors
  <1>1. /\ db' = db /\ shortages' = shortages /\ pc' = [pc EXCEPT ![p] = "closed"] /\ call' = [call EXCEPT ![p] = [type |-> "close"]]
        /\ ret' = [ret EXCEPT ![p] = "none"] /\ prior' = [prior EXCEPT ![p] = NoValue]
    BY DEF Leave
  <1>2. ~Replacing(p)' /\ pc'[p] = "closed"
    BY <1>0, <1>1 DEF Replacing
  <1>3. MapInv'
    BY <1>1, <1>2, MapInvKept
  <1>4. Before(p) /\ After(p)
    BY <1>0, <1>1, <1>3 DEF Before, After
  <1>5. p \in Users /\ Users' = Users \ {p}
    BY <1>0, <1>1 DEF Users
  <1>6. ASSUME NEW k \in Key, ~Replaces(p, k) PROVE Visible(k)' = Visible(k)
    BY <1>1, <1>2, <1>4, <1>6, StillVisible DEF Replaces
  <1>7. \/ Map' = Map
        \/ /\ call[p].type = "store" /\ ret[p] = "none"
           /\ Map' = [Map EXCEPT ![call[p].key] = NoValue]
    <2>1. CASE ~Replacing(p)
      <3>1. \A k \in Key : Visible(k)' = Visible(k)
        BY <1>6, <2>1 DEF Replaces
      <3> QED
        BY <1>1, <3>1, MapSame DEF Certain
    <2>2. CASE Replacing(p)
      <3>1. call[p].type = "store" /\ ret[p] = "none"
        BY <2>2 DEF Replacing, MapInv, Answered, Pending
      <3>2. PICK k \in Key : k = call[p].key
        BY <1>0, <3>1, Requested DEF Types
      <3>3. MayLock(p, Bucket(k)) /\ Vacant(db, k)
        BY <2>2, <3>2 DEF Inv, Control, Process, MayLock, Hands, Awaited
      <3>4. k \in Certain => ValueOf(db', k) = NoValue
        BY <1>0, <1>1, <3>3, ValueIs DEF Certain, Vacant
      <3>5. Map' = [Map EXCEPT ![k] = NoValue]
        BY <1>1, <1>2, <1>4, <3>2, <3>3, <3>4, ValueSet, SetsNone
      <3> QED
        BY <3>1, <3>2, <3>5
    <2> QED
      BY <2>1, <2>2
  <1>8. Abstract!Leaves(p)
    BY <1>1, <1>5, <1>7 DEF Abstract!Leaves, Map, Users
  <1> QED
    BY <1>3, <1>8 DEF Refined, Loses, Abstract!Next

LEMMA MapInit == Init => MapInv /\ Abstract!Init
  <1> SUFFICES ASSUME Init PROVE MapInv /\ Abstract!Init
    OBVIOUS
  <1>1. \A p \in Proc : ~Replacing(p) /\ ~Pending(p) /\ prior[p] = NoValue
    BY DEF Init, Replacing, Pending
  <1>2. MapInv
    BY <1>1 DEF Init, MapInv, Priors, Answered
  <1>3. Inv
    BY InvInit DEF IInv
  <1>4. \A k \in Key : Visible(k) = ValueOf(db, k)
    BY <1>1, <1>2, <1>3, VisibleNow DEF VisibleTrue, Replaces
  <1>5. \A k \in Key : ValueOf(Empty, k) = NoValue
    <2>1. \A l \in Lists : OnList(Empty, l) = {}
      BY DEF Empty, OnList, Range
    <2>2. \A k \in Key : ~OnChain(Empty, k)
      BY <2>1, Hashed DEF OnChain
    <2> QED
      BY <2>2, EmptyFile, ValueIs
  <1>6. \A k \in Key : Visible(k) = NoValue
    BY <1>4, <1>5 DEF Init
  <1>7. Abstract!Init
    BY <1>6 DEF Abstract!Init, Init, Empty
  <1> QED
    BY <1>2, <1>7

\* Every step of a process is a step of the map, or leaves it as it is.
LEMMA AllRefined ==
    ASSUME Inv, MapInv, Inv', NEW p \in Proc, Steps(p) \/ Application(p)
    PROVE  Only(p) /\ Refined(p)
  <1>1. Only(p)
    BY ControlStep DEF Inv, Types
  <1>2. CASE Steps(p)
    BY <1>1, <1>2, FetchRefined, ChecksRefined, AllocatesRefined, InsertsRefined, LinksRefined,
       DeletesRefined, RecoversRefined, TraversalRefined, KeysRefined, LocksRefined DEF Steps
  <1>3. CASE Application(p)
    BY <1>1, <1>3, OpenRefined, LeaveRefined, CallRefined, LocksRefined DEF Application, Close, Dies
  <1> QED
    BY <1>1, <1>2, <1>3

LEMMA MapStep == IInv /\ MapInv /\ IInv' /\ [Next]_vars => MapInv' /\ [Abstract!Next]_(Abstract!vars)
  <1> SUFFICES ASSUME IInv, MapInv, IInv', [Next]_vars PROVE MapInv' /\ [Abstract!Next]_(Abstract!vars)
    OBVIOUS
  <1>0. Inv /\ Inv'
    BY DEF IInv
  <1>1. CASE UNCHANGED vars
    <2>1. /\ db' = db /\ prior' = prior /\ call' = call /\ ret' = ret /\ pc' = pc
          /\ shortages' = shortages
      BY <1>1 DEF vars, fileVars, procVars, history
    <2>2. MapInv'
      BY <2>1 DEF MapInv, Priors, Answered, Pending, Replacing
    <2>3. \A k \in Key : Visible(k)' = Visible(k)
      BY <2>1 DEF Visible
    <2>4. UNCHANGED Abstract!vars
      BY <2>1, <2>3 DEF Abstract!vars
    <2> QED
      BY <2>2, <2>4
  <1>2. CASE Next
    <2>1. PICK p \in Proc : Steps(p) \/ Application(p)
      BY <1>2 DEF Next
    <2>2. Refined(p)
      BY <1>0, <2>1, AllRefined
    <2>3. UNCHANGED AbstractVars => UNCHANGED Abstract!vars
      BY DEF AbstractVars, Abstract!vars, Map, Users
    <2> QED
      BY <2>2, <2>3 DEF Refined
  <1> QED
    BY <1>1, <1>2

\* Every call on the database takes effect at once, as on the map of TdbMap,
\* between its start and its return: for any number of processes, also where
\* one dies, or a store deletes the old record before it links the new one.
\* TdbMap says nothing of a key that two processes store at a time, one of
\* them with TDB_INSERT, or whose record a store had no memory to read, and
\* lets a call that runs out of memory fail.
THEOREM DatabaseIsAMap == Spec => IsMap
  <1>1. Init => IInv /\ MapInv /\ Abstract!Init
    BY InvInit, MapInit
  <1>2. IInv /\ MapInv /\ [Next]_vars => IInv' /\ MapInv' /\ [Abstract!Next]_(Abstract!vars)
    BY InvStep, MapStep
  <1> QED
    BY <1>1, <1>2, PTL DEF Spec, IsMap, Abstract!Spec

-----------------------------------------------------------------------------
(***************************************************************************)
(* A traversal is complete.  The pointer of a traversal stands at a place  *)
(* of its chain: the keys before that place were reported, the others not, *)
(* but for those in doubt.                                                 *)
(***************************************************************************)
Standing(s, r, i) == r = IF i <= Len(s) THEN s[i] ELSE 0
Reported(d, s, S, i) ==
    \A j \in 1 .. Len(s) : d.rec[s[j]].key \notin d.doubtful => (d.rec[s[j]].key \in S <=> j < i)
At(d, b, r, S) == \E i \in 1 .. Len(d.list[b]) + 1 :
                      Standing(d.list[b], r, i) /\ Reported(d, d.list[b], S, i)

LEMMA ChainIs ==
    ASSUME NEW d, FileOK(d), NEW b \in Buckets
    PROVE  LET s == d.list[b] IN
           /\ s \in Seq(Nat \ {0}) /\ IsInjective(s) /\ Len(s) \in Nat /\ DOMAIN s = 1 .. Len(s)
           /\ \A j \in 1 .. Len(s) : /\ s[j] \in OnList(d, b) /\ s[j] \in Nat \ {0}
                                     /\ Bucket(d.rec[s[j]].key) = b /\ d.rec[s[j]].key \in Key
           /\ \A i, j \in 1 .. Len(s) : d.rec[s[i]].key = d.rec[s[j]].key =>
                 i = j \/ d.rec[s[i]].key \in d.doubtful
           /\ \A o \in OnList(d, b) : \E j \in 1 .. Len(s) : o = s[j]
  <1> DEFINE s == d.list[b]
  <1>1. b \in Lists /\ s \in Seq(DOMAIN d.rec) /\ DOMAIN d.rec \subseteq Nat \ {0} /\ IsInjective(s)
    BY FreeIsAList DEF FileOK, Shape, Sorted
  <1>2. OnList(d, b) = Range(s)
    BY DEF OnList
  <1>3. Range(s) = {s[j] : j \in 1 .. Len(s)} /\ DOMAIN s = 1 .. Len(s) /\ Len(s) \in Nat
    <2> HIDE DEF s
    <2> QED
      BY <1>1 DEF Range
  <1>4. \A o \in OnList(d, b) : /\ o \in DOMAIN d.rec /\ Bucket(d.rec[o].key) = b /\ d.rec[o].key \in Key
    <2>1. OnList(d, b) \subseteq DOMAIN d.rec
      BY <1>1, OnListInFile
    <2> QED
      BY <2>1 DEF FileOK, Sorted, InUse
  <1>5. \A o, q \in OnList(d, b) : d.rec[o].key = d.rec[q].key => o = q \/ d.rec[o].key \in d.doubtful
    BY DEF FileOK, Sorted
  <1>6. \A j \in 1 .. Len(s) : s[j] \in OnList(d, b)
    BY <1>2, <1>3
  <1> HIDE DEF s
  <1>7. \A i, j \in 1 .. Len(s) : d.rec[s[i]].key = d.rec[s[j]].key =>
           i = j \/ d.rec[s[i]].key \in d.doubtful
    BY <1>1, <1>3, <1>5, <1>6 DEF IsInjective
  <1>8. \A o \in OnList(d, b) : \E j \in 1 .. Len(s) : o = s[j]
    BY <1>2, <1>3
  <1>9. s \in Seq(Nat \ {0})
    BY <1>1
  <1> QED
    BY <1>1, <1>3, <1>4, <1>6, <1>7, <1>8, <1>9 DEF s

\* A traversal begins a chain of which no key was reported.
LEMMA AtTop ==
    ASSUME NEW d, FileOK(d), NEW b \in Buckets, NEW S, \A k \in S : Bucket(k) # b
    PROVE  At(d, b, Top(d.list[b]), S)
  <1> DEFINE s == d.list[b]
  <1>1. /\ s \in Seq(Nat \ {0}) /\ Len(s) \in Nat /\ \A j \in 1 .. Len(s) : Bucket(d.rec[s[j]].key) = b
    BY ChainIs
  <1> HIDE DEF s
  <1>2. 1 \in 1 .. Len(s) + 1
    BY <1>1
  <1>3. Standing(s, Top(s), 1)
    <2>1. CASE s = <<>>
      BY <2>1 DEF Standing, Top
    <2>2. CASE s # <<>>
      BY <1>1, <2>2 DEF Standing, Top
    <2> QED
      BY <2>1, <2>2
  <1>4. Reported(d, s, S, 1)
    BY <1>1 DEF Reported
  <1> QED
    BY <1>2, <1>3, <1>4 DEF At, s

\* The record at the place was not reported yet; then the next one is at it.
LEMMA AtNext ==
    ASSUME NEW d, FileOK(d), NEW b \in Buckets, NEW r, r # 0, NEW S, At(d, b, r, S)
    PROVE  LET k == d.rec[r].key IN
           (k \notin S \/ k \in d.doubtful) /\ At(d, b, NextOf(d.list[b], r), S \cup {k})
  <1> DEFINE s == d.list[b]
             k == d.rec[r].key
  <1>1. /\ s \in Seq(Nat \ {0}) /\ IsInjective(s) /\ Len(s) \in Nat
        /\ \A i, j \in 1 .. Len(s) : d.rec[s[i]].key = d.rec[s[j]].key =>
              i = j \/ d.rec[s[i]].key \in d.doubtful
    BY ChainIs
  <1> HIDE DEF s
  <1>2. PICK i \in 1 .. Len(s) + 1 : Standing(s, r, i) /\ Reported(d, s, S, i)
    BY DEF At, s
  <1>3. i \in 1 .. Len(s) /\ r = s[i]
    BY <1>1, <1>2 DEF Standing
  <1>4. NextOf(s, r) = IF i < Len(s) THEN s[i + 1] ELSE 0
    BY <1>1, <1>3, Follows
  <1>5. k \notin S \/ k \in d.doubtful
    BY <1>1, <1>2, <1>3 DEF Reported
  <1>6. i + 1 \in 1 .. Len(s) + 1 /\ Standing(s, NextOf(s, r), i + 1)
    BY <1>1, <1>3, <1>4 DEF Standing
  <1>7. Reported(d, s, S \cup {k}, i + 1)
    <2> SUFFICES ASSUME NEW j \in 1 .. Len(s), d.rec[s[j]].key \notin d.doubtful
                 PROVE  d.rec[s[j]].key \in S \cup {k} <=> j < i + 1
      BY DEF Reported
    <2>1. d.rec[s[j]].key \in S <=> j < i
      BY <1>2 DEF Reported
    <2>2. d.rec[s[j]].key = k <=> j = i
      BY <1>1, <1>3
    <2>3. j < i + 1 <=> j < i \/ j = i
      BY <1>1, <1>3
    <2> HIDE DEF k
    <2> QED
      BY <2>1, <2>2, <2>3
  <1> QED
    BY <1>5, <1>6, <1>7 DEF At, s

\* Or the key of that record leaves the chain, with the first record that holds
\* it, which is not behind the place: the place moves up with it.
LEMMA AtRemoved ==
    ASSUME NEW d, FileOK(d), NEW k \in Key, NEW r, r # 0, d.rec[r].key = k, NEW S,
           At(d, Bucket(k), r, S), r \in OnList(d, Bucket(k))
    PROVE  At(Unlinked(d, k), Bucket(k), NextOf(d.list[Bucket(k)], r), S \cup {k})
  <1> DEFINE b == Bucket(k)
             s == d.list[b]
             m == Find(d, k)
             e == Unlinked(d, k)
             t == RemoveAt(s, m)
             x == NextOf(s, r)
  <1>0. b \in Buckets /\ OnChain(d, k) /\ Found(d, k)
    BY Hashed, Finds DEF OnChain
  <1>1. /\ s \in Seq(Nat \ {0}) /\ IsInjective(s) /\ Len(s) \in Nat
    BY <1>0, ChainIs
  <1>13. \A i, j \in 1 .. Len(s) : d.rec[s[i]].key = d.rec[s[j]].key =>
              i = j \/ d.rec[s[i]].key \in d.doubtful
    BY <1>0, ChainIs
  <1>2. e.rec = d.rec /\ e.doubtful = d.doubtful /\ e.list[b] = t
    BY <1>0, Unlinks
  <1>3. m \in 1 .. Len(s) /\ d.rec[s[m]].key = k /\ \A n \in 1 .. Len(s) : d.rec[s[n]].key = k => m <= n
    BY <1>0, Finds DEF RecordOf
  <1> HIDE DEF s, m, e, b
  <1>10. PICK n \in 1 .. Len(s) + 1 : Standing(s, r, n) /\ Reported(d, s, S, n)
    BY DEF At, s, b
  <1>11. n \in 1 .. Len(s) /\ r = s[n] /\ m <= n
    BY <1>1, <1>3, <1>10 DEF Standing
  <1>12. x = IF n < Len(s) THEN s[n + 1] ELSE 0
    BY <1>1, <1>11, Follows
  <1> HIDE DEF x
  <1>4. PICK i \in 1 .. Len(s) + 1 : i = n + 1 /\ Standing(s, x, i)
    BY <1>1, <1>11, <1>12 DEF Standing
  <1>5. m < i
    BY <1>3, <1>4, <1>11
  <1>6. /\ t \in Seq(Nat \ {0}) /\ Len(t) = Len(s) - 1
        /\ \A j \in 1 .. Len(t) : t[j] = IF j < m THEN s[j] ELSE s[j + 1]
    BY <1>1, <1>3, RemovedAt
  <1> HIDE DEF t
  <1>7. i - 1 \in 1 .. Len(t) + 1
    BY <1>1, <1>3, <1>4, <1>5, <1>6
  <1>8. Standing(t, x, i - 1)
    <2>1. CASE i <= Len(s)
      <3>1. i - 1 \in 1 .. Len(t) /\ i - 1 <= Len(t) /\ ~(i - 1 < m) /\ i - 1 + 1 = i
        BY <1>1, <1>3, <1>4, <1>5, <1>6, <2>1
      <3>2. t[i - 1] = s[i]
        BY <1>6, <3>1
      <3> QED
        BY <1>4, <2>1, <3>1, <3>2 DEF Standing
    <2>2. CASE ~(i <= Len(s))
      <3>1. ~(i - 1 <= Len(t))
        BY <1>1, <1>4, <1>6, <2>2
      <3> QED
        BY <1>4, <2>2, <3>1 DEF Standing
    <2> QED
      BY <2>1, <2>2
  <1>9. Reported(e, t, S \cup {k}, i - 1)
    <2> SUFFICES ASSUME NEW j \in 1 .. Len(t), d.rec[t[j]].key \notin d.doubtful
                 PROVE  d.rec[t[j]].key \in S \cup {k} <=> j < i - 1
      BY <1>2 DEF Reported
    <2>1. PICK l \in 1 .. Len(s) : t[j] = s[l] /\ l # m /\ (j < i - 1 <=> l < i)
      <3>1. CASE j < m
        <4>1. j \in 1 .. Len(s) /\ t[j] = s[j] /\ j # m /\ j < i /\ j < i - 1
          BY <1>1, <1>3, <1>4, <1>5, <1>6, <3>1
        <4> QED
          BY <4>1
      <3>2. CASE ~(j < m)
        <4>1. i \in Int /\ m \in Int /\ Len(s) \in Nat /\ Len(t) = Len(s) - 1
          BY <1>1, <1>3, <1>4, <1>6
        <4>2. j + 1 \in 1 .. Len(s) /\ j + 1 # m /\ (j + 1 < i <=> j < i - 1)
          BY <3>2, <4>1
        <4>3. t[j] = s[j + 1]
          BY <1>6, <3>2
        <4> QED
          BY <4>2, <4>3
      <3> QED
        BY <3>1, <3>2
    <2>2. d.rec[s[l]].key \in S <=> l < n
      BY <1>10, <2>1 DEF Reported
    <2>3. d.rec[s[l]].key # k
      BY <1>3, <1>13, <2>1
    <2>4. l # n
      BY <1>11, <2>3
    <2>5. l < i <=> l < n
      BY <1>4, <1>11, <2>1, <2>4
    <2> QED
      BY <2>1, <2>2, <2>3, <2>5
  <1> QED
    BY <1>2, <1>7, <1>8, <1>9 DEF At, b, e, x, s

\* At the end of a chain all its keys are reported.
LEMMA AtEnd ==
    ASSUME NEW d, FileOK(d), NEW b \in Buckets, NEW S, At(d, b, 0, S), NEW o \in OnList(d, b),
           d.rec[o].key \notin d.doubtful
    PROVE  d.rec[o].key \in S
  <1> DEFINE s == d.list[b]
  <1>1. /\ Len(s) \in Nat /\ \A j \in 1 .. Len(s) : s[j] # 0
        /\ \E j \in 1 .. Len(s) : o = s[j]
    BY ChainIs
  <1> HIDE DEF s
  <1>2. PICK i \in 1 .. Len(s) + 1 : Standing(s, 0, i) /\ Reported(d, s, S, i)
    BY DEF At, s
  <1>3. PICK j \in 1 .. Len(s) : o = s[j]
    BY <1>1
  <1>4. ~(i <= Len(s))
    BY <1>1, <1>2 DEF Standing
  <1>5. j < i
    BY <1>1, <1>4
  <1> QED
    BY <1>2, <1>3, <1>5 DEF Reported

\* A change of the file that leaves the chain and its keys
LEMMA AtSame ==
    ASSUME NEW d, FileOK(d), NEW b \in Buckets, NEW r, NEW S, At(d, b, r, S),
           NEW e, e.list[b] = d.list[b], d.doubtful \subseteq e.doubtful,
           \A o \in OnList(d, b) : e.rec[o].key = d.rec[o].key
    PROVE  At(e, b, r, S)
  <1> DEFINE s == d.list[b]
  <1>1. \A j \in 1 .. Len(s) : s[j] \in OnList(d, b)
    BY ChainIs
  <1> HIDE DEF s
  <1>2. PICK i \in 1 .. Len(s) + 1 : Standing(s, r, i) /\ Reported(d, s, S, i)
    BY DEF At, s
  <1>3. Reported(e, s, S, i)
    BY <1>1, <1>2 DEF Reported
  <1> QED
    BY <1>2, <1>3 DEF At, s

\* Nothing is in the sequence twice, but for what is in doubt.
Once(s, D) == \A i, j \in DOMAIN s : s[i] = s[j] => i = j \/ s[i] \in D

LEMMA Appended ==
    ASSUME NEW S, NEW s \in Seq(S), NEW k \in S, NEW D
    PROVE  LET t == Append(s, k) IN
           /\ t \in Seq(S) /\ Range(t) = Range(s) \cup {k}
           /\ Once(s, D) /\ (k \notin Range(s) \/ k \in D) => Once(t, D)
  <1> DEFINE t == Append(s, k)
  <1>1. /\ t \in Seq(S) /\ Len(t) = Len(s) + 1 /\ Len(s) \in Nat /\ DOMAIN s = 1 .. Len(s)
        /\ DOMAIN t = 1 .. Len(s) + 1 /\ t[Len(s) + 1] = k
        /\ \A i \in 1 .. Len(s) : t[i] = s[i]
    OBVIOUS
  <1> HIDE DEF t
  <1>2. \A i \in 1 .. Len(s) + 1 : i \in 1 .. Len(s) \/ i = Len(s) + 1
    BY <1>1
  <1>3. \A i \in 1 .. Len(s) : i \in 1 .. Len(s) + 1
    BY <1>1
  <1>4. Len(s) + 1 \in 1 .. Len(s) + 1
    BY <1>1
  <1>5. Range(t) = Range(s) \cup {k}
    BY <1>1, <1>2, <1>3, <1>4 DEF Range
  <1>6. Once(s, D) /\ (k \notin Range(s) \/ k \in D) => Once(t, D)
    BY <1>1, <1>2 DEF Once, Range
  <1> QED
    BY <1>1, <1>5, <1>6 DEF t

Touring(p) == call[p].type = "traverse" /\ pc[p] \in {"traverse", "visit", "recover"}
Toured(p) == call[p].type = "traverse" /\ pc[p] = "idle" /\ ret[p] = "ok"

\* A traversal under way reported the keys of the chains behind it and of its
\* own chain up to its place, none twice, and of those behind it every one
\* that was there all the time.  Of keys in doubt nothing is said.
Tour(p) ==
    /\ Once(seen[p], db.doubtful)
    /\ \A k \in Range(seen[p]) : Bucket(k) < chain[p] \/ (Bucket(k) = chain[p] /\ pc[p] # "traverse")
    /\ \A k \in lasting[p] \ db.doubtful : Bucket(k) < chain[p] => k \in Range(seen[p])
    /\ Visiting(p) => At(db, chain[p], rec_ptr[p], Range(seen[p]))

Told(p) ==
    /\ Touring(p) => Tour(p)
    /\ Toured(p) => Once(seen[p], db.doubtful) /\ lasting[p] \ db.doubtful \subseteq Range(seen[p])

\* Keys that were there all the time are there.
Lasting(p) == lasting[p] \ db.doubtful \subseteq Present /\ (pc[p] = "closed" => lasting[p] = {})

TourInv ==
    /\ seen \in [Proc -> Seq(Key)] /\ lasting \in [Proc -> SUBSET Key]
    /\ \A p \in Proc : Lasting(p) /\ Told(p)

\* What a step of p does to what was recorded of traversals
Records(p) ==
    /\ seen' \in [Proc -> Seq(Key)] /\ lasting' \in [Proc -> SUBSET Key]
    /\ \A q \in Proc : q # p => seen'[q] = seen[q] /\ lasting'[q] \subseteq lasting[q] /\ ret'[q] = ret[q]
    /\ lasting'[p] \subseteq lasting[p] \/ (lasting'[p] \subseteq Present /\ pc[p] = "idle")
    /\ pc'[p] = "closed" => lasting'[p] = {}

LEMMA PresentIs ==
    /\ \A k \in Key \ db.doubtful : k \in Present <=> Map[k] # NoValue
    /\ \A k \in Key \ db'.doubtful : k \in Present' <=> Map'[k] # NoValue
  BY DEF Present, Map

\* A traversal of another process is not disturbed.
LEMMA OthersTour ==
    ASSUME Inv, TourInv, NEW p \in Proc, Only(p), Respects(p, db'), Records(p),
           NEW q \in Proc, q # p
    PROVE  Told(q)'
  <1>1. /\ pc'[q] = pc[q] /\ call'[q] = call[q] /\ chain'[q] = chain[q] /\ rec_ptr'[q] = rec_ptr[q]
        /\ seen'[q] = seen[q] /\ ret'[q] = ret[q] /\ lasting'[q] \subseteq lasting[q]
    BY DEF Only, Records, Inv, Control
  <1>2. (Touring(q)' <=> Touring(q)) /\ (Toured(q)' <=> Toured(q)) /\ (Visiting(q)' <=> Visiting(q))
    BY <1>1 DEF Touring, Toured, Visiting
  <1>3. Told(q) /\ db.doubtful \subseteq db'.doubtful
    BY DEF TourInv, Respects
  <1>4. ASSUME Touring(q) PROVE Tour(q)'
    <2>1. Tour(q)
      BY <1>3, <1>4 DEF Told
    <2>2. ASSUME Visiting(q) PROVE At(db', chain[q], rec_ptr[q], Range(seen[q]))
      <3>1. chain[q] \in Buckets /\ chain[q] \in Lists /\ locked[q][chain[q]] > 0 /\ FileOK(db)
        BY <2>2, FreeIsAList DEF Inv, Control, Process
      <3>2. ~MayLock(p, chain[q])
        BY <3>1, OutOfReach DEF Inv, Types
      <3>3. db'.list[chain[q]] = db.list[chain[q]]
        BY <3>1, <3>2 DEF Respects
      <3>4. \A o \in OnList(db, chain[q]) : db'.rec[o].key = db.rec[o].key
        BY <3>1 DEF Respects, KeysKept
      <3>5. At(db, chain[q], rec_ptr[q], Range(seen[q]))
        BY <2>1, <2>2 DEF Tour
      <3> QED
        BY <1>3, <3>1, <3>3, <3>4, <3>5, AtSame
    <2> QED
      BY <1>1, <1>2, <1>3, <2>1, <2>2 DEF Tour, Once
  <1> QED
    BY <1>1, <1>2, <1>3, <1>4 DEF Told, Once

\* The keys that last: a step that a key does not survive says so.
LEMMA LastingKept ==
    ASSUME Inv, MapInv, TourInv, NEW p \in Proc, Only(p), Records(p), Refined(p),
           Loses(p) => \A q \in Proc : lasting'[q] \subseteq Present',
           db.doubtful \subseteq db'.doubtful \/ Loses(p), NEW q \in Proc
    PROVE  Lasting(q)'
  <1>1. lasting'[q] \ db'.doubtful \subseteq Present'
    <2>1. CASE Loses(p)
      BY <2>1
    <2>2. CASE Outlast /\ ~Loses(p)
      <3>1. db.doubtful \subseteq db'.doubtful /\ Present \subseteq Key
        BY <2>2 DEF Present
      <3>2. Present \ db'.doubtful \subseteq Present'
        BY <2>2, <3>1, PresentIs DEF Outlast
      <3>3. lasting'[q] \ db.doubtful \subseteq Present
        BY DEF Records, TourInv, Lasting
      <3> QED
        BY <3>1, <3>2, <3>3
    <2> QED
      BY <2>1, <2>2 DEF Refined
  <1>2. pc'[q] = "closed" => lasting'[q] = {}
    <2>1. CASE q = p
      BY <2>1 DEF Records
    <2>2. CASE q # p
      <3>1. pc'[q] = pc[q] /\ lasting'[q] \subseteq lasting[q]
        BY <2>2 DEF Only, Records, Inv, Control
      <3> QED
        BY <3>1 DEF TourInv, Lasting
    <2> QED
      BY <2>1, <2>2
  <1> QED
    BY <1>1, <1>2 DEF Lasting

LEMMA LosesSays ==
    ASSUME TourInv, NEW p \in Proc, Records(p), Loses(p), NEW q \in Proc
    PROVE  lasting'[q] \subseteq Present'
  <1>1. CASE Deletes(p) \/ StoreLinks(p) \/ TraverseVisits(p)
    <2>1. lasting' = [r \in Proc |-> lasting[r] \cap Present']
      BY <1>1 DEF Deletes, StoreLinks, TraverseVisits, Lasts
    <2> QED
      BY <2>1
  <1>2. CASE Leave(p)
    <2>1. lasting' = [r \in Proc |-> IF r = p THEN {} ELSE lasting[r] \cap Present']
      BY <1>2 DEF Leave
    <2> QED
      BY <2>1
  <1>3. CASE Users = {}
    <2>1. pc[q] = "closed" /\ pc[p] = "closed"
      BY <1>3 DEF Users
    <2>2. lasting[q] = {} /\ lasting[p] = {}
      BY <2>1 DEF TourInv, Lasting
    <2>3. lasting'[q] = {}
      BY <2>1, <2>2 DEF Records
    <2> QED
      BY <2>3
  <1> QED
    BY <1>1, <1>2, <1>3 DEF Loses

LEMMA QuietRecords ==
    ASSUME MapInv, TourInv, NEW p \in Proc, seen' = seen, lasting' = lasting, pc'[p] # "closed",
           ret' = ret \/ \E a : ret' = [ret EXCEPT ![p] = a]
    PROVE  Records(p)
  <1>1. \A q \in Proc : q # p => ret'[q] = ret[q]
    BY DEF MapInv, Answered
  <1> QED
    BY <1>1 DEF Records, TourInv

LEMMA QuietSteps ==
    ASSUME Inv, MapInv, TourInv, NEW p \in Proc,
           \/ Fetches(p) \/ Exists(p) \/ StoreChecks(p) \/ StoreAllocates(p) \/ StoreInserts(p)
           \/ Recovers(p) \/ TraverseLocks(p) \/ TraverseEndsChain(p)
           \/ FirstKey(p) \/ NextKey(p) \/ NextChain(p)
           \/ \E l \in Lists : UnlockChain(p, l) \/ LockChain(p, l)
           \/ \E clear \in BOOLEAN : Open(p, clear)
    PROVE  Records(p)
  <1>0. pc \in [Proc -> PCs]
    BY DEF Inv, Control
  <1>1. CASE Fetches(p) \/ Exists(p)
    <2>1. seen' = seen /\ lasting' = lasting /\ pc' = [pc EXCEPT ![p] = "idle"] /\ \E a : ret' = [ret EXCEPT ![p] = a]
      BY <1>1 DEF Fetches, Exists, Returns, Goes, history
    <2> QED
      BY <1>0, <2>1, QuietRecords
  <1>2. CASE StoreChecks(p)
    <2>1. /\ seen' = seen /\ lasting' = lasting
          /\ \/ pc' = [pc EXCEPT ![p] = "idle"] /\ \E a : ret' = [ret EXCEPT ![p] = a]
             \/ pc' = [pc EXCEPT ![p] = "allocate"] /\ ret' = ret
      BY <1>2 DEF StoreChecks, Returns, Goes, history
    <2> QED
      BY <1>0, <2>1, QuietRecords
  <1>3. CASE StoreAllocates(p)
    <2>1. /\ seen' = seen /\ lasting' = lasting
          /\ \/ pc' = [pc EXCEPT ![p] = "idle"] /\ \E a : ret' = [ret EXCEPT ![p] = a]
             \/ pc' = [pc EXCEPT ![p] = "insert"] /\ ret' = ret
      BY <1>3 DEF StoreAllocates, Returns, Goes, history
    <2> QED
      BY <1>0, <2>1, QuietRecords
  <1>4. CASE StoreInserts(p)
    <2>1. /\ seen' = seen /\ lasting' = lasting
          /\ \/ pc' = [pc EXCEPT ![p] = "idle"] /\ \E a : ret' = [ret EXCEPT ![p] = a]
             \/ pc' = [pc EXCEPT ![p] = "recover"] /\ ret' = ret
      BY <1>4 DEF StoreInserts, Returns, Goes
    <2> QED
      BY <1>0, <2>1, QuietRecords
  <1>5. CASE Recovers(p)
    <2>1. /\ seen' = seen /\ lasting' = lasting /\ ret' = ret
          /\ pc' = [pc EXCEPT ![p] = CASE call[p].type = "store" -> "link"
                                     [] call[p].type = "delete" -> "idle" [] OTHER -> "visit"]
      BY <1>5 DEF Recovers, Goes, history
    <2>2. pc'[p] # "closed"
      BY <1>0, <2>1
    <2> QED
      BY <2>1, <2>2, QuietRecords
  <1>6. CASE TraverseLocks(p) \/ TraverseEndsChain(p)
    <2>1. /\ seen' = seen /\ lasting' = lasting
          /\ \/ pc' = [pc EXCEPT ![p] = "idle"] /\ \E a : ret' = [ret EXCEPT ![p] = a]
             \/ pc' = [pc EXCEPT ![p] = "visit"] /\ ret' = ret
             \/ pc' = [pc EXCEPT ![p] = "traverse"] /\ ret' = ret
      BY <1>6 DEF TraverseLocks, TraverseEndsChain, Returns, Goes, history
    <2> QED
      BY <1>0, <2>1, QuietRecords
  <1>7. CASE FirstKey(p) \/ NextKey(p) \/ NextChain(p)
    <2>1. /\ seen' = seen /\ lasting' = lasting
          /\ \/ pc' = [pc EXCEPT ![p] = "idle"] /\ \E a : ret' = [ret EXCEPT ![p] = a]
             \/ pc' = [pc EXCEPT ![p] = "nextchain"] /\ ret' = ret
             \/ pc' = pc /\ ret' = ret /\ pc[p] # "closed"
      BY <1>7 DEF FirstKey, NextKey, NextChain, AtChain, Returns, Goes, history
    <2> QED
      BY <1>0, <2>1, QuietRecords
  <1>8. CASE \E l \in Lists : UnlockChain(p, l) \/ LockChain(p, l)
    <2>1. seen' = seen /\ lasting' = lasting /\ pc' = pc /\ ret' = ret /\ pc[p] = "idle"
      BY <1>8 DEF UnlockChain, LockChain, procVars, history
    <2> QED
      BY <2>1, QuietRecords
  <1>9. CASE \E clear \in BOOLEAN : Open(p, clear)
    <2>1. seen' = seen /\ lasting' = lasting /\ pc' = [pc EXCEPT ![p] = "idle"] /\ ret' = ret
      BY <1>9 DEF Open, history
    <2> QED
      BY <1>0, <2>1, QuietRecords
  <1> QED
    BY <1>1, <1>2, <1>3, <1>4, <1>5, <1>6, <1>7, <1>8, <1>9

\* The steps that shorten what lasts, and the start of a call
LEMMA OtherRecords ==
    ASSUME Inv, MapInv, TourInv, NEW p \in Proc,
           \/ Deletes(p) \/ StoreLinks(p) \/ TraverseVisits(p) \/ Leave(p)
           \/ \E r \in Requests[p] : Call(p, r)
    PROVE  Records(p)
  <1>0. /\ pc \in [Proc -> PCs] /\ chain \in [Proc -> Buckets] /\ Hands(p) /\ Process(p) /\ Types
        /\ seen \in [Proc -> Seq(Key)] /\ lasting \in [Proc -> SUBSET Key]
    BY DEF Inv, Control, TourInv, Types
  <1>1. ASSUME NEW a, ret' = ret \/ ret' = [ret EXCEPT ![p] = a] PROVE \A q \in Proc : q # p => ret'[q] = ret[q]
    BY <1>1 DEF MapInv, Answered
  <1>2. ASSUME Lasts PROVE /\ lasting' \in [Proc -> SUBSET Key]
                           /\ \A q \in Proc : lasting'[q] \subseteq lasting[q]
    BY <1>0, <1>2 DEF Lasts
  <1>3. CASE Deletes(p)
    <2>1. /\ seen' = seen /\ Lasts
          /\ \/ pc' = [pc EXCEPT ![p] = "idle"] /\ ret' = [ret EXCEPT ![p] = "fail"]
             \/ pc' = [pc EXCEPT ![p] = "recover"] /\ ret' = [ret EXCEPT ![p] = "ok"]
      BY <1>3 DEF Deletes, Returns, Goes
    <2>2. pc'[p] # "closed"
      BY <1>0, <2>1
    <2> QED
      BY <1>0, <1>1, <1>2, <2>1, <2>2 DEF Records
  <1>4. CASE StoreLinks(p)
    <2>1. /\ seen' = seen /\ Lasts /\ pc' = [pc EXCEPT ![p] = "idle"]
          /\ \E a : ret' = [ret EXCEPT ![p] = a]
      BY <1>4 DEF StoreLinks, Returns, Goes
    <2>2. pc'[p] # "closed"
      BY <1>0, <2>1
    <2> QED
      BY <1>0, <1>1, <1>2, <2>1, <2>2 DEF Records
  <1>5. CASE TraverseVisits(p)
    <2>1. pc[p] = "visit" /\ rec_ptr[p] # 0 /\ Lasts
      BY <1>5 DEF TraverseVisits
    <2>2. call[p].type = "traverse"
      BY <1>0, <2>1, Positions DEF Types
    <2>3. rec_ptr[p] \in OnList(db, chain[p]) /\ MayLock(p, chain[p]) /\ chain[p] \in Buckets /\ ~Replacing(p)
      BY <1>0, <2>1, <2>2 DEF Hands, Visiting, Process, MayLock, Replacing
    <2>4. PICK k : k = db.rec[rec_ptr[p]].key
      OBVIOUS
    <2>5. k \in Key
      BY <2>3, <2>4, KeyThere
    <2>6. /\ seen' = seen \/ seen' = [seen EXCEPT ![p] = Append(@, k)]
          /\ \/ pc' = pc /\ ret' = ret
             \/ pc' = [pc EXCEPT ![p] = "recover"] /\ ret' = ret
             \/ pc' = [pc EXCEPT ![p] = "idle"] /\ \E a : ret' = [ret EXCEPT ![p] = a]
      BY <1>5, <2>4 DEF TraverseVisits, Returns, Goes
    <2>7. pc'[p] # "closed"
      BY <1>0, <2>1, <2>6
    <2>8. seen' \in [Proc -> Seq(Key)] /\ \A q \in Proc : q # p => seen'[q] = seen[q]
      <3>1. seen[p] \in Seq(Key)
        BY <1>0
      <3>2. Append(seen[p], k) \in Seq(Key)
        BY <2>5, <3>1
      <3> QED
        BY <1>0, <2>6, <3>2
    <2>9. \A q \in Proc : q # p => ret'[q] = ret[q]
      BY <1>1, <2>6
    <2> QED
      BY <1>2, <2>1, <2>7, <2>8, <2>9 DEF Records
  <1>6. CASE Leave(p)
    <2>1. /\ seen' = [seen EXCEPT ![p] = <<>>] /\ ret' = [ret EXCEPT ![p] = "none"]
          /\ lasting' = [q \in Proc |-> IF q = p THEN {} ELSE lasting[q] \cap Present']
      BY <1>6 DEF Leave
    <2>2. /\ seen' \in [Proc -> Seq(Key)] /\ \A q \in Proc : q # p => seen'[q] = seen[q]
      BY <1>0, <2>1
    <2>3. lasting' \in [Proc -> SUBSET Key] /\ lasting'[p] = {} /\ \A q \in Proc : lasting'[q] \subseteq lasting[q]
      BY <1>0, <2>1
    <2>4. \A q \in Proc : q # p => ret'[q] = ret[q]
      BY <1>1, <2>1
    <2> QED
      BY <2>2, <2>3, <2>4 DEF Records
  <1>7. CASE \E r \in Requests[p] : Call(p, r)
    <2>1. PICK r \in Requests[p] : Call(p, r)
      BY <1>7
    <2>2. /\ seen' = [seen EXCEPT ![p] = <<>>] /\ ret' = [ret EXCEPT ![p] = "none"]
          /\ lasting' = [lasting EXCEPT ![p] = IF r.type = "traverse" THEN Present ELSE {}]
          /\ pc[p] = "idle"
      BY <2>1 DEF Call
    <2>3. pc'[p] # "closed"
      <3>1. pc'[p] = r.type /\ r \in Request
        BY <1>0, <2>1, ControlOfCall, TdbAssumption
      <3> QED
        BY <3>1 DEF Request
    <2>4. Present \subseteq Key
      BY DEF Present
    <2>5. /\ seen' \in [Proc -> Seq(Key)] /\ \A q \in Proc : q # p => seen'[q] = seen[q]
      BY <1>0, <2>2
    <2>6. /\ lasting' \in [Proc -> SUBSET Key] /\ lasting'[p] \subseteq Present
          /\ \A q \in Proc : q # p => lasting'[q] \subseteq lasting[q]
      BY <1>0, <2>2, <2>4
    <2>7. \A q \in Proc : q # p => ret'[q] = ret[q]
      BY <1>1, <2>2
    <2> QED
      BY <2>2, <2>3, <2>5, <2>6, <2>7 DEF Records
  <1> QED
    BY <1>3, <1>4, <1>5, <1>6, <1>7

LEMMA NotTouring ==
    ASSUME NEW p \in Proc,
           \/ call'[p].type # "traverse"
           \/ pc'[p] \notin {"traverse", "visit", "recover", "idle"}
           \/ pc'[p] = "idle" /\ ret'[p] # "ok"
    PROVE  Told(p)'
  BY DEF Told, Touring, Toured

\* The steps of other calls
LEMMA NoTour ==
    ASSUME Inv, MapInv, NEW p \in Proc,
           \/ Fetches(p) \/ Exists(p) \/ StoreChecks(p) \/ StoreAllocates(p) \/ StoreInserts(p)
           \/ StoreLinks(p) \/ Deletes(p) \/ FirstKey(p) \/ NextKey(p) \/ NextChain(p)
           \/ Leave(p)
           \/ \E clear \in BOOLEAN : Open(p, clear)
    PROVE  Told(p)'
  <1>0. Types /\ call \in [Proc -> Request \cup {CloseCall}]
    BY DEF Inv, Types, Control
  <1>1. CASE Leave(p)
    <2>1. call'[p] = CloseCall
      BY <1>0, <1>1, ControlOfLeave
    <2> QED
      BY <2>1, NotTouring DEF CloseCall
  <1>2. CASE ~Leave(p)
    <2>1. /\ call' = call
          /\ pc[p] \in {"fetch", "exists", "store", "allocate", "insert", "link", "delete", "firstkey",
                        "nextkey", "nextchain", "closed"}
      BY <1>2 DEF Fetches, Exists, StoreChecks, StoreAllocates, StoreInserts, StoreLinks, Deletes,
                  FirstKey, NextKey, NextChain, Open, AtChain, StepLeaves
    <2>2. call[p].type # "traverse"
      BY <1>0, <2>1, Positions DEF Types
    <2> QED
      BY <2>1, <2>2, NotTouring
  <1> QED
    BY <1>1, <1>2

LEMMA LockTold ==
    ASSUME Inv, TourInv, NEW p \in Proc, NEW l \in Lists, UnlockChain(p, l) \/ LockChain(p, l)
    PROVE  Told(p)'
  <1>1. /\ pc[p] = "idle" /\ pc' = pc /\ call' = call /\ ret' = ret /\ seen' = seen /\ lasting' = lasting
        /\ db' = db
    BY DEF UnlockChain, LockChain, procVars, history
  <1>2. ~Touring(p)' /\ (Toured(p)' <=> Toured(p))
    BY <1>1 DEF Touring, Toured
  <1>3. Told(p)
    BY DEF TourInv
  <1> QED
    BY <1>1, <1>2, <1>3 DEF Told

LEMMA CallTold ==
    ASSUME Inv, MapInv, TourInv, NEW p \in Proc, NEW r \in Requests[p], Call(p, r)
    PROVE  Told(p)'
  <1>0. Types /\ seen \in [Proc -> Seq(Key)] /\ chain \in [Proc -> Buckets] /\ ret = [q \in Proc |-> ret[q]]
    BY DEF Inv, Types, Control, TourInv, MapInv, Answered
  <1>1. pc'[p] = r.type /\ call'[p] = r
    BY <1>0, ControlOfCall
  <1>2. CASE r.type # "traverse"
    BY <1>1, <1>2, NotTouring
  <1>3. CASE r.type = "traverse"
    <2>1. seen' = [seen EXCEPT ![p] = <<>>] /\ chain' = [chain EXCEPT ![p] = 0]
      BY DEF Call
    <2>2. seen'[p] = <<>> /\ chain'[p] = 0 /\ pc'[p] = "traverse"
      BY <1>0, <1>1, <1>3, <2>1
    <2>3. ~Visiting(p)' /\ ~Toured(p)'
      BY <2>2 DEF Visiting, Toured
    <2>4. Once(<<>>, db'.doubtful) /\ Range(<<>>) = {}
      BY DEF Once, Range
    <2>5. \A k \in Key : ~(Bucket(k) < 0)
      BY Hashed DEF Buckets
    <2>6. lasting'[p] \subseteq Key
      BY OtherRecords DEF Records
    <2> QED
      BY <2>2, <2>3, <2>4, <2>5, <2>6 DEF Told, Tour
  <1> QED
    BY <1>2, <1>3

LEMMA ChainBegins ==
    ASSUME Inv, MapInv, TourInv, NEW p \in Proc, TraverseLocks(p)
    PROVE  Told(p)'
  <1>0. /\ Types /\ pc \in [Proc -> PCs] /\ chain \in [Proc -> Buckets] /\ rec_ptr \in [Proc -> Nat]
        /\ FileOK(db) /\ chain[p] \in Buckets
    BY DEF Inv, Types, Control
  <1>1. /\ pc[p] = "traverse" /\ rec_ptr' = [rec_ptr EXCEPT ![p] = Top(db.list[chain[p]])]
        /\ pc' = [pc EXCEPT ![p] = "visit"] /\ db' = db /\ chain' = chain /\ seen' = seen /\ lasting' = lasting
        /\ call' = call
    BY DEF TraverseLocks, Goes, StepLeaves, history
  <1>2. pc'[p] = "visit" /\ rec_ptr'[p] = Top(db.list[chain[p]])
    BY <1>0, <1>1
  <1>3. call[p].type = "traverse"
    BY <1>0, <1>1, Positions DEF Types
  <1>4. Tour(p)
    BY <1>1, <1>3 DEF TourInv, Told, Touring
  <1>5. \A k \in Range(seen[p]) : Bucket(k) < chain[p]
    BY <1>1, <1>4 DEF Tour
  <1>6. \A k \in Range(seen[p]) : Bucket(k) # chain[p]
    <2>1. chain[p] \in Int
      BY <1>0, TdbAssumption DEF Buckets
    <2> QED
      BY <1>5, <2>1
  <1>7. At(db, chain[p], Top(db.list[chain[p]]), Range(seen[p]))
    BY <1>0, <1>6, AtTop
  <1>8. Tour(p)'
    BY <1>1, <1>2, <1>4, <1>5, <1>7 DEF Tour
  <1> QED
    BY <1>2, <1>8 DEF Told, Toured

LEMMA RecoveryTold ==
    ASSUME Inv, MapInv, TourInv, NEW p \in Proc, Recovers(p)
    PROVE  Told(p)'
  <1>0. /\ Types /\ pc \in [Proc -> PCs] /\ FileOK(db) /\ chain[p] \in Buckets
    BY DEF Inv, Types, Control
  <1>1. /\ pc[p] = "recover" /\ db' = Freed(db, old[p]) /\ call' = call /\ chain' = chain /\ rec_ptr' = rec_ptr
        /\ seen' = seen /\ lasting' = lasting
        /\ pc' = [pc EXCEPT ![p] = CASE call[p].type = "store" -> "link"
                                     [] call[p].type = "delete" -> "idle" [] OTHER -> "visit"]
    BY DEF Recovers, Goes, StepLeaves, history
  <1>2. CASE call[p].type # "traverse"
    BY <1>1, <1>2, NotTouring
  <1>3. CASE call[p].type = "traverse"
    <2>1. pc'[p] = "visit"
      BY <1>0, <1>1, <1>3
    <2>2. Tour(p) /\ Visiting(p)
      BY <1>1, <1>3 DEF TourInv, Told, Touring, Visiting
    <2>3. KeysKept(db') /\ db'.doubtful = db.doubtful /\ \A b \in Buckets : db'.list[b] = db.list[b]
      BY <1>1, FreeRespects DEF Respects
    <2>4. At(db, chain[p], rec_ptr[p], Range(seen[p]))
      BY <2>2 DEF Tour
    <2>5. At(db', chain[p], rec_ptr[p], Range(seen[p]))
      BY <1>0, <2>3, <2>4, AtSame DEF KeysKept
    <2>6. Tour(p)'
      BY <1>1, <2>1, <2>2, <2>3, <2>5 DEF Tour
    <2> QED
      BY <2>1, <2>6 DEF Told, Toured
  <1> QED
    BY <1>2, <1>3

LEMMA VisitTold ==
    ASSUME Inv, MapInv, TourInv, NEW p \in Proc, TraverseVisits(p)
    PROVE  Told(p)'
  <1> DEFINE S == Range(seen[p])
  <1>0. /\ Types /\ pc \in [Proc -> PCs] /\ chain \in [Proc -> Buckets] /\ rec_ptr \in [Proc -> Nat]
        /\ FileOK(db) /\ chain[p] \in Buckets /\ Hands(p) /\ Process(p)
        /\ seen \in [Proc -> Seq(Key)] /\ ret = [q \in Proc |-> ret[q]]
    BY DEF Inv, Types, Control, TourInv, MapInv, Answered
  <1>1. pc[p] = "visit" /\ rec_ptr[p] # 0 /\ call' = call /\ chain' = chain
    BY DEF TraverseVisits, StepLeaves
  <1>2. call[p].type = "traverse"
    BY <1>0, <1>1, Positions DEF Types
  <1>3. Tour(p) /\ Visiting(p)
    BY <1>1, <1>2 DEF TourInv, Told, Touring, Visiting
  <1>4. rec_ptr[p] \in OnList(db, chain[p]) /\ MayLock(p, chain[p]) /\ ~Replacing(p)
    BY <1>0, <1>1, <1>2, <1>3 DEF Hands, Process, MayLock, Replacing
  <1>5. PICK k : k = db.rec[rec_ptr[p]].key
    OBVIOUS
  <1>6. k \in Key /\ Bucket(k) = chain[p] /\ OnChain(db, k)
    BY <1>0, <1>4, <1>5, KeyThere
  <1>7. PICK x : x = NextOf(db.list[chain[p]], rec_ptr[p])
    OBVIOUS
  <1>8. (k \notin S \/ k \in db.doubtful) /\ At(db, chain[p], x, S \cup {k})
    <2>1. At(db, chain[p], rec_ptr[p], S)
      BY <1>3 DEF Tour
    <2> HIDE DEF S
    <2> QED
      BY <1>0, <1>1, <1>5, <1>7, <2>1, AtNext
  <1>9. /\ Append(seen[p], k) \in Seq(Key) /\ Range(Append(seen[p], k)) = S \cup {k}
        /\ Once(Append(seen[p], k), db.doubtful)
    <2>1. seen[p] \in Seq(Key) /\ Once(seen[p], db.doubtful)
      BY <1>0, <1>3 DEF Tour
    <2> QED
      BY <1>6, <1>8, <2>1, Appended
  <1>10. ASSUME seen' = [seen EXCEPT ![p] = Append(@, k)], rec_ptr' = [rec_ptr EXCEPT ![p] = x],
                pc'[p] \in {"visit", "recover"}, At(db', chain[p], x, S \cup {k}), db'.doubtful = db.doubtful
         PROVE  Told(p)'
    <2>1. seen'[p] = Append(seen[p], k) /\ rec_ptr'[p] = x /\ chain'[p] = chain[p]
      BY <1>0, <1>1, <1>10
    <2>2. lasting'[p] \subseteq lasting[p]
      BY <1>1, OtherRecords DEF Records, TraverseVisits, Lasts
    <2>3. \A j \in Range(seen'[p]) : Bucket(j) < chain'[p] \/ Bucket(j) = chain'[p]
      BY <1>3, <1>6, <1>9, <2>1 DEF Tour
    <2>4. \A j \in lasting'[p] \ db'.doubtful : Bucket(j) < chain'[p] => j \in Range(seen'[p])
      BY <1>3, <1>9, <1>10, <2>1, <2>2 DEF Tour
    <2>5. Tour(p)'
      BY <1>9, <1>10, <2>1, <2>3, <2>4 DEF Tour
    <2>6. ~Toured(p)'
      BY <1>10 DEF Toured
    <2> QED
      BY <2>5, <2>6 DEF Told
  <1>11. \/ /\ seen' = [seen EXCEPT ![p] = Append(@, k)] /\ rec_ptr' = [rec_ptr EXCEPT ![p] = x]
            /\ pc' = pc /\ db' = db
         \/ /\ seen' = [seen EXCEPT ![p] = Append(@, k)] /\ rec_ptr' = [rec_ptr EXCEPT ![p] = x]
            /\ pc' = [pc EXCEPT ![p] = "recover"] /\ db' = Unlinked(db, k)
         \/ /\ pc' = [pc EXCEPT ![p] = "idle"]
            /\ ret' = [ret EXCEPT ![p] = "stopped"] \/ ret' = [ret EXCEPT ![p] = "fail"]
    BY <1>5, <1>7 DEF TraverseVisits, Returns, Goes
  <1>12. CASE /\ seen' = [seen EXCEPT ![p] = Append(@, k)] /\ rec_ptr' = [rec_ptr EXCEPT ![p] = x]
              /\ pc' = pc /\ db' = db
    BY <1>1, <1>8, <1>10, <1>12
  <1>13. CASE /\ seen' = [seen EXCEPT ![p] = Append(@, k)] /\ rec_ptr' = [rec_ptr EXCEPT ![p] = x]
              /\ pc' = [pc EXCEPT ![p] = "recover"] /\ db' = Unlinked(db, k)
    <2>1. pc'[p] = "recover"
      BY <1>0, <1>13
    <2>2. At(Unlinked(db, k), Bucket(k), x, S \cup {k})
      <3>1. At(db, Bucket(k), rec_ptr[p], S)
        BY <1>3, <1>6 DEF Tour
      <3> HIDE DEF S
      <3> QED
        BY <1>0, <1>1, <1>4, <1>5, <1>6, <1>7, <3>1, AtRemoved
    <2>3. db'.doubtful = db.doubtful
      BY <1>0, <1>6, <1>13, Unlinks
    <2> QED
      BY <1>6, <1>10, <1>13, <2>1, <2>2, <2>3
  <1>14. CASE /\ pc' = [pc EXCEPT ![p] = "idle"]
              /\ ret' = [ret EXCEPT ![p] = "stopped"] \/ ret' = [ret EXCEPT ![p] = "fail"]
    <2>1. pc'[p] = "idle" /\ ret'[p] # "ok"
      BY <1>0, <1>14
    <2> QED
      BY <2>1, NotTouring
  <1> QED
    BY <1>11, <1>12, <1>13, <1>14

LEMMA ChainEnds ==
    ASSUME Inv, MapInv, TourInv, NEW p \in Proc, TraverseEndsChain(p)
    PROVE  Told(p)'
  <1> DEFINE S == Range(seen[p])
  <1>0. /\ Types /\ pc \in [Proc -> PCs] /\ chain \in [Proc -> Buckets]
        /\ FileOK(db) /\ chain[p] \in Buckets /\ Process(p) /\ lasting[p] \subseteq Key
    BY DEF Inv, Types, Control, TourInv
  <1>1. /\ pc[p] = "visit" /\ rec_ptr[p] = 0 /\ call' = call /\ db' = db /\ seen' = seen /\ lasting' = lasting
    BY DEF TraverseEndsChain, StepLeaves, history
  <1>2. call[p].type = "traverse"
    BY <1>0, <1>1, Positions DEF Types
  <1>3. Tour(p) /\ Visiting(p)
    BY <1>1, <1>2 DEF TourInv, Told, Touring, Visiting
  <1>4. At(db, chain[p], 0, S)
    BY <1>1, <1>3 DEF Tour
  <1>5. ASSUME NEW k \in lasting[p] \ db.doubtful, Bucket(k) = chain[p] PROVE k \in S
    <2>1. k \in Key /\ Visible(k) # NoValue
      BY <1>0 DEF TourInv, Lasting, Present
    <2>2. MayLock(p, Bucket(k)) /\ ~Replaces(p, k)
      BY <1>0, <1>2, <1>3, <1>5 DEF Process, MayLock, Replaces, Replacing
    <2>3. ValueOf(db, k) # NoValue
      BY <2>1, <2>2, InFile
    <2>4. PICK o \in OnList(db, chain[p]) : db.rec[o].key = k
      BY <1>0, <1>5, <2>1, <2>3, ValueIs DEF OnChain
    <2> HIDE DEF S
    <2> QED
      BY <1>0, <1>4, <2>4, AtEnd
  <1>6. \A k \in Key : Bucket(k) \in Int /\ Bucket(k) < HashSize
    <2>1. \A k \in Key : Bucket(k) \in 0 .. HashSize - 1
      BY Hashed DEF Buckets
    <2>2. HashSize \in Nat
      BY TdbAssumption
    <2> QED
      BY <2>1, <2>2
  <1>7. chain[p] \in Int /\ HashSize \in Int
    BY <1>0, TdbAssumption DEF Buckets
  <1>8. \A k \in Range(seen[p]) : Bucket(k) < chain[p] + 1
    <2>1. Range(seen[p]) \subseteq Key
      <3>1. seen[p] \in Seq(Key)
        BY DEF TourInv
      <3> QED
        BY <3>1 DEF Range
    <2>2. \A k \in Range(seen[p]) : Bucket(k) < chain[p] \/ Bucket(k) = chain[p]
      BY <1>3 DEF Tour
    <2> QED
      BY <1>6, <1>7, <2>1, <2>2
  <1>9. \A k \in lasting[p] \ db.doubtful : Bucket(k) < chain[p] + 1 => k \in S
    <2>1. \A k \in lasting[p] \ db.doubtful : Bucket(k) < chain[p] => k \in S
      BY <1>3 DEF Tour
    <2>2. \A k \in lasting[p] \ db.doubtful : Bucket(k) < chain[p] + 1 => Bucket(k) < chain[p] \/ Bucket(k) = chain[p]
      BY <1>0, <1>6, <1>7
    <2> QED
      BY <1>5, <2>1, <2>2
  <1>10. \/ /\ chain' = [chain EXCEPT ![p] = @ + 1] /\ pc' = [pc EXCEPT ![p] = "traverse"]
         \/ ~(chain[p] + 1 < HashSize) /\ pc' = [pc EXCEPT ![p] = "idle"]
    BY DEF TraverseEndsChain, Returns, Goes
  <1>11. CASE chain' = [chain EXCEPT ![p] = @ + 1] /\ pc' = [pc EXCEPT ![p] = "traverse"]
    <2>1. chain'[p] = chain[p] + 1 /\ pc'[p] = "traverse"
      BY <1>0, <1>11
    <2>2. ~Visiting(p)' /\ ~Toured(p)'
      BY <2>1 DEF Visiting, Toured
    <2>3. Tour(p)'
      BY <1>1, <1>3, <1>8, <1>9, <2>1, <2>2 DEF Tour
    <2> QED
      BY <2>2, <2>3 DEF Told
  <1>12. CASE ~(chain[p] + 1 < HashSize) /\ pc' = [pc EXCEPT ![p] = "idle"]
    <2>1. pc'[p] = "idle"
      BY <1>0, <1>12
    <2>2. \A k \in lasting[p] : Bucket(k) < chain[p] + 1
      BY <1>0, <1>6, <1>7, <1>12
    <2>3. Once(seen[p], db.doubtful) /\ lasting[p] \ db.doubtful \subseteq S
      BY <1>3, <1>9, <2>2 DEF Tour
    <2>4. ~Touring(p)'
      BY <2>1 DEF Touring
    <2> QED
      BY <1>1, <2>3, <2>4 DEF Told
  <1> QED
    BY <1>10, <1>11, <1>12

LEMMA TourInit == Init => TourInv
  <1> SUFFICES ASSUME Init PROVE TourInv
    OBVIOUS
  <1>1. \A p \in Proc : pc[p] = "closed" /\ lasting[p] = {}
    BY DEF Init
  <1>2. \A p \in Proc : Lasting(p) /\ Told(p)
    BY <1>1 DEF Lasting, Told, Touring, Toured
  <1>3. seen \in [Proc -> Seq(Key)] /\ lasting \in [Proc -> SUBSET Key]
    BY DEF Init
  <1> QED
    BY <1>2, <1>3 DEF TourInv

LEMMA TourStep == IInv /\ MapInv /\ TourInv /\ IInv' /\ [Next]_vars => TourInv'
  <1> SUFFICES ASSUME IInv, MapInv, TourInv, IInv', [Next]_vars PROVE TourInv'
    OBVIOUS
  <1>0. Inv /\ Inv' /\ crashes \in Nat
    BY DEF IInv
  <1>1. CASE UNCHANGED vars
    <2>1. /\ db' = db /\ prior' = prior /\ call' = call /\ ret' = ret /\ pc' = pc /\ chain' = chain
          /\ rec_ptr' = rec_ptr /\ seen' = seen /\ lasting' = lasting
      BY <1>1 DEF vars, fileVars, procVars, history
    <2>2. Present' = Present
      BY <2>1 DEF Present, Visible
    <2>3. ASSUME NEW p \in Proc PROVE Lasting(p)' /\ Told(p)'
      <3>1. Lasting(p) /\ Told(p)
        BY DEF TourInv
      <3>2. Lasting(p)'
        BY <2>1, <2>2, <3>1 DEF Lasting
      <3>3. Told(p)'
        BY <2>1, <3>1 DEF Told, Touring, Toured, Tour, Visiting
      <3> QED
        BY <3>2, <3>3
    <2> QED
      BY <2>1, <2>3 DEF TourInv
  <1>2. CASE Next
    <2>1. PICK p \in Proc : Steps(p) \/ Application(p)
      BY <1>2 DEF Next
    <2>2. Only(p) /\ Refined(p)
      BY <1>0, <2>1, AllRefined
    <2>3. Records(p)
      <3>1. CASE Steps(p)
        BY <1>0, <3>1, QuietSteps, OtherRecords DEF Steps
      <3>2. CASE Application(p)
        BY <1>0, <3>2, QuietSteps, OtherRecords DEF Application, Close, Dies
      <3> QED
        BY <2>1, <3>1, <3>2
    <2>7. db.doubtful \subseteq db'.doubtful \/ Loses(p)
      <3>1. CASE \E clear \in BOOLEAN : Open(p, clear) /\ db' # db
        <4>1. \A r \in Proc : pc[r] = "closed"
          BY <3>1 DEF Open
        <4> QED
          BY <4>1 DEF Loses, Users
      <3>2. CASE ~(\E clear \in BOOLEAN : Open(p, clear) /\ db' # db)
        BY <1>0, <2>1, <3>2, AllGood DEF Good, Respects
      <3> QED
        BY <3>1, <3>2
    <2>4. \A q \in Proc : Lasting(q)'
      BY <1>0, <2>2, <2>3, <2>7, LosesSays, LastingKept
    <2>5. Told(p)'
      <3>1. CASE Steps(p)
        BY <1>0, <3>1, NoTour, ChainBegins, ChainEnds, VisitTold, RecoveryTold, LockTold DEF Steps
      <3>2. CASE Application(p)
        BY <1>0, <3>2, NoTour, CallTold, LockTold DEF Application, Close, Dies
      <3> QED
        BY <2>1, <3>1, <3>2
    <2>6. ASSUME NEW q \in Proc, q # p PROVE Told(q)'
      <3>1. CASE \E clear \in BOOLEAN : Open(p, clear) /\ db' # db
        <4>1. \A r \in Proc : pc[r] = "closed"
          BY <3>1 DEF Open
        <4>2. pc'[q] = "closed"
          BY <1>0, <2>2, <2>6, <4>1 DEF Only, Inv, Control
        <4> QED
          BY <4>2, NotTouring
      <3>2. CASE ~(\E clear \in BOOLEAN : Open(p, clear) /\ db' # db)
        <4>1. Respects(p, db')
          BY <1>0, <2>1, <3>2, AllGood DEF Good
        <4> QED
          BY <1>0, <2>2, <2>3, <2>6, <4>1, OthersTour
      <3> QED
        BY <3>1, <3>2
    <2> QED
      BY <2>3, <2>4, <2>5, <2>6 DEF TourInv, Records
  <1> QED
    BY <1>1, <1>2

\* A tdb_traverse that ran to the end reported every key that was there all
\* the time, and none twice, keys in doubt left out, whatever other processes
\* did to the chains that it had not locked and whichever keys its callback
\* deleted.
THEOREM TraversalIsComplete == Spec => []TraversalComplete
  <1>1. Init => IInv /\ MapInv /\ TourInv
    BY InvInit, MapInit, TourInit
  <1>2. IInv /\ MapInv /\ TourInv /\ [Next]_vars => IInv' /\ MapInv' /\ TourInv'
    BY InvStep, MapStep, TourStep
  <1>3. TourInv => TraversalComplete
    <2> SUFFICES ASSUME TourInv, NEW p \in Proc, Toured(p)
                 PROVE  /\ \A k \in lasting[p] \ db.doubtful : \E i \in DOMAIN seen[p] : seen[p][i] = k
                        /\ \A i, j \in DOMAIN seen[p] :
                              seen[p][i] = seen[p][j] => i = j \/ seen[p][i] \in db.doubtful
      BY DEF TraversalComplete, Toured
    <2>1. Once(seen[p], db.doubtful) /\ lasting[p] \ db.doubtful \subseteq Range(seen[p])
      BY DEF TourInv, Told
    <2> QED
      BY <2>1 DEF Once, Range
  <1> QED
    BY <1>1, <1>2, <1>3, PTL DEF Spec
=============================================================================
