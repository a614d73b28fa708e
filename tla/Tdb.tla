-------------------------------- MODULE Tdb --------------------------------
(***************************************************************************)
(* The trivial database of src/libasuite/tdb.c: a file of records, linked  *)
(* into one free list and one chain per hash bucket, that several processes*)
(* map and change under byte range locks, one per list.                    *)
(*                                                                         *)
(* What a process does while it holds the lock of the list it works on is  *)
(* one step.  The locks of fcntl() are external; a process that dies loses *)
(* them.  All processes open the database for writing, and only once; a    *)
(* process that locked a chain itself uses the keys of that chain only, and*)
(* one that locked the free list (tdb_writelock) calls nothing else: taking*)
(* the locks in another order makes fcntl() report a deadlock, which the   *)
(* code ignores.                                                           *)
(*                                                                         *)
(* Offsets and lengths are numbers; a key or a value is known by its name  *)
(* and its length, and the full hash by the key.  A list is the sequence of *)
(* the offsets that its next pointers go through.                          *)
(***************************************************************************)
EXTENDS Integers, Sequences, SequencesExt

CONSTANTS
    Proc, Key, Value, NoValue,
    Hash,         \* key -> tdb_hash
    HashSize,     \* header.hash_size
    KeyLen, DataLen,
    Hdr,          \* sizeof(struct list_struct)
    Align,        \* TDB_ALIGN
    Page,         \* TDB_PAGE_SIZE
    Multiplier,   \* TDB_LEN_MULTIPLIER
    First,        \* end of header and list tops, where the records begin
    MaxSize,      \* the file cannot grow beyond
    Requests,     \* process -> the calls that it makes
    MaxCalls,     \* bound: calls, of all processes together
    MaxCrashes,   \* bound: processes that die
    MaxShortages  \* bound: steps in which malloc() fails

Request ==
    [type : {"store"}, key : Key, val : Value, flag : {"replace", "insert"}]
    \cup [type : {"fetch", "exists", "delete", "nextkey"}, key : Key]
    \cup [type : {"firstkey", "traverse"}]

ASSUME TdbAssumption ==
    /\ Hash \in [Key -> Nat] /\ HashSize \in Nat \ {0}
    /\ KeyLen \in [Key -> Nat \ {0}] /\ DataLen \in [Value -> Nat]
    /\ {Hdr, Align, Page, Multiplier, First} \subseteq Nat \ {0} /\ MaxSize \in Nat
    /\ Requests \in [Proc -> SUBSET Request]
    /\ MaxCalls \in Nat /\ MaxCrashes \in Nat /\ MaxShortages \in Nat
    /\ NoValue \notin Value

Bucket(k) == Hash[k] % HashSize
Buckets == 0 .. HashSize - 1
Free == -1                     \* the number of the free list
Lists == Buckets \cup {Free}
MinRecSize == 2 * Hdr + Align

VARIABLES
    db,           \* the file: size, offsets on every list, records by offset;
                  \* history: keys in doubt, and records lost to a failed store
    map_size,     \* process -> how much of the file it has mapped
    locked,       \* process -> list -> how often it locked that list
    pc,           \* process -> "closed", "idle" or where it is in its call
    call,         \* process -> its last request
    ret,          \* process -> what the request returned, "none" before
    rec_ptr,      \* process -> the record it works on
    old,          \* process -> the record its call took from a chain
    chain,        \* process -> bucket of its traversal
    calls, crashes, shortages,
    prior,        \* history: process -> value its store took from a chain
    seen,         \* history: process -> keys its traversal reported, in order
    lasting       \* history: process -> keys there since its traversal began

fileVars == <<db, map_size, locked>>
procVars == <<pc, call, ret, rec_ptr, old, chain>>
history  == <<prior, seen, lasting>>
vars == <<fileVars, procVars, calls, crashes, shortages, history>>

Empty == [size |-> First, list |-> [l \in Lists |-> <<>>], rec |-> <<>>,
          doubtful |-> {}, lost |-> {}]
Unlocked == [l \in Lists |-> 0]

Init ==
    /\ db = Empty /\ map_size = [p \in Proc |-> 0] /\ locked = [p \in Proc |-> Unlocked]
    /\ pc = [p \in Proc |-> "closed"] /\ call = [p \in Proc |-> [type |-> "close"]]
    /\ ret = [p \in Proc |-> "none"]
    /\ rec_ptr = [p \in Proc |-> 0] /\ old = [p \in Proc |-> 0] /\ chain = [p \in Proc |-> 0]
    /\ calls = 0 /\ crashes = 0 /\ shortages = 0 /\ prior = [p \in Proc |-> NoValue]
    /\ seen = [p \in Proc |-> <<>>] /\ lasting = [p \in Proc |-> {}]

-----------------------------------------------------------------------------
(***************************************************************************)
(* The file.                                                               *)
(***************************************************************************)
\* tdb_find, and the search of tdb_delete: the place of the key on its
\* chain, 0 if it is not there or a record before it is not in use.
Find(d, k) ==
    LET c == d.list[Bucket(k)]
    IN SelectInSeq(c, LAMBDA o : d.rec[o].magic # "used" \/ d.rec[o].key = k)

Found(d, k) ==
    LET i == Find(d, k) IN i # 0 /\ d.rec[d.list[Bucket(k)][i]].magic = "used"
RecordOf(d, k) == d.list[Bucket(k)][Find(d, k)]
ValueOf(d, k) == IF Found(d, k) THEN d.rec[RecordOf(d, k)].val ELSE NoValue

\* The record of a key is taken from its chain,
Unlinked(d, k) == [d EXCEPT !.list[Bucket(k)] = RemoveAt(@, Find(d, k))]

\* Fault: the magic is not changed.
FreedStillUsed(d, r) == [d EXCEPT !.list[Free] = <<r>> \o @]

\* put at the head of the free list,
Freed(d, r) == [d EXCEPT !.rec[r].magic = "free", !.list[Free] = <<r>> \o @]

\* or becomes the head of its key's chain.
Linked(d, r, k, v) ==
    [d EXCEPT !.rec[r] = [@ EXCEPT !.magic = "used", !.key = k, !.val = v],
              !.list[Bucket(k)] = <<r>> \o @]

\* What follows a record on its list, 0 at the end
NextOf(s, r) == LET i == SelectInSeq(s, LAMBDA o : o = r) IN IF i < Len(s) THEN s[i + 1] ELSE 0
Top(s) == IF s = <<>> THEN 0 ELSE Head(s)

\* tdb_expand
NewSize(d, length) == ((d.size + length * Multiplier + Page) \div Page) * Page
Expanded(d, length) ==
    LET r == [len |-> NewSize(d, length) - d.size - Hdr, magic |-> "free",
              key |-> NoValue, val |-> NoValue]
    IN [d EXCEPT !.size = NewSize(d, length), !.list[Free] = <<d.size>> \o @,
                 !.rec = [o \in DOMAIN d.rec \cup {d.size} |-> IF o = d.size THEN r ELSE d.rec[o]]]

\* The place of the first free record that is long enough, 0 if none is.
FirstFit(d, length) == SelectInSeq(d.list[Free], LAMBDA o : d.rec[o].len >= length)

\* Fault: the header of the new record is not counted.
SplitTooLong(d, i, length) ==
    LET r == d.list[Free][i]
        n == ((length + Align) \div Align) * Align
        rest == r + Hdr + n
    IN IF d.rec[r].len > length + MinRecSize
         THEN [d EXCEPT !.list[Free] = ReplaceAt(@, i, rest),
                        !.rec = [o \in DOMAIN d.rec \cup {rest} |->
                          CASE o = rest -> [d.rec[r] EXCEPT !.len = @ - n]
                            [] o = r -> [d.rec[r] EXCEPT !.len = n]
                            [] OTHER -> d.rec[o]]]
         ELSE [d EXCEPT !.list[Free] = RemoveAt(@, i)]

\* The space behind a record that is much too long becomes a free record,
\* which takes its place on the free list.
Split(d, i, length) ==
    LET r == d.list[Free][i]
        n == ((length + Align) \div Align) * Align
        rest == r + Hdr + n
    IN IF d.rec[r].len > length + MinRecSize
         THEN [d EXCEPT !.list[Free] = ReplaceAt(@, i, rest),
                        !.rec = [o \in DOMAIN d.rec \cup {rest} |->
                          CASE o = rest -> [d.rec[r] EXCEPT !.len = @ - (Hdr + n)]
                            [] o = r -> [d.rec[r] EXCEPT !.len = n]
                            [] OTHER -> d.rec[o]]]
         ELSE [d EXCEPT !.list[Free] = RemoveAt(@, i)]

\* tdb_allocate, from a free list on which some record fits
Allocated(d, length) ==
    LET i == FirstFit(d, length) IN [file |-> Split(d, i, length), ptr |-> d.list[Free][i]]

\* What a store does to the file beyond its records: from now on the key may
\* be on its chain twice, or the record is on no list and nobody's.
Doubted(d, k) == [d EXCEPT !.doubtful = @ \cup {k}]
Lost(d, r) == [d EXCEPT !.lost = @ \cup {r}]

-----------------------------------------------------------------------------
(***************************************************************************)
(* Locks and the map of a process.                                         *)
(***************************************************************************)
CanLock(p, l) == \A q \in Proc \ {p} : locked[q][l] = 0

\* Fault: no more is mapped than was asked for.
TouchesHeader(p, records) ==
    map_size' = [map_size EXCEPT ![p] = Max({r + Hdr : r \in records} \cup {@})]

\* tdb_oob: a process that reads a record beyond its map maps the file anew.
Touches(p, records) ==
    map_size' = [map_size EXCEPT ![p] =
                   IF \A r \in records : r + Hdr <= @ THEN @ ELSE db'.size]

OnList(d, l) == Range(d.list[l])

-----------------------------------------------------------------------------
(***************************************************************************)
(* Calls.                                                                  *)
(***************************************************************************)
\* The database as it appears to processes that obey the locks: a value is
\* there until the store that replaces it is done.
Visible(k) ==
    IF \E p \in Proc : prior[p] # NoValue /\ call[p].key = k
      THEN prior[CHOOSE p \in Proc : prior[p] # NoValue /\ call[p].key = k]
      ELSE ValueOf(db, k)
Present == {k \in Key : Visible(k) # NoValue}
Lasts == lasting' = [p \in Proc |-> lasting[p] \cap Present']

\* tdb_open: under the global lock, so one process at a time.  With
\* TDB_CLEAR_IF_FIRST the file is emptied if nobody has the active lock.
Open(p, clear) ==
    /\ pc[p] = "closed" /\ calls < MaxCalls
    /\ db' = IF clear /\ \A q \in Proc : pc[q] = "closed" THEN Empty ELSE db
    /\ map_size' = [map_size EXCEPT ![p] = db'.size]
    /\ pc' = [pc EXCEPT ![p] = "idle"] /\ calls' = calls + 1
    /\ UNCHANGED <<locked, call, ret, rec_ptr, old, chain, crashes, shortages, history>>

\* tdb_close, or the end of the process: its locks go with the descriptor.
Leave(p) ==
    /\ pc' = [pc EXCEPT ![p] = "closed"] /\ locked' = [locked EXCEPT ![p] = Unlocked]
    /\ map_size' = [map_size EXCEPT ![p] = 0]
    /\ call' = [call EXCEPT ![p] = [type |-> "close"]] /\ ret' = [ret EXCEPT ![p] = "none"]
    /\ rec_ptr' = [rec_ptr EXCEPT ![p] = 0] /\ old' = [old EXCEPT ![p] = 0]
    /\ chain' = [chain EXCEPT ![p] = 0]
    /\ prior' = [prior EXCEPT ![p] = NoValue] /\ seen' = [seen EXCEPT ![p] = <<>>]
    /\ UNCHANGED <<db, calls, shortages>>
    /\ lasting' = [q \in Proc |-> IF q = p THEN {} ELSE lasting[q] \cap Present']

Close(p) == pc[p] = "idle" /\ Leave(p) /\ UNCHANGED crashes

\* What a process may call, given the locks that it took itself.
Permitted(p, r) ==
    /\ locked[p][Free] = 0
    /\ \A b \in Buckets : locked[p][b] > 0 =>
          r.type \in {"store", "fetch", "exists", "delete"} /\ Bucket(r.key) = b

Dies(p) ==
    /\ pc[p] # "closed" /\ crashes < MaxCrashes
    /\ Leave(p)
    /\ crashes' = crashes + 1

Call(p, r) ==
    /\ pc[p] = "idle" /\ calls < MaxCalls
    /\ Permitted(p, r)
    /\ call' = [call EXCEPT ![p] = r] /\ ret' = [ret EXCEPT ![p] = "none"]
    /\ pc' = [pc EXCEPT ![p] = r.type] /\ chain' = [chain EXCEPT ![p] = 0]
    /\ calls' = calls + 1
    /\ seen' = [seen EXCEPT ![p] = <<>>]
    /\ lasting' = [lasting EXCEPT ![p] = IF r.type = "traverse" THEN Present ELSE {}]
    /\ rec_ptr' = [rec_ptr EXCEPT ![p] = 0] /\ old' = [old EXCEPT ![p] = 0]
    /\ UNCHANGED <<fileVars, crashes, shortages, prior>>

\* tdb_lockchain, tdb_writelock and their counterparts
LockChain(p, l) ==
    /\ pc[p] = "idle" /\ calls < MaxCalls
    /\ locked[p] = Unlocked /\ CanLock(p, l)
    /\ locked' = [locked EXCEPT ![p][l] = 1] /\ calls' = calls + 1
    /\ UNCHANGED <<db, map_size, procVars, crashes, shortages, history>>

UnlockChain(p, l) ==
    /\ pc[p] = "idle" /\ locked[p][l] = 1
    /\ locked' = [locked EXCEPT ![p][l] = 0]
    /\ UNCHANGED <<db, map_size, procVars, calls, crashes, shortages, history>>

-----------------------------------------------------------------------------
(***************************************************************************)
(* The steps of a call.  Each one that works on a chain finds its lock free*)
(* or held by the process itself.                                          *)
(***************************************************************************)
Goes(p, l) == pc' = [pc EXCEPT ![p] = l]
Returns(p, x) == Goes(p, "idle") /\ ret' = [ret EXCEPT ![p] = x]

\* Fault: the lock is not waited for.
AtChainUnlocked(p, l) == pc[p] = l

AtChain(p, l) == pc[p] = l /\ CanLock(p, Bucket(call[p].key))

\* tdb_alloc_read, and any other use of malloc(), may fail.
Remembers == UNCHANGED shortages
NoMemory == shortages < MaxShortages /\ shortages' = shortages + 1

StepLeaves == <<call, calls, crashes>>

\* tdb_fetch and tdb_exists: a record that cannot be read is not found.
Fetches(p) ==
    /\ AtChain(p, "fetch")
    /\ \/ Remembers /\ Returns(p, ValueOf(db, call[p].key))
       \/ NoMemory /\ Found(db, call[p].key) /\ Returns(p, NoValue)
    /\ UNCHANGED db /\ Touches(p, OnList(db, Bucket(call[p].key)))
    /\ UNCHANGED <<StepLeaves, locked, rec_ptr, old, chain, history>>

Exists(p) ==
    /\ AtChain(p, "exists")
    /\ \/ Remembers /\ Returns(p, IF Found(db, call[p].key) THEN "yes" ELSE "no")
       \/ NoMemory /\ Found(db, call[p].key) /\ Returns(p, "no")
    /\ UNCHANGED db /\ Touches(p, OnList(db, Bucket(call[p].key)))
    /\ UNCHANGED <<StepLeaves, locked, rec_ptr, old, chain, history>>

\* Two processes store the same key, and one of them inserts it: nothing
\* keeps both from putting it on the chain.
Contested(p) ==
    \E q \in Proc \ {p} :
        /\ call[q].type = "store" /\ pc[q] \in {"allocate", "insert"}
        /\ call[q].key = call[p].key /\ "insert" \in {call[p].flag, call[q].flag}

\* The first part of tdb_store: tdb_exists, or tdb_update where the new data
\* fits in.  Either may miss a record that it cannot read; one that tdb_exists
\* missed is not looked for again.
Size(r) == KeyLen[r.key] + DataLen[r.val]
StoreChecks(p) ==
    /\ AtChain(p, "store")
    /\ LET r == call[p]
           o == RecordOf(db, r.key)
           refused == r.flag = "insert" /\ Found(db, r.key)
           fits == r.flag = "replace" /\ Found(db, r.key) /\ db.rec[o].len >= Size(r)
       IN \/ /\ refused /\ Remembers
             /\ Returns(p, "exists")
             /\ UNCHANGED db
          \/ /\ fits /\ Remembers
             /\ db' = [db EXCEPT !.rec[o].val = r.val]
             /\ Returns(p, "ok")
          \/ /\ \/ ~refused /\ ~fits /\ Remembers
                \/ Found(db, r.key) /\ NoMemory
             /\ db' = IF refused \/ Contested(p) THEN Doubted(db, r.key) ELSE db
             /\ Goes(p, "allocate")
             /\ UNCHANGED ret
    /\ Touches(p, OnList(db, Bucket(call[p].key)))
    /\ UNCHANGED <<StepLeaves, locked, rec_ptr, old, chain, history>>

\* Fault: the free list stays locked when a record was found.
StoreAllocatesKeepsLock(p) ==
    /\ pc[p] = "allocate" /\ CanLock(p, Free)
    /\ LET n == Size(call[p])
           fits == FirstFit(db, n) # 0
           grown == Expanded(db, n + Hdr)
           a == Allocated(IF fits THEN db ELSE grown, n)
       IN IF fits \/ grown.size <= MaxSize
            THEN /\ db' = a.file /\ rec_ptr' = [rec_ptr EXCEPT ![p] = a.ptr]
                 /\ locked' = [locked EXCEPT ![p][Free] = @ + 1]
                 /\ Goes(p, "insert")
                 /\ Touches(p, OnList(IF fits THEN db ELSE grown, Free))
                 /\ UNCHANGED ret
            ELSE /\ Returns(p, "fail")
                 /\ UNCHANGED <<db, rec_ptr, locked>> /\ Touches(p, OnList(db, Free))
    /\ UNCHANGED <<StepLeaves, shortages, old, chain, history>>

\* tdb_allocate, under the lock of the free list, and tdb_expand in it
StoreAllocates(p) ==
    /\ pc[p] = "allocate" /\ CanLock(p, Free)
    /\ LET n == Size(call[p])
           fits == FirstFit(db, n) # 0
           grown == Expanded(db, n + Hdr)
           a == Allocated(IF fits THEN db ELSE grown, n)
       IN IF fits \/ grown.size <= MaxSize
            THEN /\ db' = a.file /\ rec_ptr' = [rec_ptr EXCEPT ![p] = a.ptr]
                 /\ Goes(p, "insert")
                 /\ Touches(p, OnList(IF fits THEN db ELSE grown, Free))
                 /\ UNCHANGED ret
            ELSE /\ Returns(p, "fail")
                 /\ UNCHANGED <<db, rec_ptr>> /\ Touches(p, OnList(db, Free))
    /\ UNCHANGED <<StepLeaves, shortages, locked, old, chain, history>>

\* Fault: the tdb_unlock in tdb_delete gives the lock of the chain back.
StoreInsertsUnlocks(p) ==
    /\ AtChain(p, "insert")
    /\ LET r == call[p] IN
         IF r.flag = "replace" /\ Found(db, r.key)
           THEN /\ db' = Unlinked(db, r.key)
                /\ old' = [old EXCEPT ![p] = RecordOf(db, r.key)]
                /\ prior' = [prior EXCEPT ![p] = ValueOf(db, r.key)]
                /\ Goes(p, "recover")
                /\ UNCHANGED <<ret, locked>>
           ELSE /\ db' = Linked(db, rec_ptr[p], r.key, r.val)
                /\ Returns(p, "ok")
                /\ UNCHANGED <<old, locked, prior>>
    /\ Touches(p, OnList(db, Bucket(call[p].key)))
    /\ UNCHANGED <<StepLeaves, shortages, rec_ptr, chain, seen, lasting>>

\* Fault: the old record is left where it is.
StoreInsertsTwice(p) ==
    /\ AtChain(p, "insert")
    /\ db' = Linked(db, rec_ptr[p], call[p].key, call[p].val)
    /\ Returns(p, "ok")
    /\ Touches(p, OnList(db, Bucket(call[p].key)))
    /\ UNCHANGED <<StepLeaves, shortages, rec_ptr, old, locked, chain, history>>

\* The rest of tdb_store, under the lock of the chain: the tdb_delete in it
\* takes an old record from the chain, unless it cannot read it, which is
\* ignored; without memory for the new one it is not put there.
StoreInserts(p) ==
    /\ AtChain(p, "insert")
    /\ LET r == call[p]
           replaces == r.flag = "replace" /\ Found(db, r.key)
       IN \/ /\ replaces /\ Remembers
             /\ db' = Unlinked(db, r.key)
             /\ old' = [old EXCEPT ![p] = RecordOf(db, r.key)]
             /\ prior' = [prior EXCEPT ![p] = ValueOf(db, r.key)]
             /\ locked' = [locked EXCEPT ![p][Bucket(r.key)] = @ + 1]
             /\ Goes(p, "recover")
             /\ UNCHANGED ret
          \/ /\ \/ ~replaces /\ Remembers /\ db' = Linked(db, rec_ptr[p], r.key, r.val)
                \/ /\ replaces /\ NoMemory
                   /\ db' = Linked(Doubted(db, r.key), rec_ptr[p], r.key, r.val)
             /\ Returns(p, "ok")
             /\ UNCHANGED <<old, locked, prior>>
          \/ /\ NoMemory /\ db' = Lost(db, rec_ptr[p])
             /\ Returns(p, "fail")
             /\ UNCHANGED <<old, locked, prior>>
    /\ Touches(p, OnList(db, Bucket(call[p].key)))
    /\ UNCHANGED <<StepLeaves, rec_ptr, chain, seen, lasting>>

\* When the space of the old record was recovered, the new one is put there.
StoreLinks(p) ==
    /\ pc[p] = "link"
    /\ LET r == call[p] IN
         /\ \/ /\ db.rec[rec_ptr[p]].magic = "free" /\ Remembers
               /\ db' = Linked(db, rec_ptr[p], r.key, r.val) /\ Returns(p, "ok")
            \/ /\ db.rec[rec_ptr[p]].magic # "free" /\ Remembers
               /\ UNCHANGED db /\ Returns(p, "fail")
            \/ /\ db.rec[rec_ptr[p]].magic = "free" /\ NoMemory
               /\ db' = Lost(db, rec_ptr[p]) /\ Returns(p, "fail")
         /\ locked' = [locked EXCEPT ![p][Bucket(r.key)] = @ - 1]
    /\ prior' = [prior EXCEPT ![p] = NoValue]
    /\ Touches(p, {rec_ptr[p]})
    /\ UNCHANGED <<StepLeaves, rec_ptr, old, chain, seen>>
    /\ Lasts

\* Fault: the space is not recovered.
DeletesOnly(p) ==
    /\ AtChain(p, "delete")
    /\ LET k == call[p].key IN
         IF Found(db, k) THEN db' = Unlinked(db, k) /\ Returns(p, "ok")
                         ELSE Returns(p, "fail") /\ UNCHANGED db
    /\ Touches(p, OnList(db, Bucket(call[p].key)))
    /\ UNCHANGED <<StepLeaves, shortages, old, locked, rec_ptr, chain, prior, seen>>
    /\ Lasts

\* tdb_delete: the record leaves its chain; the lock of the chain is given
\* back before that of the free list is taken.
Deletes(p) ==
    /\ AtChain(p, "delete")
    /\ LET k == call[p].key IN
         \/ /\ Found(db, k) /\ Remembers
            /\ db' = Unlinked(db, k)
            /\ old' = [old EXCEPT ![p] = RecordOf(db, k)]
            /\ ret' = [ret EXCEPT ![p] = "ok"]
            /\ Goes(p, "recover")
         \/ /\ IF Found(db, k) THEN NoMemory ELSE Remembers
            /\ Returns(p, "fail") /\ UNCHANGED <<db, old>>
    /\ Touches(p, OnList(db, Bucket(call[p].key)))
    /\ UNCHANGED <<StepLeaves, locked, rec_ptr, chain, prior, seen>>
    /\ Lasts

\* The space of a deleted record is recovered.
Recovers(p) ==
    /\ pc[p] = "recover" /\ CanLock(p, Free)
    /\ db' = Freed(db, old[p])
    /\ Goes(p, CASE call[p].type = "store" -> "link"
                 [] call[p].type = "delete" -> "idle"
                 [] OTHER -> "visit")
    /\ Touches(p, {old[p]})
    /\ UNCHANGED <<StepLeaves, shortages, locked, ret, rec_ptr, old, chain, history>>

-----------------------------------------------------------------------------
\* tdb_traverse: one chain after the other is locked.
TraverseLocks(p) ==
    /\ pc[p] = "traverse" /\ CanLock(p, chain[p])
    /\ locked' = [locked EXCEPT ![p][chain[p]] = @ + 1]
    /\ rec_ptr' = [rec_ptr EXCEPT ![p] = Top(db.list[chain[p]])]
    /\ Goes(p, "visit")
    /\ UNCHANGED <<StepLeaves, shortages, db, map_size, ret, old, chain, history>>

TraverseUnlocks(p) == locked' = [locked EXCEPT ![p][chain[p]] = @ - 1]

\* fn() is called for a record: it returns 0, deletes the key, or wants to
\* stop.
TraverseVisits(p) ==
    /\ pc[p] = "visit" /\ rec_ptr[p] # 0
    /\ LET r == db.rec[rec_ptr[p]]
           goesOn == rec_ptr' = [rec_ptr EXCEPT ![p] = NextOf(db.list[chain[p]], @)]
       IN \/ /\ r.magic = "used" /\ Remembers
             /\ seen' = [seen EXCEPT ![p] = Append(@, r.key)]
             /\ \/ goesOn /\ UNCHANGED <<pc, ret, db, old, locked>>
                \/ /\ goesOn
                   /\ db' = Unlinked(db, r.key)
                   /\ old' = [old EXCEPT ![p] = RecordOf(db, r.key)]
                   /\ Goes(p, "recover")
                   /\ UNCHANGED <<ret, locked>>
                \/ /\ Returns(p, "stopped")
                   /\ TraverseUnlocks(p)
                   /\ UNCHANGED <<rec_ptr, db, old>>
          \/ /\ IF r.magic = "used" THEN NoMemory ELSE Remembers
             /\ Returns(p, "fail") /\ TraverseUnlocks(p)
             /\ UNCHANGED <<rec_ptr, db, old, seen>>
    /\ Touches(p, {rec_ptr[p]})
    /\ UNCHANGED <<StepLeaves, chain, prior>>
    /\ Lasts

\* Fault: an empty chain ends the traversal.
TraverseEndsEarly(p) ==
    /\ pc[p] = "visit" /\ rec_ptr[p] = 0
    /\ TraverseUnlocks(p)
    /\ IF chain[p] + 1 < HashSize /\ db.list[chain[p]] # <<>>
         THEN chain' = [chain EXCEPT ![p] = @ + 1] /\ Goes(p, "traverse") /\ UNCHANGED ret
         ELSE Returns(p, "ok") /\ UNCHANGED chain
    /\ UNCHANGED <<StepLeaves, shortages, db, map_size, rec_ptr, old, history>>

TraverseEndsChain(p) ==
    /\ pc[p] = "visit" /\ rec_ptr[p] = 0
    /\ TraverseUnlocks(p)
    /\ IF chain[p] + 1 < HashSize
         THEN chain' = [chain EXCEPT ![p] = @ + 1] /\ Goes(p, "traverse") /\ UNCHANGED ret
         ELSE Returns(p, "ok") /\ UNCHANGED chain
    /\ UNCHANGED <<StepLeaves, shortages, db, map_size, rec_ptr, old, history>>

\* The key of the first record on a chain
HeadKey(b) == db.rec[Top(db.list[b])].key

\* tdb_firstkey; a key that cannot be read is none.
FirstKey(p) ==
    /\ pc[p] = "firstkey" /\ CanLock(p, chain[p])
    /\ IF db.list[chain[p]] # <<>>
         THEN /\ \/ Remembers /\ Returns(p, HeadKey(chain[p]))
                 \/ NoMemory /\ Returns(p, "end")
              /\ UNCHANGED <<db, chain>>
              /\ Touches(p, {Top(db.list[chain[p]])})
         ELSE /\ IF chain[p] + 1 < HashSize
                   THEN chain' = [chain EXCEPT ![p] = @ + 1] /\ UNCHANGED <<pc, ret>>
                   ELSE Returns(p, "end") /\ UNCHANGED chain
              /\ UNCHANGED <<db, map_size, shortages>>
    /\ UNCHANGED <<StepLeaves, locked, rec_ptr, old, history>>

\* tdb_nextkey: the next record on the key's chain, or, when there is none or
\* the key's own cannot be read,
NextKey(p) ==
    /\ AtChain(p, "nextkey")
    /\ LET k == call[p].key
           next == IF Found(db, k) THEN NextOf(db.list[Bucket(k)], RecordOf(db, k)) ELSE 0
       IN \/ /\ next # 0
             /\ \/ Remembers /\ Returns(p, db.rec[next].key)
                \/ NoMemory /\ Returns(p, "end")
             /\ UNCHANGED chain
          \/ /\ (next = 0 /\ Remembers) \/ (Found(db, k) /\ NoMemory)
             /\ Goes(p, "nextchain") /\ chain' = [chain EXCEPT ![p] = Bucket(k)]
             /\ UNCHANGED ret
    /\ UNCHANGED db /\ Touches(p, OnList(db, Bucket(call[p].key)))
    /\ UNCHANGED <<StepLeaves, locked, rec_ptr, old, history>>

\* the first one on a later chain.  It does not look at the last chain.
NextChain(p) ==
    /\ pc[p] = "nextchain"
    /\ LET h == chain[p] + 1 IN
         \/ h >= HashSize - 1 /\ Returns(p, "end") /\ UNCHANGED <<db, map_size, chain, shortages>>
         \/ /\ h < HashSize - 1 /\ CanLock(p, h)
            /\ IF db.list[h] # <<>>
                 THEN /\ \/ Remembers /\ Returns(p, HeadKey(h))
                         \/ NoMemory /\ Returns(p, "end")
                      /\ UNCHANGED <<db, chain>> /\ Touches(p, {Top(db.list[h])})
                 ELSE /\ chain' = [chain EXCEPT ![p] = h]
                      /\ UNCHANGED <<pc, ret, db, map_size, shortages>>
    /\ UNCHANGED <<StepLeaves, locked, rec_ptr, old, history>>

-----------------------------------------------------------------------------
Steps(p) ==
    \/ Fetches(p) \/ Exists(p) \/ StoreChecks(p) \/ StoreAllocates(p) \/ StoreInserts(p)
    \/ StoreLinks(p) \/ Deletes(p) \/ Recovers(p) \/ TraverseLocks(p) \/ TraverseVisits(p)
    \/ TraverseEndsChain(p) \/ FirstKey(p) \/ NextKey(p) \/ NextChain(p)
    \/ \E l \in Lists : UnlockChain(p, l)

Application(p) ==
    \/ \E clear \in BOOLEAN : Open(p, clear)
    \/ Close(p)
    \/ Dies(p)
    \/ \E r \in Requests[p] : Call(p, r)
    \/ \E l \in Lists : LockChain(p, l)

Next == \E p \in Proc : Steps(p) \/ Application(p)

\* A process goes on with its call, and gives back the lock it took; the
\* calls are bounded, so no lock is taken away from it for ever.
Fairness == \A p \in Proc : WF_vars(Steps(p))

Spec == Init /\ [][Next]_vars /\ Fairness

-----------------------------------------------------------------------------
\* The variables have their types, and no process holds a lock of another's.
TypeOK ==
    /\ DOMAIN db.list = Lists /\ db.size \in Nat
    /\ db.doubtful \subseteq Key /\ db.lost \subseteq DOMAIN db.rec
    /\ \A l \in Lists : OnList(db, l) \subseteq DOMAIN db.rec
    /\ \A o \in DOMAIN db.rec : db.rec[o] \in [len : Nat, magic : {"used", "free"},
           key : Key \cup {NoValue}, val : Value \cup {NoValue}]
    /\ \A p \in Proc : {rec_ptr[p], old[p]} \subseteq DOMAIN db.rec \cup {0}
    /\ \A l \in Lists, p, q \in Proc : locked[p][l] > 0 /\ locked[q][l] > 0 => p = q

\* No chain holds a key twice: tdb_store replaces, or refuses, what is there.
\* Only a key that one process inserted while another stored it, or whose
\* record a store had no memory to read, may be there again.
UniqueKeys ==
    \A b \in Buckets : \A o, q \in OnList(db, b) :
        db.rec[o].key = db.rec[q].key => o = q \/ db.rec[o].key \in db.doubtful

\* A record is on one list at most, and once; a chain holds records in use
\* whose keys hash to it; the free list holds free ones.  So every search
\* ends, and none strays to another list, whatever steps of whom it follows.
ListsSound ==
    /\ \A l, m \in Lists : l # m => OnList(db, l) \cap OnList(db, m) = {}
    /\ \A l \in Lists : IsInjective(db.list[l])
    /\ \A b \in Buckets : \A o \in OnList(db, b) :
          db.rec[o].magic = "used" /\ Bucket(db.rec[o].key) = b
    /\ \A o \in OnList(db, Free) : db.rec[o].magic = "free"

\* The records fill the file one behind the other: no two share a byte, none
\* ends behind the end of the file, none is too short for what it holds.
End(o) == o + Hdr + db.rec[o].len
RecordsTile ==
    /\ \A o \in DOMAIN db.rec : End(o) = db.size \/ End(o) \in DOMAIN db.rec
    /\ \A o, q \in DOMAIN db.rec : o < q => End(o) <= q
    /\ \A o \in DOMAIN db.rec : db.rec[o].magic = "used" =>
          KeyLen[db.rec[o].key] + DataLen[db.rec[o].val] <= db.rec[o].len

\* While no process died in the middle of a call, the space of every record
\* is on a list or in the hands of a store or a delete under way, or a store
\* that ran out of memory lost it.
Held(p) ==
    { o \in {rec_ptr[p]} : call[p].type = "store" /\ pc[p] \in {"insert", "recover", "link"} }
    \cup { o \in {old[p]} : pc[p] = "recover" }
NoSpaceLost ==
    crashes = 0 =>
        DOMAIN db.rec = (UNION {OnList(db, l) : l \in Lists}) \cup (UNION {Held(p) : p \in Proc})
                        \cup db.lost

\* The part of the file that a process has mapped never ends inside a
\* record: tdb_oob refuses an access that ends exactly at the end of the
\* file when the map is old, and only the header, read first and never the
\* last thing in the file, keeps that from happening.
MapEndsAtRecord ==
    \A p \in Proc : pc[p] # "closed" =>
        \A o \in DOMAIN db.rec :
            /\ o < map_size[p] => End(o) <= map_size[p]
            /\ o + Hdr < db.size

\* A traversal that ran to the end reported every key that was there all the
\* time, and none twice, though others changed the chains it did not hold and
\* its own callback deleted the keys it was called with.  Of a key in doubt
\* nothing is said.
TraversalComplete ==
    \A p \in Proc : call[p].type = "traverse" /\ ret[p] = "ok" /\ pc[p] = "idle" =>
        /\ \A k \in lasting[p] \ db.doubtful : \E i \in DOMAIN seen[p] : seen[p][i] = k
        /\ \A i, j \in DOMAIN seen[p] :
              seen[p][i] = seen[p][j] => i = j \/ seen[p][i] \in db.doubtful

\* Every call of a process that lives returns: no two processes wait for each
\* other's chain and free list.
CallReturns == \A p \in Proc : pc[p] \notin {"closed", "idle"} ~> pc[p] \in {"closed", "idle"}

\* The database is the map of TdbMap: every call takes effect at once, also
\* between the unlinking of an old record and the linking of the new one.
Abstract == INSTANCE TdbMap WITH
                map <- [k \in Key |-> IF k \in db.doubtful THEN NoValue ELSE Visible(k)],
                users <- {p \in Proc : pc[p] # "closed"},
                doubtful <- db.doubtful, shortages <- shortages,
                call <- call, answer <- ret
IsMap == Abstract!Spec

\* The file is well formed after every step of every process: its lists,
\* its records and what the processes have mapped of it.
WellFormed ==
    TypeOK /\ UniqueKeys /\ ListsSound /\ RecordsTile /\ NoSpaceLost /\ MapEndsAtRecord
=============================================================================
