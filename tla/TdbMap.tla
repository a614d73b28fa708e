------------------------------- MODULE TdbMap -------------------------------
(***************************************************************************)
(* What src/libasuite/tdb.c promises the processes that share a database:  *)
(* a map from keys to values in which every call takes effect at once, at  *)
(* some point between its start and its return.                            *)
(*                                                                         *)
(* The promise has two limits.  A key that two processes store at a time,  *)
(* one of them with TDB_INSERT, or whose record a store has no memory to   *)
(* read, is in doubt: nothing is said of it until the file is cleared.  And*)
(* a call that runs out of memory may fail, find nothing or, if it stores, *)
(* lose what was there.                                                    *)
(***************************************************************************)
EXTENDS Integers

CONSTANTS Proc, Key, Value,
          NoValue   \* the value of a key that is not there

VARIABLES
    map,      \* key -> value
    users,    \* processes that have the database open
    doubtful, \* keys in doubt
    shortages,\* how often memory was short
    call,     \* process -> its last request
    answer    \* process -> what that request returned, "none" before

vars == <<map, users, doubtful, shortages, call, answer>>

Init ==
    /\ map = [k \in Key |-> NoValue] /\ users = {} /\ doubtful = {} /\ shortages = 0
    /\ call = [p \in Proc |-> [type |-> "close"]] /\ answer = [p \in Proc |-> "none"]

\* Only the first process to open the database may clear it.
Opens(p) ==
    /\ p \notin users
    /\ users' = users \cup {p}
    /\ \/ UNCHANGED <<map, doubtful>>
       \/ users = {} /\ map' = [k \in Key |-> NoValue] /\ doubtful' = {}
    /\ UNCHANGED <<shortages, call, answer>>

\* A process closes the database or dies: what it was storing may be lost,
\* with what was there before.
Leaves(p) ==
    /\ p \in users
    /\ users' = users \ {p} /\ UNCHANGED <<doubtful, shortages>>
    /\ \/ UNCHANGED map
       \/ /\ call[p].type = "store" /\ answer[p] = "none"
          /\ map' = [map EXCEPT ![call[p].key] = NoValue]
    /\ call' = [call EXCEPT ![p] = [type |-> "close"]] /\ answer' = [answer EXCEPT ![p] = "none"]

Calls(p) ==
    /\ p \in users
    /\ call' = [call EXCEPT ![p] = call'[p]] /\ answer' = [answer EXCEPT ![p] = "none"]
    /\ UNCHANGED <<map, users, doubtful, shortages>>

Answers(p, a) == answer[p] = "none" /\ answer' = [answer EXCEPT ![p] = a]

\* Memory is short in this step, or may be.
Short == shortages' = shortages + 1
MayBeShort == Short \/ UNCHANGED shortages

\* The call takes effect on a key of which something is known.
TakesKey(p) ==
    LET r == call[p] IN
    \/ /\ r.type = "store"
       /\ \/ /\ r.flag = "replace" \/ map[r.key] = NoValue
             /\ map' = [map EXCEPT ![r.key] = r.val] /\ Answers(p, "ok")
          \/ r.flag = "insert" /\ map[r.key] # NoValue /\ UNCHANGED map /\ Answers(p, "exists")
          \/ UNCHANGED map /\ Answers(p, "fail")            \* no space
          \/ Short /\ map' = [map EXCEPT ![r.key] = NoValue] /\ Answers(p, "fail")
    \/ /\ r.type = "delete"
       /\ \/ /\ map' = [map EXCEPT ![r.key] = NoValue]
             /\ Answers(p, IF map[r.key] = NoValue THEN "fail" ELSE "ok")
          \/ Short /\ UNCHANGED map /\ Answers(p, "fail")
    \/ /\ r.type = "fetch" /\ UNCHANGED map
       /\ Answers(p, map[r.key]) \/ (Short /\ Answers(p, NoValue))
    \/ /\ r.type = "exists" /\ UNCHANGED map
       /\ \/ Answers(p, IF map[r.key] = NoValue THEN "no" ELSE "yes")
          \/ Short /\ Answers(p, "no")

\* A call on a key in doubt may have any answer.
TakesDoubtful(p) ==
    UNCHANGED map /\ answer[p] = "none" /\ answer' = [answer EXCEPT ![p] = answer'[p]]

\* The call takes effect.
Takes(p) ==
    /\ p \in users /\ MayBeShort
    /\ UNCHANGED <<users, doubtful, call>>
    /\ LET r == call[p] IN
         \/ /\ r.type \in {"store", "delete", "fetch", "exists"}
            /\ IF r.key \in doubtful THEN TakesDoubtful(p) ELSE TakesKey(p)
         \/ /\ r.type \in {"firstkey", "nextkey"} /\ UNCHANGED map
            /\ \E a \in {k \in Key : map[k] # NoValue} \cup doubtful \cup {"end"} : Answers(p, a)
         \/ /\ r.type = "traverse"                 \* its callback may delete
            /\ \/ UNCHANGED map /\ \E a \in {"ok", "stopped", "fail"} : Answers(p, a)
               \/ /\ answer[p] = "none" /\ UNCHANGED answer
                  /\ \E k \in Key : map' = [map EXCEPT ![k] = NoValue]

\* A store puts its key in doubt.
Rivals(p) ==
    \E q \in users \ {p} :
        /\ call[q].type = "store" /\ answer[q] = "none"
        /\ call[q].key = call[p].key /\ "insert" \in {call[p].flag, call[q].flag}
Doubts(p) ==
    /\ p \in users /\ MayBeShort
    /\ call[p].type = "store" /\ answer[p] = "none" /\ (Short \/ Rivals(p))
    /\ doubtful' = doubtful \cup {call[p].key}
    /\ map' = [map EXCEPT ![call[p].key] = NoValue]
    /\ UNCHANGED <<users, call>> /\ (UNCHANGED answer \/ Answers(p, "ok"))

\* Memory is short, to no effect yet.
RunsShort == Short /\ UNCHANGED <<map, users, doubtful, call, answer>>

Next ==
    \/ \E p \in Proc : Opens(p) \/ Leaves(p) \/ Calls(p) \/ Takes(p) \/ Doubts(p)
    \/ RunsShort

Spec == Init /\ [][Next]_vars
=============================================================================
