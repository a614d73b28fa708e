------------------------------- MODULE Anamed -------------------------------
(***************************************************************************)
(* The name server anamed (src/asuite/anamed.c) and the programs that talk *)
(* to it.  It serves one conversation after the other, each with one       *)
(* request, and keeps the names in a database in its own memory            *)
(* (src/libasuite/tdb.c, see Tdb) whose key is the whole record.  When     *)
(* malloc fails in tdb a record that is there is not found, and one that   *)
(* is registered again may be lost or stored a second time.                *)
(*                                                                         *)
(* A name record has the fields user, fqlu, group and tp, in this order;   *)
(* one that was not given is Unset (blanks without an end).  CPI-C, the    *)
(* attach manager, which starts a server when there is none, and the       *)
(* clients are external; every client sends its request and then receives  *)
(* until the conversation ends.                                            *)
(***************************************************************************)
EXTENDS Integers, Sequences

CONSTANTS
    Client, NoOne,
    LuName,       \* client -> its fully qualified LU name
    Text, Unset,
    Names,        \* client -> the name records of its requests
    MaxRequests,  \* bound: requests, of all clients together
    MaxLost       \* bound: conversations that break

Field == 1 .. 4
Fqlu == 2
NameRec == [Field -> Text \cup {Unset}]

ASSUME AnamedAssumption ==
    /\ NoOne \notin Client /\ LuName \in [Client -> Text] /\ Unset \notin Text
    /\ Names \in [Client -> SUBSET NameRec]
    /\ MaxRequests \in Nat /\ MaxLost \in Nat

VARIABLES
    spc,          \* "accept", "receive", "deallocate" or "exited"
    partner,      \* whose conversation it has, if any
    noticed,      \* a verb told the server that the conversation broke
    open,         \* tdb_open succeeded
    copies,       \* name record -> how often the database has it
    cpc,          \* client -> "idle", "waiting", "done" or "lost"
    request,      \* client -> its last request
    got,          \* client -> the records it received for it
    requests, lost,
    promised,     \* history: names whose registration was acknowledged, the last word on them
    seen, kept,   \* history: client -> names that were promised at some time, and all the
                  \* time, since its request
    starved       \* history: names whose request met a lack of memory

serverVars == <<spc, partner, noticed, open, copies>>
clientVars == <<cpc, request, got, requests, lost>>
historyVars == <<promised, seen, kept, starved>>
vars == <<serverVars, clientVars, historyVars>>

Stored == UNION {Names[c] : c \in Client}
Request == [type : {"register", "delete", "query"}, name : NameRec]

\* tdb_open(NULL, ...): the server goes on without a database.
Init ==
    /\ spc = "accept" /\ partner = NoOne /\ noticed = FALSE
    /\ open \in BOOLEAN /\ copies = [n \in Stored |-> 0]
    /\ cpc = [c \in Client |-> "idle"] /\ request = [c \in Client |-> <<>>]
    /\ got = [c \in Client |-> <<>>] /\ requests = 0 /\ lost = 0
    /\ promised = {} /\ starved = {}
    /\ seen = [c \in Client |-> {}] /\ kept = [c \in Client |-> {}]

-----------------------------------------------------------------------------
(***************************************************************************)
(* Outside the server.                                                     *)
(***************************************************************************)
Asks(c, type, name) ==
    /\ cpc[c] \in {"idle", "done", "lost"} /\ partner # c /\ requests < MaxRequests
    /\ cpc' = [cpc EXCEPT ![c] = "waiting"]
    /\ request' = [request EXCEPT ![c] = [type |-> type, name |-> name]]
    /\ got' = [got EXCEPT ![c] = <<>>]
    /\ seen' = [seen EXCEPT ![c] = promised] /\ kept' = [kept EXCEPT ![c] = promised]
    /\ requests' = requests + 1
    /\ UNCHANGED <<serverVars, lost, promised, starved>>

Breaks(c) ==
    /\ cpc[c] = "waiting" /\ lost < MaxLost
    /\ cpc' = [cpc EXCEPT ![c] = "lost"] /\ lost' = lost + 1
    /\ UNCHANGED <<serverVars, request, got, requests, historyVars>>

\* snatchd starts a server for the next attach, if it does not refuse it.
Restarts ==
    /\ spc = "exited"
    /\ spc' = "accept" /\ noticed' = FALSE /\ open' \in BOOLEAN
    /\ UNCHANGED <<partner, copies, clientVars, historyVars>>

-----------------------------------------------------------------------------
(***************************************************************************)
(* The server.                                                             *)
(***************************************************************************)
\* cmaccp, for a conversation that may have broken meanwhile
Accepts(c) ==
    /\ spc = "accept" /\ cpc[c] = "waiting"
    /\ spc' = "receive" /\ partner' = c /\ noticed' = FALSE
    /\ UNCHANGED <<open, copies, clientVars, historyVars>>

\* What clients have been told of the names changes.
Promises(p) ==
    /\ promised' = p
    /\ seen' = [c \in Client |-> seen[c] \cup p] /\ kept' = [c \in Client |-> kept[c] \cap p]

\* Fault: the conversation is still the server's.
ExitsWithPartner ==
    /\ spc' = "exited"
    /\ copies' = [n \in Stored |-> 0] /\ Promises({})
    /\ UNCHANGED partner

\* The loop ends, and with it the database.
Exits ==
    /\ spc' = "exited" /\ partner' = NoOne
    /\ copies' = [n \in Stored |-> 0] /\ Promises({})

AcceptFails ==
    /\ spc = "accept" /\ lost < MaxLost
    /\ lost' = lost + 1
    /\ Exits
    /\ UNCHANGED <<noticed, open, cpc, request, got, requests, starved>>

\* cmepln or get_asuiterecord fails.
ReceiveFails ==
    /\ spc = "receive" /\ cpc[partner] = "lost"
    /\ noticed' = TRUE /\ spc' = "deallocate"
    /\ UNCHANGED <<partner, open, copies, clientVars, historyVars>>

\* A handler for the request of the given type
Handles(type) ==
    /\ spc = "receive" /\ cpc[partner] = "waiting"
    /\ request[partner].type = type
    /\ spc' = "deallocate"

Sends(records) == got' = [got EXCEPT ![partner] = records]

\* The database has n so many times; something failed in tdb for want of memory.
Keeps(n, c) == copies' = [copies EXCEPT ![n] = c]
Starves(n) == starved' = starved \cup {n}

HandlerLeaves == <<partner, noticed, open, cpc, request, requests, lost>>

\* Fault: the answer does not depend on what tdb_store returned.
RegisterUnchecked ==
    /\ Handles("register")
    /\ LET n == request[partner].name IN
         \/ /\ n[Fqlu] # LuName[partner]
            /\ Sends(<<"input_error">>)
            /\ UNCHANGED <<copies, historyVars>>
         \/ /\ n[Fqlu] = LuName[partner]
            /\ Keeps(n, IF open THEN 1 ELSE copies[n])
            /\ Sends(<<"ok">>) /\ Promises(promised \cup {n})
            /\ UNCHANGED starved
    /\ UNCHANGED HandlerLeaves

\* a_register: the first parameter, the LU name, is compared with the
\* partner's.  tdb_store updates a record that is there.  Without memory to
\* find it, it deletes and inserts it, and either may fail, too.
Register ==
    /\ Handles("register")
    /\ LET n == request[partner].name IN
         \/ /\ n[Fqlu] # LuName[partner]
            /\ Sends(<<"input_error">>)
            /\ UNCHANGED <<copies, historyVars>>
         \/ /\ n[Fqlu] = LuName[partner] /\ open
            /\ Sends(<<"ok">>) /\ Promises(promised \cup {n})
            /\ \/ Keeps(n, IF copies[n] = 0 THEN 1 ELSE copies[n]) /\ UNCHANGED starved
               \/ copies[n] > 0 /\ Keeps(n, copies[n] + 1) /\ Starves(n)
         \/ /\ n[Fqlu] = LuName[partner]
            /\ Sends(<<"fail">>) /\ Promises(promised \ {n})
            /\ \/ UNCHANGED copies /\ (IF open THEN Starves(n) ELSE UNCHANGED starved)
               \/ copies[n] > 0 /\ Keeps(n, copies[n] - 1) /\ Starves(n)
    /\ UNCHANGED HandlerLeaves

Known(n) == open /\ copies[n] > 0

\* The record is not there, or there is no memory to compare it.
NotFound(n) ==
    /\ Sends(<<>>)
    /\ IF Known(n) THEN Starves(n) ELSE UNCHANGED starved
    /\ UNCHANGED <<copies, promised, seen, kept>>

\* Fault: the record is sent in either case.
DeleteAlwaysOk ==
    /\ Handles("delete")
    /\ LET n == request[partner].name IN
         /\ Keeps(n, 0) /\ Promises(promised \ {n})
         /\ Sends(<<"ok">>) /\ UNCHANGED starved
    /\ UNCHANGED HandlerLeaves

\* a_delete: nothing is sent for a name that is not found.
Delete ==
    /\ Handles("delete")
    /\ LET n == request[partner].name IN
         \/ /\ Known(n)
            /\ Keeps(n, copies[n] - 1) /\ Promises(promised \ {n})
            /\ Sends(<<"ok">>) /\ UNCHANGED starved
         \/ NotFound(n)
    /\ UNCHANGED HandlerLeaves

\* Fault: every field is taken for the one after it.
ReportedShifted(n, f) == IF f < 4 THEN n[f + 1] ELSE n[f]

\* A field of the answer.  An unset one has no end of its own: blanks, and
\* then the next field that is set; or what lies behind the record.
Reported(n, f) ==
    LET set == {g \in f .. 4 : n[g] # Unset} IN
    IF set = {} THEN Unset ELSE n[CHOOSE g \in set : \A h \in set : g <= h]

\* a_query
Query ==
    /\ Handles("query")
    /\ LET n == request[partner].name IN
         \/ /\ Known(n)
            /\ Sends(<<"ok", [f \in Field |-> Reported(n, f)], "ok">>)
            /\ UNCHANGED <<copies, historyVars>>
         \/ NotFound(n)
    /\ UNCHANGED HandlerLeaves

\* Fault: a request that failed ends the loop, too.
DeallocatesOnError ==
    /\ spc = "deallocate"
    /\ \/ /\ cpc[partner] = "waiting" /\ got[partner] # <<>> /\ got[partner][1] = "ok"
          /\ spc' = "accept" /\ partner' = NoOne
          /\ cpc' = [cpc EXCEPT ![partner] = "done"]
          /\ UNCHANGED <<copies, promised, seen, kept>>
       \/ /\ got[partner] = <<>> \/ got[partner][1] # "ok"
          /\ Exits /\ cpc' = [cpc EXCEPT ![partner] = "done"]
    /\ UNCHANGED <<noticed, open, request, got, requests, lost, starved>>

\* Fault: cmdeal only after an answer.
DeallocatesAnswered ==
    /\ spc = "deallocate" /\ spc' = "accept" /\ partner' = NoOne
    /\ cpc' = IF got[partner] = <<>> THEN cpc ELSE [cpc EXCEPT ![partner] = "done"]
    /\ UNCHANGED <<copies, historyVars, noticed, open, request, got, requests, lost>>

\* cmdeal.  Its return code alone decides whether the loop goes on: it fails
\* when the server was told that the conversation broke, and may fail when
\* the conversation broke since.
Deallocates ==
    /\ spc = "deallocate"
    /\ \/ /\ ~noticed
          /\ spc' = "accept" /\ partner' = NoOne
          /\ cpc' = [cpc EXCEPT ![partner] = IF @ = "waiting" THEN "done" ELSE @]
          /\ UNCHANGED <<copies, promised, seen, kept>>
       \/ /\ cpc[partner] = "lost"
          /\ Exits
          /\ UNCHANGED cpc
    /\ UNCHANGED <<noticed, open, request, got, requests, lost, starved>>

-----------------------------------------------------------------------------
Server ==
    \/ \E c \in Client : Accepts(c)
    \/ ReceiveFails \/ Register \/ Delete \/ Query \/ Deallocates

Next ==
    \/ \E c \in Client, t \in {"register", "delete", "query"} : \E n \in Names[c] : Asks(c, t, n)
    \/ \E c \in Client : Breaks(c)
    \/ Restarts \/ AcceptFails
    \/ Server

\* A server that runs goes on and accepts every conversation in its turn;
\* nothing obliges anyone to start it again.
Fairness == WF_vars(Server) /\ \A c \in Client : SF_vars(Accepts(c))

Spec == Init /\ [][Next]_vars /\ Fairness

-----------------------------------------------------------------------------
\* The variables have their types.
TypeOK ==
    /\ spc \in {"accept", "receive", "deallocate", "exited"}
    /\ partner \in Client \cup {NoOne} /\ (partner = NoOne <=> spc \in {"accept", "exited"})
    /\ copies \in [Stored -> Nat] /\ promised \subseteq Stored
    /\ \A c \in Client : cpc[c] \in {"idle", "waiting", "done", "lost"}

\* A registration that was acknowledged lasts until somebody deletes it, until
\* a second registration of the name is told to have failed, or until the
\* server ends: a_register says so only of what tdb_store stored.
PromisesKept == \A n \in promised : copies[n] > 0

\* What the clients are told goes together.  Of a name that has not met a lack
\* of memory, an "ok" says that its registration was acknowledged at some time
\* since the request, and after a delete is no longer, and no record at all
\* that it was not acknowledged all that time.  A registration is refused for
\* the LU name that is not the partner's, and for nothing else.
AnswerTrue ==
    \A c \in Client : cpc[c] = "done" =>
        LET n == request[c].name type == request[c].type
            status == IF got[c] = <<>> THEN "none" ELSE got[c][1]
        IN
        /\ status = "ok" /\ n \notin starved => n \in seen[c] /\ (type = "delete" => n \notin kept[c])
        /\ status = "none" => type # "register" /\ (n \in kept[c] => n \in starved)
        /\ status = "input_error" <=> type = "register" /\ n[Fqlu] # LuName[c]

\* The answer to a query reports every field that was registered as it was.
FieldsReported ==
    \A c \in Client : cpc[c] = "done" /\ Len(got[c]) = 3 =>
        \A f \in Field : request[c].name[f] # Unset => got[c][2][f] = request[c].name[f]

\* What aname.8:163-167 says: a query that gives some of the fields finds the
\* records that have them.  The code does not keep it: TLC refutes it.
QueryFindsMatches ==
    \A c \in Client : cpc[c] = "done" /\ request[c].type = "query" /\ got[c] = <<>> =>
        \A n \in kept[c] \ starved : \E f \in Field : request[c].name[f] \notin {Unset, n[f]}

\* No request ends the server: it ends only through conversations that break
\* or a failed accept.
OutlivesRequests == [][spc' = "exited" => spc \in {"accept", "exited"} \/ cpc[partner] = "lost"]_vars

\* Every client's conversation ends, unless the server has ended and waits for
\* somebody to start it again.
ClientAnswered == \A c \in Client : cpc[c] = "waiting" ~> (cpc[c] # "waiting" \/ spc = "exited")

\* What a client was told is true, in the status and in the fields.
AnswersTrue == TypeOK /\ AnswerTrue /\ FieldsReported

\* An acknowledged name lasts: it stays in the database, and no request ends
\* the server that keeps it.
NamesLast == []PromisesKept /\ OutlivesRequests
=============================================================================
