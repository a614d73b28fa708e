---------------------------- MODULE AnamedProofs ----------------------------
(***************************************************************************)
(* What anamed tells its clients is true, for every set of clients, every  *)
(* set of name records and every number of requests, of broken             *)
(* conversations and of failed calls of malloc.                            *)
(*                                                                         *)
(* The invariant AnswersTrue speaks of conversations that have ended.      *)
(* What makes it inductive: the records sent before cmdeal already fit, as *)
(* long as the conversation is not known to be broken; and a name that has *)
(* not met a lack of memory is in the database exactly when the clients    *)
(* were told so.                                                           *)
(***************************************************************************)
EXTENDS Anamed, TLAPS

Answers == {<<>>, <<"ok">>, <<"input_error">>, <<"fail">>}
             \cup {<<"ok", r, "ok">> : r \in NameRec}

Requested == [type : {"register", "delete", "query"}, name : Stored]

\* The types of the client's side, which TypeOK leaves open.
ClientTypes ==
    /\ cpc \in [Client -> {"idle", "waiting", "done", "lost"}]
    /\ request \in [Client -> Requested \cup {<<>>}]
    /\ got \in [Client -> Answers]
    /\ seen \in [Client -> SUBSET Stored] /\ kept \in [Client -> SUBSET Stored]
    /\ \A c \in Client : cpc[c] # "idle" => request[c] \in Requested

\* What the record of a status, or no record, says to client c.
Status(c) == IF got[c] = <<>> THEN "none" ELSE got[c][1]

\* The status that client c received goes together with what the others were
\* told.
StatusFits(c) ==
    LET n == request[c].name type == request[c].type IN
    /\ Status(c) = "ok" /\ n \notin starved => n \in seen[c] /\ (type = "delete" => n \notin kept[c])
    /\ Status(c) = "none" => type # "register" /\ (n \in kept[c] => n \in starved)
    /\ Status(c) = "input_error" <=> type = "register" /\ n[Fqlu] # LuName[c]

\* The answer to a query has the fields of the request that were set.
FieldsFit(c) ==
    Len(got[c]) = 3 =>
        \A f \in Field : request[c].name[f] # Unset => got[c][2][f] = request[c].name[f]

\* The server's conversation is one that a client opened and has not seen end.
Serving ==
    partner # NoOne =>
        /\ cpc[partner] \in {"waiting", "lost"}
        /\ noticed => cpc[partner] = "lost"
        /\ spc = "deallocate" /\ cpc[partner] = "waiting" => StatusFits(partner) /\ FieldsFit(partner)

Ended == \A c \in Client : cpc[c] = "done" => StatusFits(c) /\ FieldsFit(c)

\* A name that never met a lack of memory is in the database, once, exactly
\* when the clients were told so.
Exact == \A n \in Stored \ starved : copies[n] = IF n \in promised THEN 1 ELSE 0

\* The names of a client's history, seen from now.
Since == \A c \in Client : promised \subseteq seen[c] /\ kept[c] \subseteq promised

\* A server that has ended has no database, and nor has one that opened none.
Lasting ==
    /\ PromisesKept /\ Exact /\ Since
    /\ ~open \/ spc = "exited" => copies = [n \in Stored |-> 0]

IInv == TypeOK /\ ClientTypes /\ Serving /\ Ended /\ Lasting

-----------------------------------------------------------------------------
\* A field that was registered is reported as it was: the first set field at
\* or behind it is the field itself.
LEMMA ReportedSet ==
    ASSUME NEW n \in NameRec, NEW f \in Field, n[f] # Unset
    PROVE  Reported(n, f) = n[f]
  <1> DEFINE set == {g \in f .. 4 : n[g] # Unset}
  <1>1. f \in set /\ \A h \in set : f <= h
    BY DEF Field
  <1>2. \A g \in set : (\A h \in set : g <= h) => g = f
    BY <1>1 DEF Field
  <1>3. (CHOOSE g \in set : \A h \in set : g <= h) = f
    BY <1>1, <1>2, Zenon
  <1> QED
    BY <1>1, <1>3 DEF Reported

\* Every reported field is a text or Unset.
LEMMA ReportedType ==
    ASSUME NEW n \in NameRec
    PROVE  [f \in Field |-> Reported(n, f)] \in NameRec
  <1> SUFFICES ASSUME NEW f \in Field
               PROVE  Reported(n, f) \in Text \cup {Unset}
    BY DEF NameRec
  <1> DEFINE set == {g \in f .. 4 : n[g] # Unset}
  <1>1. CASE set = {}
    BY <1>1 DEF Reported
  <1>2. CASE set # {}
    <2>1. \E g \in set : \A h \in set : g <= h
      BY <1>2 DEF Field
    <2> DEFINE m == CHOOSE g \in set : \A h \in set : g <= h
    <2>2. m \in set
      BY <2>1, Zenon
    <2>3. m \in Field
      BY <2>2 DEF Field
    <2> QED
      BY <1>2, <2>3 DEF Reported, NameRec
  <1> QED
    BY <1>1, <1>2

-----------------------------------------------------------------------------
\* The records of requests are name records.
LEMMA StoredNames == Stored \subseteq NameRec
  BY AnamedAssumption DEF Stored

\* The invariant holds before the first conversation.
LEMMA IInvInit == Init => IInv
  <1> SUFFICES ASSUME Init PROVE IInv
    OBVIOUS
  <1> USE DEF Init
  <1>1. TypeOK
    BY AnamedAssumption DEF TypeOK
  <1>2. ClientTypes
    BY DEF ClientTypes, Answers
  <1>3. Lasting
    BY DEF Lasting, PromisesKept, Exact, Since
  <1> QED
    BY <1>1, <1>2, <1>3 DEF IInv, Serving, Ended

\* A name that is promised or starved no less than before: what a client was
\* told still fits.
LEMMA StillFits ==
    ASSUME NEW c \in Client, StatusFits(c), FieldsFit(c),
           request'[c] = request[c], got'[c] = got[c],
           starved \subseteq starved', seen[c] \subseteq seen'[c], kept'[c] \subseteq kept[c]
    PROVE  StatusFits(c)' /\ FieldsFit(c)'
  BY DEF StatusFits, FieldsFit, Status

\* What a change of the promises does to the histories.
LEMMA PromisesStep ==
    ASSUME ClientTypes, Since, NEW p \in SUBSET Stored, Promises(p)
    PROVE  /\ Since' /\ seen' \in [Client -> SUBSET Stored] /\ kept' \in [Client -> SUBSET Stored]
           /\ promised' = p /\ \A c \in Client : seen[c] \subseteq seen'[c] /\ kept'[c] \subseteq kept[c]
  BY DEF Promises, Since, ClientTypes

\* Handling a request leaves an answer that fits: what the three handlers
\* have in common.
LEMMA HandlerStep ==
    ASSUME IInv, NEW type, Handles(type), NEW records \in Answers,
           Sends(records), UNCHANGED HandlerLeaves,
           starved \subseteq starved', promised' \subseteq Stored, copies' \in [Stored -> Nat],
           seen' \in [Client -> SUBSET Stored], kept' \in [Client -> SUBSET Stored],
           \A c \in Client : seen[c] \subseteq seen'[c] /\ kept'[c] \subseteq kept[c],
           Lasting', StatusFits(partner)', FieldsFit(partner)'
    PROVE  IInv'
  <1> USE DEF IInv, Handles, Sends, HandlerLeaves
  <1>0. partner \in Client /\ partner # NoOne
    BY DEF TypeOK
  <1>1. TypeOK'
    BY DEF TypeOK
  <1>2. ClientTypes'
    BY <1>0 DEF ClientTypes
  <1>4. \A c \in Client : c # partner => got'[c] = got[c]
    BY <1>0 DEF ClientTypes
  <1>5. Serving'
    BY <1>0 DEF Serving, StatusFits, FieldsFit, Status
  <1>6. Ended'
    <2> SUFFICES ASSUME NEW c \in Client, cpc[c] = "done" PROVE StatusFits(c)' /\ FieldsFit(c)'
      BY DEF Ended
    <2>1. c # partner /\ StatusFits(c) /\ FieldsFit(c)
      BY <1>0 DEF Serving, Ended
    <2> QED
      BY <1>4, <2>1, StillFits
  <1> QED
    BY <1>1, <1>2, <1>5, <1>6

\* The database and the promises after a handler that changes one name.
LEMMA LastingStep ==
    ASSUME IInv, spc = "receive", spc' = "deallocate", UNCHANGED open, NEW n \in Stored, NEW k \in Nat,
           copies' = [copies EXCEPT ![n] = k], NEW p \in SUBSET Stored, Promises(p),
           starved \subseteq starved', n \in p => k > 0, p \ {n} = promised \ {n},
           n \notin starved' => k = IF n \in p THEN 1 ELSE 0,
           ~open => k = 0
    PROVE  Lasting'
  <1>1. copies \in [Stored -> Nat] /\ promised \subseteq Stored
    BY DEF IInv, TypeOK
  <1>2. Since' /\ promised' = p
    BY PromisesStep DEF IInv, Lasting
  <1>3. copies' \in [Stored -> Nat] /\ copies'[n] = k /\ \A m \in Stored \ {n} : copies'[m] = copies[m]
    BY <1>1
  <1>4. PromisesKept'
    BY <1>1, <1>2, <1>3 DEF PromisesKept, IInv, Lasting
  <1>5. Exact'
    <2> SUFFICES ASSUME NEW m \in Stored \ starved' PROVE copies'[m] = IF m \in p THEN 1 ELSE 0
      BY <1>2 DEF Exact
    <2>1. CASE m = n
      BY <1>3, <2>1
    <2>2. CASE m # n
      BY <1>3, <2>2 DEF IInv, Lasting, Exact
    <2> QED
      BY <2>1, <2>2
  <1>6. ~open' => copies' = [m \in Stored |-> 0]
    BY <1>3 DEF IInv, Lasting
  <1> QED
    BY <1>2, <1>4, <1>5, <1>6 DEF Lasting

\* The server ends.
LEMMA ExitsStep ==
    ASSUME IInv, Exits, UNCHANGED <<cpc, request, got, starved>>
    PROVE  IInv'
  <1> USE DEF Exits, IInv
  <1>1. /\ Since' /\ seen' \in [Client -> SUBSET Stored] /\ kept' \in [Client -> SUBSET Stored]
        /\ promised' = {} /\ \A c \in Client : seen[c] \subseteq seen'[c] /\ kept'[c] \subseteq kept[c]
    <2>1. {} \in SUBSET Stored
      OBVIOUS
    <2> QED
      BY <2>1, PromisesStep DEF Lasting
  <1>2. TypeOK'
    BY <1>1, AnamedAssumption DEF TypeOK
  <1>3. ClientTypes'
    BY <1>1 DEF ClientTypes
  <1>4. Lasting'
    BY <1>1 DEF Lasting, PromisesKept, Exact
  <1>5. Ended'
    BY <1>1, StillFits DEF Ended
  <1> QED
    BY <1>2, <1>3, <1>4, <1>5 DEF Serving

\* A name that is not found, or not compared for want of memory.
LEMMA NotFoundStep ==
    ASSUME IInv, NEW type \in {"delete", "query"}, Handles(type), NotFound(request[partner].name), UNCHANGED HandlerLeaves
    PROVE  IInv'
  <1> DEFINE n == request[partner].name
  <1>0. partner \in Client /\ n \in Stored /\ request[partner].type = type
    BY DEF Handles, IInv, TypeOK, ClientTypes, Requested
  <1>1. Sends(<<>>) /\ UNCHANGED <<copies, promised, seen, kept>> /\ starved \subseteq starved'
    BY DEF NotFound, Starves
  <1>2. Known(n) => n \in starved'
    BY DEF NotFound, Starves
  <1>3. got'[partner] = <<>> /\ UNCHANGED request
    BY <1>0, <1>1 DEF Sends, IInv, ClientTypes, HandlerLeaves
  <1>4. n \in kept[partner] => n \in starved'
    <2>1. n \in kept[partner] => copies[n] > 0
      BY <1>0 DEF IInv, Lasting, Since, PromisesKept
    <2>2. copies[n] > 0 => open
      BY <1>0 DEF IInv, Lasting
    <2> QED
      BY <1>2, <2>1, <2>2 DEF Known
  <1>5. StatusFits(partner)' /\ FieldsFit(partner)'
    <2>1. partner' = partner
      BY DEF HandlerLeaves
    <2>2. Status(partner)' = "none"
      BY <1>3, <2>1 DEF Status
    <2> QED
      BY <1>0, <1>1, <1>3, <1>4, <2>1, <2>2 DEF StatusFits, FieldsFit
  <1>6. Lasting'
    <2>1. UNCHANGED <<open, partner>> /\ spc = "receive" /\ spc' = "deallocate"
      BY DEF HandlerLeaves, Handles
    <2> QED
      BY <1>1, <2>1 DEF IInv, Lasting, PromisesKept, Exact, Since
  <1>7. <<>> \in Answers
    BY DEF Answers
  <1>8. /\ promised' \subseteq Stored /\ copies' \in [Stored -> Nat]
        /\ seen' \in [Client -> SUBSET Stored] /\ kept' \in [Client -> SUBSET Stored]
        /\ \A c \in Client : seen[c] \subseteq seen'[c] /\ kept'[c] \subseteq kept[c]
    BY <1>1 DEF IInv, TypeOK, ClientTypes
  <1> QED
    BY <1>1, <1>5, <1>6, <1>7, <1>8, HandlerStep

\* An answer that changes at most the number of copies of its name.
LEMMA AnsweredStep ==
    ASSUME IInv, NEW type \in {"register", "delete"}, Handles(type), UNCHANGED HandlerLeaves,
           NEW status \in {"ok", "fail"}, Sends(<<status>>), NEW k \in Nat,
           copies' = [copies EXCEPT ![request[partner].name] = k],
           NEW p \in SUBSET Stored, Promises(p), starved \subseteq starved',
           request[partner].name \in p => k > 0,
           p \ {request[partner].name} = promised \ {request[partner].name},
           request[partner].name \notin starved' => k = IF request[partner].name \in p THEN 1 ELSE 0,
           ~open => k = 0,
           type = "register" => request[partner].name[Fqlu] = LuName[partner],
           type = "register" /\ status = "ok" => request[partner].name \in p,
           type = "delete" => request[partner].name \notin p,
           type = "delete" /\ request[partner].name \notin starved => request[partner].name \in promised
    PROVE  IInv'
  <1> DEFINE n == request[partner].name
  <1>0. partner \in Client /\ n \in Stored /\ request[partner].type = type /\ spc = "receive" /\ spc' = "deallocate"
    BY DEF Handles, IInv, TypeOK, ClientTypes, Requested
  <1>1. /\ Since' /\ seen' \in [Client -> SUBSET Stored] /\ kept' \in [Client -> SUBSET Stored]
        /\ promised' = p /\ \A c \in Client : seen[c] \subseteq seen'[c] /\ kept'[c] \subseteq kept[c]
    BY PromisesStep DEF IInv, Lasting
  <1>2. UNCHANGED <<open, partner, request>>
    BY DEF HandlerLeaves
  <1>3. Lasting'
    BY <1>0, <1>2, LastingStep
  <1>4. got'[partner] = <<status>> /\ <<status>> \in Answers /\ <<status>>[1] = status /\ Len(<<status>>) = 1
        /\ <<status>> # <<>>
    BY <1>0 DEF Sends, IInv, ClientTypes, Answers
  <1>5. Status(partner)' = status
    BY <1>2, <1>4 DEF Status
  <1>6. n \in p => n \in seen'[partner]
    BY <1>0, <1>1 DEF Since
  <1>7. n \in promised => n \in seen'[partner]
    BY <1>0, <1>1 DEF IInv, Lasting, Since
  <1>8. n \notin p => n \notin kept'[partner]
    BY <1>0, <1>1 DEF Since
  <1>9. StatusFits(partner)'
    BY <1>0, <1>2, <1>5, <1>6, <1>7, <1>8 DEF StatusFits
  <1>10. FieldsFit(partner)'
    BY <1>2, <1>4 DEF FieldsFit
  <1>11. promised' \subseteq Stored /\ copies' \in [Stored -> Nat]
    BY <1>0, <1>1 DEF IInv, TypeOK
  <1> QED
    BY <1>1, <1>3, <1>4, <1>9, <1>10, <1>11, HandlerStep

\* A handler's request is typed, and its name is counted.
LEMMA HandledTyped ==
    ASSUME IInv, NEW type, Handles(type)
    PROVE  /\ partner \in Client /\ request[partner].name \in Stored /\ request[partner].name \in NameRec
           /\ copies \in [Stored -> Nat] /\ copies[request[partner].name] \in Nat
           /\ (~open => copies[request[partner].name] = 0)
           /\ (request[partner].name \in promised => copies[request[partner].name] > 0)
           /\ (request[partner].name \notin starved =>
                  copies[request[partner].name] = IF request[partner].name \in promised THEN 1 ELSE 0)
           /\ promised \subseteq Stored
  <1>1. partner \in Client /\ request[partner].name \in Stored
    BY DEF Handles, IInv, TypeOK, ClientTypes, Requested
  <1>2. copies \in [Stored -> Nat] /\ promised \subseteq Stored
    BY DEF IInv, TypeOK
  <1> QED
    BY <1>1, <1>2, StoredNames DEF IInv, Lasting, PromisesKept, Exact

\* Every step keeps the invariant.
LEMMA IInvStep == IInv /\ [Next]_vars => IInv'
  <1> SUFFICES ASSUME IInv, [Next]_vars PROVE IInv'
    OBVIOUS
  <1> USE AnamedAssumption
  <1>1. ASSUME NEW c \in Client, NEW t \in {"register", "delete", "query"}, NEW n \in Names[c], Asks(c, t, n)
        PROVE  IInv'
    <2> USE <1>1 DEF Asks, serverVars, IInv
    <2>1. TypeOK'
      BY DEF TypeOK, ClientTypes
    <2>2. ClientTypes'
      <3>1. [type |-> t, name |-> n] \in Requested
        BY DEF Requested, Stored
      <3>2. <<>> \in Answers /\ promised \in SUBSET Stored
        BY DEF Answers, TypeOK
      <3> QED
        BY <3>1, <3>2 DEF ClientTypes
    <2>3. \A d \in Client : d # c => /\ cpc'[d] = cpc[d] /\ got'[d] = got[d]
                                    /\ request'[d] = request[d] /\ seen'[d] = seen[d] /\ kept'[d] = kept[d]
      BY DEF ClientTypes
    <2>4. Serving'
      BY <2>3 DEF Serving, StatusFits, FieldsFit, Status, TypeOK
    <2>5. Ended'
      BY <2>3 DEF Ended, StatusFits, FieldsFit, Status, ClientTypes
    <2>6. seen'[c] = promised /\ kept'[c] = promised
      BY DEF ClientTypes
    <2>7. Lasting'
      BY <2>3, <2>6 DEF Lasting, PromisesKept, Exact, Since
    <2> QED
      BY <2>1, <2>2, <2>4, <2>5, <2>7
  <1>2. ASSUME NEW c \in Client, Breaks(c)
        PROVE  IInv'
    <2> USE <1>2 DEF Breaks, serverVars, historyVars, IInv
    <2>1. TypeOK' /\ ClientTypes'
      BY DEF TypeOK, ClientTypes
    <2>2. Serving' /\ Ended'
      BY DEF Serving, Ended, StatusFits, FieldsFit, Status, ClientTypes, TypeOK
    <2> QED
      BY <2>1, <2>2 DEF Lasting, PromisesKept, Exact, Since
  <1>3. CASE Restarts
    BY <1>3 DEF Restarts, clientVars, historyVars, IInv, TypeOK, ClientTypes, Serving, Ended, StatusFits, FieldsFit,
                Status, Lasting, PromisesKept, Exact, Since
  <1>4. CASE AcceptFails
    BY <1>4, ExitsStep DEF AcceptFails
  <1>5. ASSUME NEW c \in Client, Accepts(c)
        PROVE  IInv'
    BY <1>5 DEF Accepts, clientVars, historyVars, IInv, TypeOK, ClientTypes, Serving, Ended, StatusFits, FieldsFit,
                Status, Lasting, PromisesKept, Exact, Since
  <1>6. CASE ReceiveFails
    BY <1>6 DEF ReceiveFails, clientVars, historyVars, IInv, TypeOK, ClientTypes, Serving, Ended, StatusFits, FieldsFit,
                Status, Lasting, PromisesKept, Exact, Since
  <1> DEFINE n == request[partner].name
             k == copies[n]
  <1>7. CASE Register
    <2>1. Handles("register") /\ UNCHANGED HandlerLeaves
      BY <1>7 DEF Register
    <2>2. /\ partner \in Client /\ n \in Stored /\ copies \in [Stored -> Nat] /\ k \in Nat /\ promised \subseteq Stored
          /\ (~open => k = 0) /\ (n \in promised => k > 0)
          /\ (n \notin starved => k = IF n \in promised THEN 1 ELSE 0)
      BY <2>1, HandledTyped
    <2>3. CASE n[Fqlu] # LuName[partner] /\ Sends(<<"input_error">>) /\ UNCHANGED <<copies, historyVars>>
      <3>1. /\ got'[partner] = <<"input_error">> /\ <<"input_error">> \in Answers
            /\ <<"input_error">>[1] = "input_error" /\ Len(<<"input_error">>) = 1 /\ <<"input_error">> # <<>>
        BY <2>2, <2>3 DEF Sends, IInv, ClientTypes, Answers
      <3>2. UNCHANGED <<open, partner, request, copies, promised, seen, kept, starved>> /\ spc = "receive"
            /\ spc' = "deallocate" /\ request[partner].type = "register"
        BY <2>1, <2>3 DEF HandlerLeaves, historyVars, Handles
      <3>3. StatusFits(partner)' /\ FieldsFit(partner)'
        <4>1. Status(partner)' = "input_error"
          BY <3>1, <3>2 DEF Status
        <4> QED
          BY <2>3, <3>1, <3>2, <4>1 DEF StatusFits, FieldsFit
      <3>4. Lasting'
        BY <3>2 DEF IInv, Lasting, PromisesKept, Exact, Since
      <3>5. /\ promised' \subseteq Stored /\ copies' \in [Stored -> Nat] /\ starved \subseteq starved'
            /\ seen' \in [Client -> SUBSET Stored] /\ kept' \in [Client -> SUBSET Stored]
            /\ \A c \in Client : seen[c] \subseteq seen'[c] /\ kept'[c] \subseteq kept[c]
        BY <3>2 DEF IInv, TypeOK, ClientTypes
      <3> QED
        BY <2>1, <2>3, <3>1, <3>3, <3>4, <3>5, HandlerStep
    <2>4. CASE n[Fqlu] = LuName[partner] /\ open /\ Sends(<<"ok">>) /\ Promises(promised \cup {n})
      <3>1. PICK m \in Nat : /\ copies' = [copies EXCEPT ![n] = m] /\ m > 0 /\ starved \subseteq starved'
                             /\ n \notin starved' => m = 1
        <4>1. CASE Keeps(n, IF k = 0 THEN 1 ELSE k) /\ UNCHANGED starved
          <5> DEFINE j == IF k = 0 THEN 1 ELSE k
          <5>1. j \in Nat /\ j > 0 /\ (n \notin starved => j = 1)
            BY <2>2
          <5>2. copies' = [copies EXCEPT ![n] = j]
            BY <4>1 DEF Keeps
          <5> HIDE DEF j
          <5> QED
            BY <4>1, <5>1, <5>2
        <4>2. CASE Keeps(n, k + 1) /\ Starves(n)
          <5>1. copies' = [copies EXCEPT ![n] = k + 1] /\ k + 1 \in Nat /\ k + 1 > 0
            BY <2>2, <4>2 DEF Keeps
          <5>2. n \in starved' /\ starved \subseteq starved'
            BY <4>2 DEF Starves
          <5> QED
            BY <5>1, <5>2
        <4>3. \/ Keeps(n, IF k = 0 THEN 1 ELSE k) /\ UNCHANGED starved
              \/ k > 0 /\ Keeps(n, k + 1) /\ Starves(n)
          <5>1. got'[partner] = <<"ok">> /\ <<"ok">> # <<"fail">> /\ <<"ok">> # <<"input_error">>
            BY <2>2, <2>4 DEF Sends, IInv, ClientTypes
          <5>2. ~Sends(<<"fail">>) /\ ~Sends(<<"input_error">>)
            BY <2>2, <5>1 DEF Sends, IInv, ClientTypes
          <5> QED
            BY <1>7, <5>2 DEF Register
        <4> QED
          BY <4>1, <4>2, <4>3
      <3>2. promised \cup {n} \in SUBSET Stored /\ (promised \cup {n}) \ {n} = promised \ {n}
        BY <2>2
      <3> QED
        BY <2>1, <2>4, <3>1, <3>2, AnsweredStep
    <2>5. CASE n[Fqlu] = LuName[partner] /\ Sends(<<"fail">>) /\ Promises(promised \ {n})
      <3>1. PICK m \in Nat : /\ copies' = [copies EXCEPT ![n] = m] /\ starved \subseteq starved'
                             /\ (n \notin starved' => m = 0) /\ (~open => m = 0)
        <4>1. CASE UNCHANGED copies /\ open /\ Starves(n)
          <5>1. copies' = [copies EXCEPT ![n] = k]
            BY <2>2, <4>1
          <5> QED
            BY <2>2, <4>1, <5>1 DEF Starves
        <4>2. CASE UNCHANGED copies /\ ~open /\ UNCHANGED starved
          <5>1. copies' = [copies EXCEPT ![n] = 0] /\ 0 \in Nat
            BY <2>2, <4>2
          <5>2. starved \subseteq starved'
            BY <4>2
          <5> QED
            BY <5>1, <5>2
        <4>3. CASE k > 0 /\ Keeps(n, k - 1) /\ Starves(n)
          <5>1. copies' = [copies EXCEPT ![n] = k - 1] /\ k - 1 \in Nat /\ open
            BY <2>2, <4>3 DEF Keeps
          <5>2. n \in starved' /\ starved \subseteq starved'
            BY <4>3 DEF Starves
          <5> QED
            BY <5>1, <5>2
        <4>4. \/ UNCHANGED copies /\ (IF open THEN Starves(n) ELSE UNCHANGED starved)
              \/ k > 0 /\ Keeps(n, k - 1) /\ Starves(n)
          <5>1. got'[partner] = <<"fail">> /\ <<"fail">> # <<"ok">> /\ <<"fail">> # <<"input_error">>
            BY <2>2, <2>5 DEF Sends, IInv, ClientTypes
          <5>2. ~Sends(<<"ok">>) /\ ~Sends(<<"input_error">>)
            BY <2>2, <5>1 DEF Sends, IInv, ClientTypes
          <5> QED
            BY <1>7, <5>2 DEF Register
        <4> QED
          BY <4>1, <4>2, <4>3, <4>4
      <3>2. promised \ {n} \in SUBSET Stored /\ (promised \ {n}) \ {n} = promised \ {n}
        BY <2>2
      <3> QED
        BY <2>1, <2>5, <3>1, <3>2, AnsweredStep
    <2> QED
      BY <1>7, <2>3, <2>4, <2>5 DEF Register
  <1>8. CASE Delete
    <2>1. Handles("delete") /\ UNCHANGED HandlerLeaves
      BY <1>8 DEF Delete
    <2>2. /\ partner \in Client /\ n \in Stored /\ copies \in [Stored -> Nat] /\ k \in Nat /\ promised \subseteq Stored
          /\ (~open => k = 0) /\ (n \notin starved => k = IF n \in promised THEN 1 ELSE 0)
      BY <2>1, HandledTyped
    <2>3. CASE /\ Known(n) /\ Keeps(n, k - 1) /\ Promises(promised \ {n})
               /\ Sends(<<"ok">>) /\ UNCHANGED starved
      <3>1. copies' = [copies EXCEPT ![n] = k - 1] /\ k - 1 \in Nat /\ open /\ k > 0
        BY <2>2, <2>3 DEF Keeps, Known
      <3>2. n \notin starved => k - 1 = 0 /\ n \in promised
        BY <2>2, <3>1
      <3>3. promised \ {n} \in SUBSET Stored /\ (promised \ {n}) \ {n} = promised \ {n} /\ starved \subseteq starved'
        BY <2>2, <2>3
      <3> HIDE DEF k
      <3> QED
        BY <2>1, <2>3, <3>1, <3>2, <3>3, AnsweredStep
    <2>4. CASE NotFound(n)
      BY <2>1, <2>4, NotFoundStep
    <2> QED
      BY <1>8, <2>3, <2>4 DEF Delete
  <1>9. CASE Query
    <2>1. Handles("query") /\ UNCHANGED HandlerLeaves
      BY <1>9 DEF Query
    <2>2. /\ partner \in Client /\ n \in Stored /\ n \in NameRec
          /\ (n \notin starved => k = IF n \in promised THEN 1 ELSE 0)
      BY <2>1, HandledTyped
    <2> DEFINE r == [f \in Field |-> Reported(n, f)]
    <2>3. CASE Known(n) /\ Sends(<<"ok", r, "ok">>) /\ UNCHANGED <<copies, historyVars>>
      <3>1. r \in NameRec /\ \A f \in Field : n[f] # Unset => r[f] = n[f]
        BY <2>2, ReportedSet, ReportedType
      <3> HIDE DEF r
      <3>2. <<"ok", r, "ok">> \in Answers /\ <<"ok", r, "ok">> # <<>> /\ <<"ok", r, "ok">>[1] = "ok"
            /\ <<"ok", r, "ok">>[2] = r
        BY <3>1 DEF Answers
      <3>3. got'[partner] = <<"ok", r, "ok">>
        BY <2>2, <2>3 DEF Sends, IInv, ClientTypes
      <3>4. UNCHANGED <<open, partner, request, copies, promised, seen, kept, starved>> /\ spc = "receive"
            /\ spc' = "deallocate" /\ request[partner].type = "query"
        BY <2>1, <2>3 DEF HandlerLeaves, historyVars, Handles
      <3>5. n \notin starved => n \in seen[partner]
        BY <2>2, <2>3 DEF Known, IInv, Lasting, Since
      <3>6. StatusFits(partner)'
        <4>1. Status(partner)' = "ok"
          BY <3>2, <3>3, <3>4 DEF Status
        <4> QED
          BY <3>4, <3>5, <4>1 DEF StatusFits
      <3>7. FieldsFit(partner)'
        BY <3>1, <3>2, <3>3, <3>4 DEF FieldsFit
      <3>8. Lasting'
        BY <3>4 DEF IInv, Lasting, PromisesKept, Exact, Since
      <3>9. /\ promised' \subseteq Stored /\ copies' \in [Stored -> Nat] /\ starved \subseteq starved'
            /\ seen' \in [Client -> SUBSET Stored] /\ kept' \in [Client -> SUBSET Stored]
            /\ \A c \in Client : seen[c] \subseteq seen'[c] /\ kept'[c] \subseteq kept[c]
        BY <3>4 DEF IInv, TypeOK, ClientTypes
      <3> QED
        BY <2>1, <2>3, <3>2, <3>6, <3>7, <3>8, <3>9, HandlerStep
    <2>4. CASE NotFound(n)
      BY <2>1, <2>4, NotFoundStep
    <2> QED
      BY <1>9, <2>3, <2>4 DEF Query
  <1>10. CASE Deallocates
    <2>0. partner \in Client /\ partner # NoOne /\ spc = "deallocate"
      BY <1>10 DEF Deallocates, IInv, TypeOK
    <2>1. CASE Exits /\ UNCHANGED cpc
      BY <1>10, <2>1, ExitsStep DEF Deallocates
    <2>2. CASE /\ ~noticed /\ spc' = "accept" /\ partner' = NoOne
               /\ cpc' = [cpc EXCEPT ![partner] = IF @ = "waiting" THEN "done" ELSE @]
               /\ UNCHANGED <<copies, promised, seen, kept>>
      <3>1. UNCHANGED <<open, request, got, starved>>
        BY <1>10 DEF Deallocates
      <3>2. TypeOK' /\ ClientTypes'
        BY <2>0, <2>2, <3>1, AnamedAssumption DEF IInv, TypeOK, ClientTypes, Serving
      <3>3. Serving' /\ Lasting'
        BY <2>0, <2>2, <3>1 DEF IInv, Serving, Lasting, PromisesKept, Exact, Since
      <3>4. Ended'
        <4> SUFFICES ASSUME NEW c \in Client, cpc'[c] = "done" PROVE StatusFits(c)' /\ FieldsFit(c)'
          BY DEF Ended
        <4>1. StatusFits(c) /\ FieldsFit(c)
          BY <2>0, <2>2 DEF IInv, Ended, Serving, ClientTypes
        <4> QED
          BY <2>2, <3>1, <4>1, StillFits
      <3> QED
        BY <3>2, <3>3, <3>4 DEF IInv
    <2> QED
      BY <1>10, <2>1, <2>2 DEF Deallocates
  <1>11. CASE UNCHANGED vars
    BY <1>11 DEF vars, serverVars, clientVars, historyVars, IInv, TypeOK, ClientTypes, Serving, Ended, StatusFits,
                FieldsFit, Status, Lasting, PromisesKept, Exact, Since
  <1> QED
    BY <1>1, <1>2, <1>3, <1>4, <1>5, <1>6, <1>7, <1>8, <1>9, <1>10, <1>11 DEF Next, Server

-----------------------------------------------------------------------------
\* The invariant holds throughout every run of anamed.
LEMMA IInvAlways == Spec => []IInv
  BY IInvInit, IInvStep, PTL DEF Spec

\* What a client was told is true and goes together with what the others were
\* told: of a name that has not met a lack of memory an "ok" says that its
\* registration was acknowledged since the request, and no record that it was
\* not acknowledged all that time; and the answer to a query has every field
\* that was registered as it was.
THEOREM AnswersAreTrue == Spec => []AnswersTrue
  <1>1. IInv => AnswersTrue
    BY DEF IInv, AnswersTrue, Ended, StatusFits, FieldsFit, Status, AnswerTrue, FieldsReported
  <1> QED
    BY <1>1, IInvAlways, PTL

\* An acknowledged name lasts: it is in the database until a client deletes
\* it, a second registration of it is told to have failed or the server ends,
\* whatever memory tdb lacks, and no request ends the server, whatever its
\* outcome; only a broken conversation or a failed accept does.
THEOREM AcknowledgedNamesLast == Spec => NamesLast
  <1>1. IInv => PromisesKept
    BY DEF IInv, Lasting
  <1>2. IInv /\ [Next]_vars =>
            [spc' = "exited" => spc \in {"accept", "exited"} \/ cpc[partner] = "lost"]_vars
    <2> SUFFICES ASSUME IInv, [Next]_vars, spc' = "exited", spc \notin {"accept", "exited"}
                 PROVE  cpc[partner] = "lost"
      OBVIOUS
    <2> QED
      BY DEF Next, Server, Asks, Breaks, Restarts, AcceptFails, Accepts, ReceiveFails, Handles, Register, Delete,
             Query, NotFound, Deallocates, Exits, vars, serverVars
  <1> QED
    BY <1>1, <1>2, IInvAlways, PTL DEF Spec, NamesLast, OutlivesRequests
=============================================================================
