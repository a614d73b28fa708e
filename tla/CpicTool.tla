------------------------------ MODULE CpicTool ------------------------------
(***************************************************************************)
(* What atell and arexec have in common: the session helpers they keep     *)
(* their options in (src/libasuite/cpicsession.c), and one conversation    *)
(* with the server at the other end.                                       *)
(*                                                                         *)
(* CPI-C and the LUs are external.  A direction of the conversation is a   *)
(* queue of records (sequences of units) and statuses; cmrcv returns at    *)
(* most so many units of one record, and the status behind it with its     *)
(* last unit or on a call of its own.  On a broken conversation a call     *)
(* fails, or still works on what had got through; once it has failed,      *)
(* nothing more is received.                                               *)
(***************************************************************************)
EXTENDS Integers, Sequences, SequencesExt

CONSTANTS
    Fits(_, _),      \* Fits(field, name): strlen is below the field's size
    Qualified(_),    \* the name has a dot
    Unset,           \* memory nobody has written
    TpVersions       \* <<major, minor>> of the servers that may answer

Nul == "\\0"
Status == {"send", "confirm_dealloc", "confirmed", "dealloc"}

VARIABLES
    session,         \* cpic_session
    target,          \* what cmallc allocated a conversation to
    tp_version,      \* <<tp_major, tp_minor>>
    cpc, cexit,      \* the client: where it is, how it ended
    spc, sexit,      \* the server
    toS, toC,        \* the two directions
    outage

convVars == <<toS, toC, outage>>

SessionInit ==
    /\ session = [symbolic |-> Unset, sym_dest_name |-> Unset, destination |-> Unset,
                  tp_name |-> Unset, mode_name |-> Unset, userid |-> Unset, security_type |-> Unset]
    /\ target = [partner |-> Unset, tp_name |-> Unset, mode_name |-> Unset]
    /\ tp_version = <<0, 0>>
    /\ cexit = "running" /\ spc = "accept" /\ sexit = "running"
    /\ toS = <<>> /\ toC = <<>> /\ outage = FALSE

-----------------------------------------------------------------------------
(***************************************************************************)
(* cpic_session.  A name that is too long leaves the field as it was.      *)
(***************************************************************************)
cpic_session_set_tp_name(This, s) == IF Fits("tp_name", s) THEN [This EXCEPT !.tp_name = s] ELSE This

\* Fault: the mode is kept with the TP.
cpic_session_set_mode_nameSwapped(This, s) == cpic_session_set_tp_name(This, s)

cpic_session_set_mode_name(This, s) == IF Fits("mode_name", s) THEN [This EXCEPT !.mode_name = s] ELSE This

cpic_session_set_symbolic_name(This, s) ==
    [This EXCEPT !.symbolic = TRUE, !.sym_dest_name = IF Fits("sym_dest_name", s) THEN s ELSE @]

cpic_session_set_destination(This, s) ==
    [This EXCEPT !.symbolic = FALSE, !.destination = IF Fits("destination", s) THEN s ELSE @]

cpic_session_set_userid(This, s) ==
    IF Fits("userid", s) THEN [This EXCEPT !.userid = s, !.security_type = "program"] ELSE This

cpic_session_set_password(This, s) ==
    IF Fits("password", s) THEN [This EXCEPT !.security_type = "program"] ELSE This

cpic_session_set_security_type(This, t) == [This EXCEPT !.security_type = t]

\* The options both programs take
SetOption(This, opt) ==
    CASE opt[1] = "m" -> cpic_session_set_mode_name(This, opt[2])
      [] opt[1] = "t" -> cpic_session_set_tp_name(This, opt[2])
      [] opt[1] = "u" -> cpic_session_set_userid(This, opt[2])
      [] opt[1] = "p" -> cpic_session_set_password(This, opt[2])
      [] opt[1] = "n" -> cpic_session_set_security_type(This, "none")

\* The loop over getopt
SetOptions(This, opts) ==
    LET after[n \in 0 .. Len(opts)] == IF n = 0 THEN This ELSE SetOption(after[n - 1], opts[n])
    IN  after[Len(opts)]

\* cpic_session_init: a symbolic name brings partner, TP and mode with it.
cpic_session_init(This) ==
    IF This.symbolic
      THEN [partner |-> This.sym_dest_name, tp_name |-> "side", mode_name |-> "side"]
      ELSE [partner |-> This.destination, tp_name |-> This.tp_name, mode_name |-> This.mode_name]

-----------------------------------------------------------------------------
(***************************************************************************)
(* The conversation.                                                       *)
(***************************************************************************)
Data(r) == <<[d |-> r, s |-> "none"]>>
Stat(x) == <<[d |-> <<>>, s |-> x]>>

\* A program that ends without cmdeal breaks it, too.
Broken == outage \/ cexit \in {"failure", "crashed"} \/ sexit \in {"failure", "crashed"}

Outage ==
    /\ ~outage /\ outage' = TRUE
    /\ UNCHANGED <<session, target, tp_version, cpc, cexit, spc, sexit, toS, toC>>

\* What is sent on a broken conversation is lost.
Sent(q, items) == IF Broken THEN q ELSE q \o items

\* What cmrcv with room for max units can return, and what it leaves.
cmrcv(q, max) ==
    IF q = <<>> THEN {} ELSE
    LET r == Head(q).d IN
    IF Len(r) > max
      THEN {[d |-> SubSeq(r, 1, max), s |-> "none", rest |-> Data(SubSeq(r, max + 1, Len(r))) \o Tail(q)]}
      ELSE {[d |-> r, s |-> Head(q).s, rest |-> Tail(q)]}
             \cup {[d |-> r, s |-> q[i].s, rest |-> Tail(Tail(q))] :
                      i \in {j \in DOMAIN q : j = 2 /\ r # <<>> /\ q[j].d = <<>>}}

ClientAt(l) == cexit = "running" /\ cpc = l
ServerAt(l) == sexit = "running" /\ spc = l

ClientLeaves == <<session, target, tp_version, spc, sexit, outage>>
ServerLeaves == <<session, target, tp_version, cpc, cexit, outage>>

ClientExits(x) == cexit' = x /\ UNCHANGED cpc
ServerExits(x) == sexit' = x /\ UNCHANGED spc

\* cpic_session_init, whose return code nobody looks at, cmssl, cmallc
Allocates ==
    /\ ClientAt("allocate")
    /\ target' = cpic_session_init(session)
    /\ \/ ~outage /\ target'.partner # Unset /\ cpc' = "version" /\ UNCHANGED cexit
       \/ (outage \/ target'.partner = Unset) /\ ClientExits("failure")
    /\ UNCHANGED <<session, tp_version, spc, sexit, convVars>>

\* get_server_version: the client's version, and with cmrcv the turn.
SendsVersion ==
    /\ ClientAt("version")
    /\ toS' = Sent(toS, Data(<<"version">>) \o Stat("send")) /\ cpc' = "version_wait"
    /\ UNCHANGED <<ClientLeaves, cexit, toC>>

\* A version nobody answered is 0.0.
ReceivesVersion(next) ==
    /\ ClientAt("version_wait") /\ cpc' = next
    /\ \/ \E m \in cmrcv(toC, 1) :
            m.s = "send" /\ toC' = m.rest /\ tp_version' \in TpVersions
       \/ Broken /\ toC' = <<>> /\ UNCHANGED tp_version
    /\ UNCHANGED <<session, target, cexit, spc, sexit, toS, outage>>

\* cmaccp: the attach manager starts the server for the conversation.
Accepts ==
    /\ ServerAt("accept") /\ toS # <<>>
    /\ \/ spc' = "version" /\ UNCHANGED sexit
       \/ Broken /\ ServerExits("failure")
    /\ UNCHANGED <<ServerLeaves, toS, toC>>

\* get_client_version; its result is not looked at.
ExchangesVersion ==
    /\ ServerAt("version") /\ spc' = "receive"
    /\ \/ \E m \in cmrcv(toS, 1) :
            m.s = "send" /\ toS' = m.rest /\ toC' = Sent(toC, Data(<<"version">>) \o Stat("send"))
       \/ Broken /\ toS' = <<>> /\ UNCHANGED toC
    /\ UNCHANGED <<ServerLeaves, sexit>>
=============================================================================
