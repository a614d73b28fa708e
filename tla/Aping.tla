------------------------------- MODULE Aping -------------------------------
(***************************************************************************)
(* aping and apingd (src/asuite/aping.c, src/asuite/apingd.c) with the     *)
(* version exchange of src/libasuite/cpicsession.c: two programs on one    *)
(* half-duplex CPI-C conversation.                                         *)
(*                                                                         *)
(* The CPI-C library and the two LUs below it are external.  What they do  *)
(* is taken from how the two programs use the calls: CM_BUFFER_DATA leaves *)
(* a block in the sender's LU, which transmits it when it likes;           *)
(* CM_SEND_AND_PREP_TO_RECEIVE, CM_SEND_AND_CONFIRM, cmptr, cmdeal, and a  *)
(* cmrcv issued in Send state flush it with a status behind it; cmrcv      *)
(* returns one block, and the status either with the last block or on a    *)
(* call of its own.  The version block is three bytes long and the status  *)
(* comes with it: both programs read it with a single cmrcv.               *)
(*                                                                         *)
(* Blocks are counted, their contents left out.                            *)
(***************************************************************************)
EXTENDS Integers

CONSTANTS Concurrent,   \* -c count
          Iterations,   \* -i iterations
          TpVersions,   \* <<major, minor>> of the partners that may answer
          UlongMax      \* largest value of apingd's count

ASSUME ApingAssumption ==
    /\ Concurrent \in Int
    /\ Iterations \in Int
    /\ TpVersions \subseteq Nat \X Nat
    /\ UlongMax \in Nat /\ UlongMax > 0 /\ Concurrent <= UlongMax

\* ONEWAY_MAJOR, ONEWAY_MINOR
OneWayVersion == <<2, 2>>

\* What the two loops of the client amount to.
Blocks == IF Concurrent > 1 THEN Concurrent ELSE 1
Rounds == IF Iterations > 0 THEN Iterations ELSE 0

VARIABLES
    cpc,              \* where do_aping is
    cexit,            \* "running", "success" or "failure"
    cstate,           \* CPI-C state of the client's end
    one_way,          \* 1 or 2
    tp_version,       \* <<tp_major, tp_minor>>
    curr_iteration,
    curr_concurrent,
    spc,              \* where apingd is
    sexit,
    sstate,           \* CPI-C state of the server's end
    count,            \* apingd's count
    cbuf, sbuf,       \* blocks held by the sender's LU
    s_data, s_stat,   \* what the LU has for apingd: blocks, then a status
    c_data, c_stat,   \* what the LU has for aping
    outage            \* the session was lost

clientVars == <<cpc, cexit, cstate, one_way, tp_version, curr_iteration, curr_concurrent>>
serverVars == <<spc, sexit, sstate, count>>
toServer   == <<cbuf, s_data, s_stat>>
toClient   == <<sbuf, c_data, c_stat>>
vars == <<clientVars, serverVars, toServer, toClient, outage>>

Init ==
    /\ cpc = "allocate" /\ cexit = "running" /\ cstate = "initialize"
    /\ one_way \in {1, 2}
    /\ tp_version = <<0, 0>>
    /\ curr_iteration = 0 /\ curr_concurrent = 0
    /\ spc = "accept" /\ sexit = "running" /\ sstate = "reset" /\ count = 0
    /\ cbuf = 0 /\ s_data = 0 /\ s_stat = "none"
    /\ sbuf = 0 /\ c_data = 0 /\ c_stat = "none"
    /\ outage = FALSE

-----------------------------------------------------------------------------
(***************************************************************************)
(* CPI-C (external).                                                       *)
(***************************************************************************)
Bit == {0, 1}

\* cmrcv on a side for which `data' blocks and then `stat' wait returns d
\* blocks and the status s.
Receives(data, stat, d, s) ==
    /\ data > 0 \/ stat # "none"
    /\ d = IF data > 0 THEN 1 ELSE 0
    /\ \/ s = stat /\ data <= 1
       \/ s = "none" /\ data > 0

StatusLeft(stat, s) == IF s = "none" THEN stat ELSE "none"

\* A program that exits without cmdeal breaks the conversation, too.
Broken == outage \/ cexit = "failure" \/ sexit = "failure"

ClientLuTransmits ==
    /\ cbuf > 0
    /\ s_data' = s_data + cbuf /\ cbuf' = 0
    /\ UNCHANGED <<clientVars, serverVars, s_stat, toClient, outage>>

ServerLuTransmits ==
    /\ sbuf > 0
    /\ c_data' = c_data + sbuf /\ sbuf' = 0
    /\ UNCHANGED <<clientVars, serverVars, toServer, c_stat, outage>>

Outage ==
    /\ ~outage
    /\ outage' = TRUE
    /\ UNCHANGED <<clientVars, serverVars, toServer, toClient>>

-----------------------------------------------------------------------------
(***************************************************************************)
(* aping: do_aping.                                                        *)
(***************************************************************************)
ClientAt(pc) == cexit = "running" /\ cpc = pc

ClientAllocates ==
    /\ ClientAt("allocate")
    /\ cpc' = "version" /\ cstate' = "send"
    /\ UNCHANGED <<cexit, one_way, tp_version, curr_iteration, curr_concurrent,
                   serverVars, toServer, toClient, outage>>

\* get_server_version: the version block is buffered, cmrcv gives the turn.
ClientSendsVersion ==
    /\ ClientAt("version") /\ cstate = "send"
    /\ s_data' = s_data + cbuf + 1 /\ s_stat' = "send" /\ cbuf' = 0
    /\ cstate' = "receive"
    /\ cpc' = "version_wait"
    /\ UNCHANGED <<cexit, one_way, tp_version, curr_iteration, curr_concurrent,
                   serverVars, toClient, outage>>

\* Fault: a newer minor version is enough whatever the major one.
SupportsOneWayMinor(v) == v[1] >= OneWayVersion[1] \/ v[2] >= OneWayVersion[2]

SupportsOneWay(v) ==
    \/ v[1] > OneWayVersion[1]
    \/ v[1] = OneWayVersion[1] /\ v[2] >= OneWayVersion[2]

ClientReceivesVersion ==
    /\ ClientAt("version_wait")
    /\ Receives(c_data, c_stat, 1, "send")
    /\ c_data' = c_data - 1 /\ c_stat' = "none"
    /\ cstate' = "send"
    /\ tp_version' \in TpVersions
    /\ one_way' = IF one_way = 1 /\ ~SupportsOneWay(tp_version') THEN 2 ELSE one_way
    /\ cpc' = "round"
    /\ UNCHANGED <<cexit, curr_iteration, curr_concurrent, serverVars, toServer, sbuf, outage>>

ClientStartsRound ==
    /\ ClientAt("round")
    /\ curr_iteration < Iterations
    /\ curr_concurrent' = 1
    /\ cpc' = "send"
    /\ UNCHANGED <<cexit, cstate, one_way, tp_version, curr_iteration,
                   serverVars, toServer, toClient, outage>>

\* cmsend with CM_BUFFER_DATA
ClientSends ==
    /\ ClientAt("send") /\ cstate = "send"
    /\ curr_concurrent < Concurrent
    /\ cbuf' = cbuf + 1
    /\ curr_concurrent' = curr_concurrent + 1
    /\ UNCHANGED <<cpc, cexit, cstate, one_way, tp_version, curr_iteration,
                   serverVars, s_data, s_stat, toClient, outage>>

\* cmsend with CM_SEND_AND_PREP_TO_RECEIVE or CM_SEND_AND_CONFIRM
ClientSendsLast ==
    /\ ClientAt("send") /\ cstate = "send"
    /\ curr_concurrent >= Concurrent
    /\ s_data' = s_data + cbuf + 1 /\ cbuf' = 0
    /\ IF one_way # 1
         THEN s_stat' = "send" /\ cstate' = "receive" /\ cpc' = "echo"
         ELSE s_stat' = "confirm" /\ cstate' = "send" /\ cpc' = "confirm"
    /\ UNCHANGED <<cexit, one_way, tp_version, curr_iteration, curr_concurrent,
                   serverVars, toClient, outage>>

\* Fault: the loop ends with the last block, not with the permission to send.
ClientReceivesByCount(d, s) ==
    /\ ClientAt("echo")
    /\ Receives(c_data, c_stat, d, s)
    /\ c_data' = c_data - d /\ c_stat' = StatusLeft(c_stat, s)
    /\ curr_concurrent' = curr_concurrent - d
    /\ cstate' = IF s = "send" THEN "send" ELSE cstate
    /\ cpc' = IF curr_concurrent' = 0 THEN "check" ELSE cpc
    /\ UNCHANGED <<cexit, one_way, tp_version, curr_iteration,
                   serverVars, toServer, sbuf, outage>>

ClientReceives(d, s) ==
    /\ ClientAt("echo")
    /\ Receives(c_data, c_stat, d, s)
    /\ c_data' = c_data - d /\ c_stat' = StatusLeft(c_stat, s)
    /\ curr_concurrent' = curr_concurrent - d
    /\ IF s = "send"
         THEN cstate' = "send" /\ cpc' = "check"
         ELSE UNCHANGED <<cstate, cpc>>
    /\ UNCHANGED <<cexit, one_way, tp_version, curr_iteration,
                   serverVars, toServer, sbuf, outage>>

\* The cmsend with CM_SEND_AND_CONFIRM returns.
ClientConfirmed ==
    /\ ClientAt("confirm")
    /\ c_stat = "confirmed"
    /\ c_stat' = "none"
    /\ cpc' = "check"
    /\ UNCHANGED <<cexit, cstate, one_way, tp_version, curr_iteration, curr_concurrent,
                   serverVars, toServer, sbuf, c_data, outage>>

\* The statistics of the round are printed, and the outer loop goes on.
ClientEndsRound ==
    /\ ClientAt("check")
    /\ curr_iteration' = curr_iteration + 1
    /\ cpc' = "round"
    /\ UNCHANGED <<cexit, cstate, one_way, tp_version, curr_concurrent,
                   serverVars, toServer, toClient, outage>>

\* cmdeal with CM_DEALLOCATE_FLUSH
ClientDeallocates ==
    /\ ClientAt("round") /\ cstate = "send"
    /\ curr_iteration >= Iterations
    /\ s_data' = s_data + cbuf /\ cbuf' = 0 /\ s_stat' = "deallocated"
    /\ cstate' = "reset"
    /\ cpc' = "done" /\ cexit' = "success"
    /\ UNCHANGED <<one_way, tp_version, curr_iteration, curr_concurrent,
                   serverVars, toClient, outage>>

\* The next verb is one the client's CPI-C state does not allow.
ClientRejected ==
    /\ \/ cpc \in {"version", "send"}
       \/ cpc = "round" /\ curr_iteration >= Iterations
    /\ cstate # "send"

ClientFails ==
    /\ cexit = "running"
    /\ Broken \/ ClientRejected
    /\ cexit' = "failure"
    /\ UNCHANGED <<cpc, cstate, one_way, tp_version, curr_iteration, curr_concurrent,
                   serverVars, toServer, toClient, outage>>

-----------------------------------------------------------------------------
(***************************************************************************)
(* apingd: main.                                                           *)
(***************************************************************************)
ServerAt(pc) == sexit = "running" /\ spc = pc

\* unsigned long arithmetic
Increment(n, d) == (n + d) % (UlongMax + 1)
Decrement(n)    == IF n = 0 THEN UlongMax ELSE n - 1

ServerAccepts ==
    /\ ServerAt("accept")
    /\ s_data > 0 \/ s_stat # "none"
    /\ spc' = "version" /\ sstate' = "receive"
    /\ UNCHANGED <<clientVars, sexit, count, toServer, toClient, outage>>

\* get_client_version: one cmrcv, and the answer with cmptr if the client gave
\* the turn; then count = 0.
ServerExchangesVersion ==
    /\ ServerAt("version")
    /\ Receives(s_data, s_stat, 1, "send")
    /\ s_data' = s_data - 1 /\ s_stat' = "none"
    /\ c_data' = c_data + sbuf + 1 /\ c_stat' = "send" /\ sbuf' = 0
    /\ count' = 0
    /\ spc' = "receive"
    /\ UNCHANGED <<clientVars, sexit, sstate, cbuf, outage>>

\* Fault: a block that comes with a status is not counted.
ServerReceivesStatusOnly(d, s) ==
    /\ ServerAt("receive")
    /\ s # "deallocated"
    /\ Receives(s_data, s_stat, d, s)
    /\ s_data' = s_data - d /\ s_stat' = StatusLeft(s_stat, s)
    /\ count' = IF s = "none" THEN Increment(count, d) ELSE count
    /\ CASE s = "send"    -> sstate' = "send" /\ spc' = "turn"
         [] s = "confirm" -> sstate' = "confirm" /\ spc' = "confirm"
         [] OTHER         -> UNCHANGED <<sstate, spc>>
    /\ UNCHANGED <<clientVars, sexit, cbuf, toClient, outage>>

\* Fault: the loop goes on after CM_CONFIRM_RECEIVED.
ServerReceivesUnconfirmed(d, s) ==
    /\ ServerAt("receive")
    /\ s # "deallocated"
    /\ Receives(s_data, s_stat, d, s)
    /\ s_data' = s_data - d /\ s_stat' = StatusLeft(s_stat, s)
    /\ count' = Increment(count, d)
    /\ IF s = "send" THEN sstate' = "send" /\ spc' = "turn"
                     ELSE UNCHANGED <<sstate, spc>>
    /\ UNCHANGED <<clientVars, sexit, cbuf, toClient, outage>>

ServerReceives(d, s) ==
    /\ ServerAt("receive")
    /\ s # "deallocated"
    /\ Receives(s_data, s_stat, d, s)
    /\ s_data' = s_data - d /\ s_stat' = StatusLeft(s_stat, s)
    /\ count' = Increment(count, d)
    /\ CASE s = "send"    -> sstate' = "send" /\ spc' = "turn"
         [] s = "confirm" -> sstate' = "confirm" /\ spc' = "confirm"
         [] OTHER         -> UNCHANGED <<sstate, spc>>
    /\ UNCHANGED <<clientVars, sexit, cbuf, toClient, outage>>

\* rc == CM_DEALLOCATED_NORMAL
ServerDeallocated ==
    /\ ServerAt("receive")
    /\ s_data = 0 /\ s_stat = "deallocated"
    /\ s_stat' = "none"
    /\ sstate' = "reset"
    /\ spc' = "done" /\ sexit' = "success"
    /\ UNCHANGED <<clientVars, count, cbuf, s_data, toClient, outage>>

\* Fault: the echo loop does not leave the last block out.
ServerTurnsAll ==
    /\ ServerAt("turn")
    /\ spc' = "echo"
    /\ UNCHANGED <<clientVars, sexit, sstate, count, toServer, toClient, outage>>

\* The initial count-- of the echo loop.
ServerTurns ==
    /\ ServerAt("turn")
    /\ count' = Decrement(count)
    /\ spc' = "echo"
    /\ UNCHANGED <<clientVars, sexit, sstate, toServer, toClient, outage>>

ServerEchoes ==
    /\ ServerAt("echo") /\ sstate = "send"
    /\ count # 0
    /\ sbuf' = sbuf + 1
    /\ count' = Decrement(count)
    /\ UNCHANGED <<clientVars, spc, sexit, sstate, toServer, c_data, c_stat, outage>>

\* CM_SEND_AND_PREP_TO_RECEIVE, and count = 0 at the head of the outer loop.
ServerEchoesLast ==
    /\ ServerAt("echo") /\ sstate = "send"
    /\ count = 0
    /\ c_data' = c_data + sbuf + 1 /\ c_stat' = "send" /\ sbuf' = 0
    /\ sstate' = "receive"
    /\ spc' = "receive"
    /\ UNCHANGED <<clientVars, sexit, count, toServer, outage>>

\* cmcfmd
ServerConfirms ==
    /\ ServerAt("confirm") /\ sstate = "confirm"
    /\ c_stat' = "confirmed"
    /\ sstate' = "receive"
    /\ count' = 0
    /\ spc' = "receive"
    /\ UNCHANGED <<clientVars, sexit, toServer, sbuf, c_data, outage>>

ServerRejected ==
    \/ spc = "echo" /\ sstate # "send"
    \/ spc = "confirm" /\ sstate # "confirm"

ServerFails ==
    /\ sexit = "running"
    /\ Broken \/ ServerRejected
    /\ sexit' = "failure"
    /\ UNCHANGED <<clientVars, spc, sstate, count, toServer, toClient, outage>>

-----------------------------------------------------------------------------
Statuses == {"none", "send", "confirm", "confirmed", "deallocated"}

Client ==
    \/ ClientAllocates \/ ClientSendsVersion \/ ClientReceivesVersion
    \/ ClientStartsRound \/ ClientSends \/ ClientSendsLast
    \/ \E d \in Bit, s \in Statuses : ClientReceives(d, s)
    \/ ClientConfirmed \/ ClientEndsRound \/ ClientDeallocates
    \/ ClientFails

Server ==
    \/ ServerAccepts \/ ServerExchangesVersion
    \/ \E d \in Bit, s \in Statuses : ServerReceives(d, s)
    \/ ServerDeallocated
    \/ ServerTurns \/ ServerEchoes \/ ServerEchoesLast
    \/ ServerConfirms
    \/ ServerFails

Next == Client \/ Server \/ ClientLuTransmits \/ ServerLuTransmits \/ Outage

\* Each program is a process the kernel keeps scheduling; the LUs need no
\* fairness of their own, because every wait follows a flush.
Spec == Init /\ [][Next]_vars /\ WF_vars(Client) /\ WF_vars(Server)

-----------------------------------------------------------------------------
TypeOK ==
    /\ cpc \in {"allocate", "version", "version_wait", "round", "send", "echo",
                "confirm", "check", "done"}
    /\ cexit \in {"running", "success", "failure"}
    /\ cstate \in {"initialize", "send", "receive", "reset"}
    /\ one_way \in {1, 2}
    /\ tp_version \in Nat \X Nat
    /\ curr_iteration \in 0..Rounds
    /\ curr_concurrent \in Int
    /\ spc \in {"accept", "version", "receive", "turn", "echo", "confirm", "done"}
    /\ sexit \in {"running", "success", "failure"}
    /\ sstate \in {"reset", "receive", "send", "confirm"}
    /\ count \in 0..UlongMax
    /\ cbuf \in Nat /\ sbuf \in Nat
    /\ s_data \in Nat /\ s_stat \in Statuses
    /\ c_data \in Nat /\ c_stat \in Statuses
    /\ outage \in BOOLEAN

(***************************************************************************)
(* When apingd is given the turn, or asked to confirm, it has counted      *)
(* every block of the round and none of another one, however the LUs cut   *)
(* the round into transmissions and wherever the status came.  So count--  *)
(* never wraps, and a confirmed round has arrived in full.                 *)
(***************************************************************************)
RoundReceived == spc \in {"turn", "confirm"} => count = Blocks

(***************************************************************************)
(* aping never prints "Partner did not send the expected number of         *)
(* records": at the end of a two-way round curr_concurrent is 0.           *)
(***************************************************************************)
EchoMatches == cpc = "check" /\ one_way = 2 => curr_concurrent = 0

(***************************************************************************)
(* The two programs never issue a verb that the state of their end of the  *)
(* half-duplex conversation rejects: each of them fails only if the        *)
(* session was lost.                                                       *)
(***************************************************************************)
NoVerbRejected == cexit = "failure" \/ sexit = "failure" => outage

(***************************************************************************)
(* A partner that does not know one-way data is never asked to confirm a   *)
(* round, even if -1 was given: the downgrade happens before the first.    *)
(***************************************************************************)
NoConfirmToOldPartner ==
    s_stat = "confirm" =>
        ~ \/ tp_version[1] < OneWayVersion[1]
          \/ tp_version[1] = OneWayVersion[1] /\ tp_version[2] < OneWayVersion[2]

(***************************************************************************)
(* Both programs end, neither waiting for the other, whatever is lost.     *)
(***************************************************************************)
BothEnd == <>(cexit # "running" /\ sexit # "running")
=============================================================================
