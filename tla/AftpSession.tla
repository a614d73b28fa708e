---------------------------- MODULE AftpSession ----------------------------
(***************************************************************************)
(* The session of the AFTP library as the programs aftp and acopy use it:  *)
(* the settings (src/libasuite/libaftp.c, aftp_create, aftp_set_*,         *)
(* aftp_extract_*, aftp_get_*_string), the conversation they end up in,    *)
(* and the calls that go to the server.  What such a call exchanges with   *)
(* aftpd is in Aftp; here it succeeds, is answered with an error, or meets *)
(* an outage, after which every further call fails.                        *)
(*                                                                         *)
(* Settings and names are strings; Length gives the length of one as the   *)
(* caller passes it, NameLimit what libaftp.h and cmc.h reserve for it.    *)
(***************************************************************************)
EXTENDS Integers, Sequences, SequencesExt, FiniteSets

CONSTANTS
    Length(_),     \* length of a setting as a string
    NameLimit,     \* "mode_name", "tp_name", "lu_name", "symbolic" -> limit
    LuNames,       \* the destinations with a period in them
    RemoteDir, LocalDir, Home,   \* directories; Home is among both
    Name,          \* sequence of file names, in strcmp order
    InitRemote, InitLocal,       \* directory -> files in it
    MaxOutages

Names == Range(Name)
Formats == <<"0", "F", "FA", "FB", "FBA", "FBM", "FBS", "FBSA", "FBSM", "FM", "U", "UA", "UM",
             "V", "VA", "VB", "VBA", "VBM", "VBS", "VBSA", "VBSM", "VM", "VS", "VSA", "VSM">>

ASSUME AftpSessionAssumption ==
    /\ \A f \in {"mode_name", "tp_name", "lu_name", "symbolic"} : NameLimit[f] \in Nat
    /\ Home \in RemoteDir \cap LocalDir /\ "" \notin RemoteDir
    /\ InitRemote \in [RemoteDir -> SUBSET Names] /\ InitLocal \in [LocalDir -> SUBSET Names]
    /\ MaxOutages \in Nat

\* The list of names is a sequence, and the names that aftp_create sets are
\* no longer than what is reserved for them.
ASSUME NamesAssumption ==
    /\ Name \in Seq(Names)
    /\ Length("#BATCH") \in 1 .. NameLimit["mode_name"] /\ Length("AFTPD") \in 1 .. NameLimit["tp_name"]

VARIABLES
    session,       \* the fields of ftpsession that have a setting
    conv,          \* [state, destination, mode_name, tp_name] of the conversation
    orphans,       \* conversations still open that the session has forgotten
    outages,
    server,        \* [dirs, cwd, files] of the server; cwd is "" once it is removed
    local,         \* local directory -> files in it
    cwd            \* working directory of the process

sessionVars == <<session, conv, orphans, outages, server, local, cwd>>

NoConv == [state |-> "none", destination |-> "", symbolic |-> TRUE, mode_name |-> "", tp_name |-> ""]

\* aftp_create, which both programs call first
Created ==
    [destination |-> "", symbolic |-> TRUE, mode_name |-> "#BATCH", tp_name |-> "AFTPD",
     alloc_size |-> "0", block_size |-> "0", record_length |-> "0", record_format |-> "0",
     data_type |-> "ascii", date_mode |-> "old", current_directory |-> Home]

SessionInit ==
    /\ session = Created /\ conv = NoConv /\ orphans = 0 /\ outages = 0
    /\ server = [dirs |-> {Home}, cwd |-> Home, files |-> InitRemote]
    /\ local = InitLocal /\ cwd = Home

-----------------------------------------------------------------------------
(***************************************************************************)
(* Settings.  Each returns the session after the call, the same one when   *)
(* the call refuses the value.                                             *)
(***************************************************************************)
aftp_set_allocation_size(v) == [session EXCEPT !.alloc_size = v]
aftp_set_block_size(v)      == [session EXCEPT !.block_size = v]
aftp_set_data_type(v)       == [session EXCEPT !.data_type = v]
aftp_set_date_mode(v)       == [session EXCEPT !.date_mode = v]
aftp_set_record_format(v)   == [session EXCEPT !.record_format = v]
aftp_set_record_length(v)   == [session EXCEPT !.record_length = v]

\* Fault: room for the terminator is not counted.
aftp_set_mode_nameLong(v) ==
    IF Length(v) <= NameLimit["mode_name"] + 1 THEN [session EXCEPT !.mode_name = v] ELSE session

aftp_set_mode_name(v) ==
    IF Length(v) <= NameLimit["mode_name"] THEN [session EXCEPT !.mode_name = v] ELSE session

aftp_set_tp_name(v) ==
    IF Length(v) <= NameLimit["tp_name"] THEN [session EXCEPT !.tp_name = v] ELSE session

DestinationFits(v) == Length(v) <= NameLimit[IF v \in LuNames THEN "lu_name" ELSE "symbolic"]

aftp_set_destination(v) ==
    IF DestinationFits(v) THEN [session EXCEPT !.destination = v, !.symbolic = v \notin LuNames]
    ELSE session

\* What the extract calls and get_code_string return: TRUE for AFTP_RC_OK.
aftp_extract_mode_name == 0 < Length(session.mode_name) /\ Length(session.mode_name) <= NameLimit["mode_name"]
aftp_extract_tp_name   == 0 < Length(session.tp_name) /\ Length(session.tp_name) <= NameLimit["tp_name"]
aftp_get_data_type_string     == session.data_type \in {"ascii", "binary"}
aftp_get_date_mode_string     == session.date_mode \in {"old", "new"}
aftp_get_record_format_string == session.record_format \in Range(Formats)

-----------------------------------------------------------------------------
(***************************************************************************)
(* Calls to the server.                                                    *)
(***************************************************************************)
\* The outcomes of a call whose answer the library reads: done and idle say what becomes of the server's
\* and the local files when the request was and was not carried out, ok and
\* failed what the caller does with the return code.
Call(done, idle, ok, failed) ==
    \/ conv.state = "open" /\ done /\ ok /\ UNCHANGED <<conv, outages>>
    \/ idle /\ failed /\ UNCHANGED <<conv, outages>>
    \/ /\ conv.state = "open" /\ outages < MaxOutages
       /\ done \/ idle
       /\ failed
       /\ conv' = [conv EXCEPT !.state = "broken"] /\ outages' = outages + 1

\* aftp_send_file and aftp_delete return AFTP_RC_OK for any answer, also for one
\* that says the request was not carried out.
Unnoticed(idle) == conv.state = "open" /\ idle /\ UNCHANGED <<conv, outages>>

\* aftp_connect with the given session: the mode and the program name count
\* only for a destination that is an LU name.
aftp_connect(s) ==
    /\ conv' = [state |-> "open", destination |-> s.destination, symbolic |-> s.symbolic,
                mode_name |-> IF s.symbolic THEN "" ELSE s.mode_name,
                tp_name |-> IF s.symbolic THEN "" ELSE s.tp_name]
    /\ orphans' = orphans + IF conv.state = "open" THEN 1 ELSE 0

\* aftp_close: the record or cmdeal fails on a conversation that broke.
aftp_close(ok, failed) ==
    \/ conv.state = "open" /\ conv' = NoConv /\ ok
    \/ conv.state # "open" /\ UNCHANGED conv /\ failed

FilesKept == UNCHANGED <<server, local>>

\* The files of the server's working directory, which may have been removed
Here == IF server.cwd = "" THEN {} ELSE server.files[server.cwd]

aftp_create_dir(d) ==
    /\ d \notin server.dirs
    /\ server' = [server EXCEPT !.dirs = @ \cup {d}, !.files[d] = {}] /\ UNCHANGED local

aftp_remove_dir(d) ==
    /\ d \in server.dirs /\ server.files[d] = {}
    /\ server' = [server EXCEPT !.dirs = @ \ {d}, !.cwd = IF @ = d THEN "" ELSE @] /\ UNCHANGED local

aftp_change_dir(d) ==
    /\ d \in server.dirs
    /\ server' = [server EXCEPT !.cwd = d] /\ UNCHANGED local

aftp_rename(from, to) ==
    /\ from \in Here
    /\ server' = [server EXCEPT !.files[server.cwd] = (@ \ {from}) \cup {to}] /\ UNCHANGED local

aftp_delete(n) ==
    /\ n \in Here
    /\ server' = [server EXCEPT !.files[server.cwd] = @ \ {n}] /\ UNCHANGED local

\* aftp_send_file and aftp_receive_file, in the two working directories.  The
\* record names both files; of a file that is sent aftpd takes the name `from'.
aftp_send_file(from, to) ==
    /\ from \in local[cwd] /\ server.cwd # ""
    /\ server' = [server EXCEPT !.files[server.cwd] = @ \cup {from}] /\ UNCHANGED local

aftp_receive_file(from, to) ==
    /\ from \in Here
    /\ local' = [local EXCEPT ![cwd] = @ \cup {to}] /\ UNCHANGED server

\* A reception that fails has created the local file, unless open() failed.
ReceivesNothing(to) ==
    /\ local' \in {local, [local EXCEPT ![cwd] = @ \cup {to}]} /\ UNCHANGED server

\* The names of a set, in their order
InOrder(S) ==
    LET read[i \in 0 .. Len(Name)] ==
          IF i = 0 THEN <<>> ELSE IF Name[i] \in S THEN Append(read[i - 1], Name[i]) ELSE read[i - 1]
    IN  read[Len(Name)]

\* aftp_dir_open and the aftp_dir_read calls up to the last entry
Listing(spec) == InOrder(spec \cap Here)

\* Another user of the server
OthersChange(n) ==
    /\ server' = [server EXCEPT !.files[Home] = IF n \in @ THEN @ \ {n} ELSE @ \cup {n}]
    /\ UNCHANGED <<session, conv, orphans, outages, local, cwd>>

-----------------------------------------------------------------------------
\* The mode and the program name that status shows are those of the
\* conversation, unless a symbolic destination named them: they can only be
\* set while there is none.
SettingsInUse ==
    conv.state = "open" /\ ~conv.symbolic =>
        /\ conv.destination = session.destination
        /\ conv.mode_name = session.mode_name /\ conv.tp_name = session.tp_name

\* No conversation stays open that the session does not know any more.
NoOrphans == orphans = 0
=============================================================================
