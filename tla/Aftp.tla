-------------------------------- MODULE Aftp --------------------------------
(***************************************************************************)
(* The APPC file transfer: one session of the client library               *)
(* (src/libasuite/libaftp.c), the server aftpd (src/asuite/aftpd.c) and    *)
(* the records of src/libasuite/asuitecommon.c on the half-duplex CPI-C    *)
(* conversation between them.                                              *)
(*                                                                         *)
(* CPI-C is external.  A cmrcv issued in Send state gives the partner the  *)
(* turn; the permission to send arrives with the last record that waits (no*)
(* caller looks at status_received); a cmsend in Receive state is refused  *)
(* with a state check, which aftpd ignores and the library returns.        *)
(*                                                                         *)
(* A file is the sequence of the blocks of its FILE_DATA records.  All     *)
(* names are entries of one directory, Home, given by absolute path; the   *)
(* directories among them hold nothing but "." and "..", for which Dot     *)
(* stands.  A filespec with wildcards is the set of names it matches.      *)
(***************************************************************************)
EXTENDS Integers, Sequences, SequencesExt

CONSTANTS
    Name,         \* sequence of the names, in strcmp order
    NameLength,   \* name -> length of the path the caller passes
    Home, Dot, NoName,
    Absent, Directory,       \* what an entry may be, besides a file
    Block,        \* file blocks
    InitLocal, InitRemote,   \* the two directories at the start
    Kinds,        \* file types of the listings: "all", "file", "dir"
    Wildcards,    \* sets of names that a filespec with wildcards matches
    AllocSizes,   \* whether an allocation size is set
    MaxCalls,     \* bound: library calls
    MaxOutages    \* bound: session outages

Names == Range(Name)
Contents == {Absent, Directory} \cup Seq(Block)
IsFile(f) == f \notin {Absent, Directory}

ASSUME AftpAssumption ==
    /\ Name \in Seq(Names)
    /\ NameLength \in [Names -> Nat]
    /\ Home \notin Names /\ Dot \notin Names /\ NoName \notin Names \cup {Home, Dot}
    /\ Names \cap {"other", "closed", "failed"} = {}
    /\ Absent # Directory /\ Absent \notin Seq(Block) /\ Directory \notin Seq(Block)
    /\ InitLocal \in [Names -> Contents] /\ InitRemote \in [Names -> Contents]
    /\ Kinds \subseteq {"all", "file", "dir"}
    /\ Wildcards \subseteq SUBSET Names
    /\ AllocSizes \subseteq BOOLEAN
    /\ MaxCalls \in Nat /\ MaxOutages \in Nat

VARIABLES
    conv,         \* "none", "open", "closed" or "broken"
    turn,         \* who was given the permission to send
    c2s, s2c,     \* records under way
    outages,
    cpc,          \* where the library is: "idle" between two calls
    call,         \* the request record of the last call
    rc,           \* its return code
    calls,
    alloc_size,   \* whether alloc_size > 0
    local,        \* the client's directory
    unsent,       \* blocks of source_file that aftp_send_file has still to read
    written,      \* blocks that aftp_receive_file wrote to dest_file
    first_param,  \* first parameter in the record buffer: "rc" or a file name
    dir_entry, no_more_entries,   \* output of aftp_dir_read
    spc,          \* where aftpd is
    remote,       \* the server's directory
    cwd,          \* its working directory, NoName once that is removed
    dest_file,    \* a name, "other" (open on no entry), "closed" or "failed" (-1)
    dest_pos,     \* its offset
    unread,       \* blocks of source_file that a_request_file has still to read
    outcome,      \* history: what the handler of the last request did
    io_error,     \* history: a read or a write of the last transfer failed
    listing,      \* history: names a listing not yet read to its end may report
    unopened,     \* history: a_send_file returned before open(), for the last put
    belief        \* history: the server's directory as the caller was told, NoName
                  \* while no answer that the library reads whole told it

convVars   == <<conv, turn, c2s, s2c, outages>>
clientVars == <<cpc, call, rc, calls, alloc_size, local, unsent, written,
                first_param, dir_entry, no_more_entries>>
serverVars == <<spc, remote, cwd, dest_file, dest_pos, unopened, unread>>
history    == <<outcome, io_error, listing, belief>>
vars == <<convVars, clientVars, serverVars, history>>

\* A record: a request of the client or an answer of the server.
Blank == [type |-> "close", name |-> NoName, to |-> NoName, spec |-> {}, kind |-> "all",
          alloc |-> FALSE, block |-> NoName, failed |-> FALSE]
Simple(failed) == [Blank EXCEPT !.type = "simple", !.failed = failed]

Init ==
    /\ conv = "none" /\ turn = "client" /\ c2s = <<>> /\ s2c = <<>> /\ outages = 0
    /\ cpc = "idle" /\ call = Blank /\ rc = "ok" /\ calls = 0 /\ alloc_size = FALSE
    /\ local = InitLocal /\ unsent = <<>> /\ written = 0
    /\ first_param = "rc" /\ dir_entry = NoName /\ no_more_entries = "unset"
    /\ spc = "accept" /\ remote = InitRemote /\ cwd = Home
    /\ dest_file = "other" /\ dest_pos = 0 /\ unopened = FALSE /\ unread = <<>>
    /\ outcome = "none" /\ io_error = FALSE /\ listing = {} /\ belief = NoName

-----------------------------------------------------------------------------
(***************************************************************************)
(* CPI-C (external).                                                       *)
(***************************************************************************)
ClientMaySend == conv = "open" /\ turn = "client" /\ s2c = <<>>

\* While aftpd handles the record at the head of c2s.
ServerMaySend == conv = "open" /\ turn = "server" /\ Len(c2s) = 1

Outage ==
    /\ conv = "open" /\ outages < MaxOutages
    /\ conv' = "broken" /\ outages' = outages + 1
    /\ UNCHANGED <<turn, c2s, s2c, clientVars, serverVars, history>>

-----------------------------------------------------------------------------
(***************************************************************************)
(* The library.  A call starts when no other one is under way.             *)
(***************************************************************************)
Starts(r) ==
    /\ cpc = "idle" /\ calls < MaxCalls
    /\ call' = r /\ calls' = calls + 1
    /\ outcome' = "none" /\ io_error' = FALSE

\* cmsend refuses the first record of the call, or fails.
Refused(r) ==
    /\ ~ClientMaySend
    /\ Starts(r)
    /\ rc' = IF conv = "open" THEN "state_check" ELSE "comm"
    /\ UNCHANGED <<convVars, cpc, alloc_size, local, unsent, written, first_param, dir_entry,
                   no_more_entries, serverVars, listing, belief>>

\* aftp_connect, which callers use while they have no conversation.  The
\* attach manager starts a server when none is waiting.
Connect ==
    /\ Starts([Blank EXCEPT !.type = "tower"])
    /\ conv # "open" /\ spc \in {"accept", "exited"}
    /\ conv' = "open" /\ turn' = "server" /\ c2s' = <<call'>> /\ s2c' = <<>>
    /\ cpc' = "answer"
    /\ spc' = "receive"
    /\ IF spc = "exited" THEN cwd' = Home /\ dest_file' = "other" /\ dest_pos' = 0
                         ELSE UNCHANGED <<cwd, dest_file, dest_pos>>
    /\ listing' = {} /\ belief' = NoName
    /\ UNCHANGED <<outages, rc, alloc_size, local, unsent, written, first_param, dir_entry,
                   no_more_entries, remote, unopened, unread>>

ConnectFails ==
    /\ Starts([Blank EXCEPT !.type = "tower"])
    /\ conv # "open"
    /\ rc' \in {"comm_config_local", "parameter_check", "comm"}
    /\ UNCHANGED <<convVars, cpc, alloc_size, local, unsent, written, first_param, dir_entry,
                   no_more_entries, serverVars, listing, belief>>

\* aftp_close: the CLOSE record, then cmdeal.
Close ==
    /\ Starts(Blank)
    /\ ClientMaySend
    /\ c2s' = Append(c2s, call') /\ conv' = "closed"
    /\ rc' = "ok"
    /\ UNCHANGED <<turn, s2c, outages, cpc, alloc_size, local, unsent, written, first_param,
                   dir_entry, no_more_entries, serverVars, listing, belief>>

\* The calls that send one record and read one.
Request(r) ==
    /\ Starts(r)
    /\ ClientMaySend
    /\ c2s' = Append(c2s, r) /\ turn' = "server"
    /\ cpc' = "answer"
    /\ UNCHANGED <<conv, s2c, outages, rc, alloc_size, local, unsent, written, first_param,
                   dir_entry, no_more_entries, serverVars, listing, belief>>

\* The calls that name one file or directory.
NamedCalls ==
    { [Blank EXCEPT !.type = t, !.name = n] :
        t \in {"change_dir", "create_dir", "remove_dir", "delete"}, n \in Names }
Queries == { [Blank EXCEPT !.type = t] : t \in {"query_dir", "query_system"} }
Renames == { [Blank EXCEPT !.type = "rename", !.name = n, !.to = m] : n, m \in Names }
\* A filespec without wildcards is its only match.
Listings ==
    { [Blank EXCEPT !.type = "list", !.name = n, !.spec = {n}, !.kind = k] :
        n \in Names, k \in Kinds }
    \cup { [Blank EXCEPT !.type = "list", !.spec = w, !.kind = k] : w \in Wildcards, k \in Kinds }
Gets == { [Blank EXCEPT !.type = "request_file", !.name = n, !.to = m] : n, m \in Names }
Puts == { [Blank EXCEPT !.type = "send_file", !.name = n, !.to = m, !.alloc = alloc_size] :
            n, m \in Names }

SetAllocationSize(a) ==
    /\ a # alloc_size
    /\ Starts([Blank EXCEPT !.type = "set"])
    /\ alloc_size' = a
    /\ rc' = "ok"
    /\ UNCHANGED <<convVars, cpc, local, unsent, written, first_param, dir_entry,
                   no_more_entries, serverVars, listing, belief>>

\* Fault: the parsers look at the return code parameter only.
ResultOfReturnCode(r) == "ok"

\* The loops of aftp_change_dir and aftp_create_dir end at the length of the
\* name they sent: they miss the category, at offset 6, of a short one.
SeesCategory == NameLength[call.name] > 6

\* What the parser of the response makes of it.
Result(r) ==
    CASE call.type \in {"remove_dir", "rename", "list"} -> IF r.failed THEN "fail" ELSE "ok"
      [] call.type \in {"change_dir", "create_dir"} ->
           IF r.failed /\ SeesCategory THEN "fail" ELSE "ok"
      [] OTHER -> "ok"

\* What the caller knows of the server's directory after the response r.
Told(r) ==
    CASE call.type = "change_dir" /\ ~SeesCategory -> NoName
      [] call.type = "change_dir" /\ SeesCategory /\ Result(r) = "ok" -> call.name
      [] call.type = "query_dir" -> r.name
      [] call.type \in {"rename", "remove_dir"} -> NoName
      [] OTHER -> belief

\* Fault: the new record's parameters go behind those of the last one.
GetsAnswerKeepsBuffer ==
    /\ cpc = "answer" /\ s2c # <<>>
    /\ LET r == Head(s2c) IN
         /\ rc' = Result(r)
         /\ belief' = Told(r)
    /\ s2c' = Tail(s2c)
    /\ listing' = IF call.type = "list" /\ rc' = "ok" THEN call.spec \cup {Dot} ELSE {}
    /\ cpc' = "idle"
    /\ UNCHANGED <<conv, turn, c2s, outages, call, calls, alloc_size, local, unsent, written,
                   first_param, dir_entry, no_more_entries, serverVars, outcome, io_error>>

GetsAnswer ==
    /\ cpc = "answer" /\ s2c # <<>>
    /\ LET r == Head(s2c) IN
         /\ rc' = Result(r)
         /\ belief' = Told(r)
    /\ s2c' = Tail(s2c)
    /\ first_param' = "rc"
    /\ listing' = IF call.type = "list" /\ rc' = "ok" THEN call.spec \cup {Dot} ELSE {}
    /\ cpc' = "idle"
    /\ UNCHANGED <<conv, turn, c2s, outages, call, calls, alloc_size, local, unsent, written,
                   dir_entry, no_more_entries, serverVars, outcome, io_error>>

\* get_asuiterecord or send_asuiterecord in the middle of a call fails.
CallFails ==
    /\ cpc # "idle" /\ conv = "broken"
    /\ cpc' = "idle" /\ rc' = "comm"
    /\ UNCHANGED <<convVars, call, calls, alloc_size, local, unsent, written, first_param,
                   dir_entry, no_more_entries, serverVars, history>>

\* aftp_dir_read, called until it reports the end.  A LIST_ENTRY without a
\* parameter leaves the previous record's first parameter in the buffer.
DirRead ==
    /\ cpc = "idle" /\ listing # {}
    /\ \/ /\ s2c # <<>>
          /\ s2c' = Tail(s2c) /\ rc' = "ok"
          /\ LET r == Head(s2c)
                 p == IF r.name # NoName THEN r.name ELSE first_param
             IN IF r.type = "list_entry"
                  THEN /\ first_param' = p
                       /\ IF p # "rc" THEN dir_entry' = p /\ no_more_entries' = "no"
                                      ELSE UNCHANGED <<dir_entry, no_more_entries>>
                       /\ UNCHANGED listing
                  ELSE /\ no_more_entries' = "yes" /\ listing' = {}
                       /\ UNCHANGED <<first_param, dir_entry>>
       \/ /\ conv = "broken"
          /\ rc' = "comm" /\ listing' = {}
          /\ UNCHANGED <<s2c, first_param, dir_entry, no_more_entries>>
    /\ call' = [Blank EXCEPT !.type = "dir_read"]
    /\ UNCHANGED <<conv, turn, c2s, outages, cpc, calls, alloc_size, local, unsent,
                   written, serverVars, outcome, io_error, belief>>

\* open(O_CREAT | O_WRONLY): the old blocks stay.
Created(f) == IF f = Absent THEN <<>> ELSE f

\* write() of one block at an offset
Overwritten(f, pos, b) == [i \in 1 .. IF pos < Len(f) THEN Len(f) ELSE pos + 1 |->
                             IF i = pos + 1 THEN b ELSE f[i]]

\* aftp_receive_file opens its dest_file first.
Get(r) ==
    /\ Starts(r)
    /\ local[r.to] # Directory
    /\ local' = [local EXCEPT ![r.to] = Created(@)]
    /\ IF ClientMaySend
         THEN /\ c2s' = Append(c2s, r) /\ turn' = "server"
              /\ cpc' = "file" /\ written' = 0
              /\ UNCHANGED rc
         ELSE /\ rc' = IF conv = "open" THEN "state_check" ELSE "comm"
              /\ UNCHANGED <<c2s, turn, cpc, written>>
    /\ UNCHANGED <<conv, s2c, outages, alloc_size, unsent, first_param, dir_entry,
                   no_more_entries, serverVars, listing, belief>>

\* open() of the local file fails: nothing was sent.
OpenFails(r) ==
    /\ Starts(r)
    /\ rc' = "fail"
    /\ UNCHANGED <<convVars, cpc, alloc_size, local, unsent, written, first_param, dir_entry,
                   no_more_entries, serverVars, listing, belief>>

\* Fault: the call returns with the first block.
GetsFileRecordOnce ==
    /\ cpc = "file" /\ s2c # <<>>
    /\ LET r == Head(s2c) IN
         /\ IF r.type = "file_data"
              THEN /\ local' = [local EXCEPT ![call.to] = Overwritten(@, written, r.block)]
                   /\ written' = written + 1
              ELSE UNCHANGED <<local, written>>
         /\ cpc' = IF r.type # "send_file" THEN "idle" ELSE cpc
         /\ rc' = IF r.type = "simple" THEN "input_error" ELSE "ok"
         /\ first_param' = IF r.type = "simple" THEN "rc" ELSE first_param
    /\ s2c' = Tail(s2c)
    /\ UNCHANGED <<conv, turn, c2s, outages, call, calls, alloc_size, unsent, dir_entry,
                   no_more_entries, serverVars, history>>

\* The loop of aftp_receive_file.  Nothing looks at bytes_written.
GetsFileRecord ==
    /\ cpc = "file" /\ s2c # <<>>
    /\ LET r == Head(s2c) IN
         /\ \/ /\ r.type = "file_data"
               /\ local' = [local EXCEPT ![call.to] = Overwritten(@, written, r.block)]
               /\ written' = written + 1
               /\ UNCHANGED io_error
            \/ /\ r.type = "file_data" /\ ~io_error
               /\ io_error' = TRUE
               /\ UNCHANGED <<local, written>>
            \/ r.type # "file_data" /\ UNCHANGED <<local, written, io_error>>
         /\ cpc' = IF r.type \in {"simple", "file_complete"} THEN "idle" ELSE cpc
         /\ rc' = IF r.type = "simple" THEN "input_error" ELSE "ok"
         /\ first_param' = IF r.type = "simple" THEN "rc" ELSE first_param
    /\ s2c' = Tail(s2c)
    /\ UNCHANGED <<conv, turn, c2s, outages, call, calls, alloc_size, unsent, dir_entry,
                   no_more_entries, serverVars, outcome, listing, belief>>

Put(r) ==
    /\ Starts(r)
    /\ IsFile(local[r.name])
    /\ ClientMaySend
    /\ c2s' = Append(c2s, r) /\ unsent' = local[r.name]
    /\ cpc' = "put"
    /\ UNCHANGED <<conv, turn, s2c, outages, rc, alloc_size, local, written, first_param,
                   dir_entry, no_more_entries, serverVars, listing, belief>>

\* One turn of the loop of aftp_send_file.
PutsBlock ==
    /\ cpc = "put" /\ unsent # <<>> /\ conv = "open"
    /\ \/ /\ c2s' = Append(c2s, [Blank EXCEPT !.type = "file_data", !.name = call.name,
                                              !.alloc = call.alloc, !.block = Head(unsent)])
          /\ unsent' = Tail(unsent)
          /\ UNCHANGED io_error
       \/ /\ unsent' = <<>> /\ io_error' = TRUE       \* read() fails
          /\ UNCHANGED c2s
    /\ UNCHANGED <<conv, turn, s2c, outages, cpc, call, rc, calls, alloc_size, local, written,
                   first_param, dir_entry, no_more_entries, serverVars, outcome, listing, belief>>

PutsComplete ==
    /\ cpc = "put" /\ unsent = <<>> /\ conv = "open"
    /\ c2s' = Append(c2s, [Blank EXCEPT !.type = "file_complete"]) /\ turn' = "server"
    /\ cpc' = "answer"
    /\ UNCHANGED <<conv, s2c, outages, call, rc, calls, alloc_size, local, unsent, written,
                   first_param, dir_entry, no_more_entries, serverVars, history>>

-----------------------------------------------------------------------------
(***************************************************************************)
(* aftpd.  A handler and the cmrcv of the main loop after it are one step: *)
(* the answer is sent, and the turn given back, only in Send state.        *)
(***************************************************************************)
Answers(records) ==
    IF ServerMaySend
      THEN s2c' = s2c \o records /\ turn' = "client"
      ELSE UNCHANGED <<s2c, turn>>

Handles(type) ==
    /\ spc = "receive" /\ c2s # <<>>
    /\ Head(c2s).type = type
    /\ c2s' = Tail(c2s)

\* The caller of a request still under way after an outage has gone.
Notes(x) == outcome' = IF conv = "open" THEN x ELSE outcome

\* A handler that did its work, or did not and left everything alone.
Did(fs, records) ==
    /\ remote' = fs
    /\ Notes("ok")
    /\ Answers(records)

DidNot ==
    /\ UNCHANGED remote
    /\ Notes("err")
    /\ Answers(<<Simple(TRUE)>>)

HandlerLeaves == <<conv, outages, clientVars, spc, dest_pos, unopened, unread, io_error, listing, belief>>

ATowerRequest ==
    /\ Handles("tower")
    /\ Did(remote, <<[Blank EXCEPT !.type = "tower"]>>)
    /\ UNCHANGED <<HandlerLeaves, cwd, dest_file>>

AQuerySystem ==
    /\ Handles("query_system")
    /\ Did(remote, <<Simple(FALSE)>>)
    /\ UNCHANGED <<HandlerLeaves, cwd, dest_file>>

AQueryDir ==
    /\ Handles("query_dir")
    /\ IF cwd # NoName THEN Did(remote, <<[Simple(FALSE) EXCEPT !.name = cwd]>>) ELSE DidNot
    /\ UNCHANGED <<HandlerLeaves, cwd, dest_file>>

\* Fault: a second response, as the return after the first one is missing.
AChangeDirNoReturn ==
    /\ Handles("change_dir")
    /\ LET n == Head(c2s).name IN
         \/ remote[n] = Directory /\ cwd' = n /\ Did(remote, <<Simple(FALSE)>>)
         \/ /\ UNCHANGED <<cwd, remote>> /\ Notes("err")
            /\ Answers(<<Simple(TRUE), Simple(FALSE)>>)
    /\ UNCHANGED <<HandlerLeaves, dest_file>>

AChangeDir ==
    /\ Handles("change_dir")
    /\ LET n == Head(c2s).name IN
         \/ remote[n] = Directory /\ cwd' = n /\ Did(remote, <<Simple(FALSE)>>)
         \/ UNCHANGED cwd /\ DidNot
    /\ UNCHANGED <<HandlerLeaves, dest_file>>

ACreateDir ==
    /\ Handles("create_dir")
    /\ LET n == Head(c2s).name IN
         \/ remote[n] = Absent /\ Did([remote EXCEPT ![n] = Directory], <<Simple(FALSE)>>)
         \/ DidNot
    /\ UNCHANGED <<HandlerLeaves, cwd, dest_file>>

\* What an open descriptor refers to when the entry n becomes `to'.
Follow(x, n, to) == IF x = n THEN to ELSE x

ADelete ==
    /\ Handles("delete")
    /\ LET n == Head(c2s).name IN
         \/ /\ IsFile(remote[n])
            /\ Did([remote EXCEPT ![n] = Absent], <<Simple(FALSE)>>)
            /\ dest_file' = Follow(dest_file, n, "other")
         \/ DidNot /\ UNCHANGED dest_file
    /\ UNCHANGED <<HandlerLeaves, cwd>>

ARemoveDir ==
    /\ Handles("remove_dir")
    /\ LET n == Head(c2s).name IN
         \/ /\ remote[n] = Directory
            /\ Did([remote EXCEPT ![n] = Absent], <<Simple(FALSE)>>)
            /\ cwd' = Follow(cwd, n, NoName)
         \/ DidNot /\ UNCHANGED cwd
    /\ UNCHANGED <<HandlerLeaves, dest_file>>

\* rename() replaces an entry of the same sort.
ARename ==
    /\ Handles("rename")
    /\ LET n == Head(c2s).name
           m == Head(c2s).to
       IN \/ /\ n # m /\ remote[n] # Absent
             /\ remote[m] = Absent \/ IsFile(remote[n]) = IsFile(remote[m])
             /\ Did([remote EXCEPT ![m] = remote[n], ![n] = Absent], <<Simple(FALSE)>>)
             /\ cwd' = Follow(Follow(cwd, m, NoName), n, m)
             /\ dest_file' = Follow(Follow(dest_file, m, "other"), n, m)
          \/ /\ n = m /\ remote[n] # Absent
             /\ Did(remote, <<Simple(FALSE)>>)
             /\ UNCHANGED <<cwd, dest_file>>
          \/ DidNot /\ UNCHANGED <<cwd, dest_file>>
    /\ UNCHANGED HandlerLeaves

\* The names of a set, in their order
InOrder(S) ==
    LET read[i \in 0 .. Len(Name)] ==
          IF i = 0 THEN <<>> ELSE IF Name[i] \in S THEN Append(read[i - 1], Name[i]) ELSE read[i - 1]
    IN  read[Len(Name)]

\* get_local_file_list for the filespec of the record r
FileList(r) ==
    IF r.name # NoName /\ remote[r.name] = Directory
      THEN <<Dot>>
      ELSE InOrder({n \in r.spec : remote[n] # Absent})

\* stat() gets the entry's bare name: it fails outside of Home, and leaves
\* what lstat() found of the filespec or of its directory.
IsDir(r, n) ==
    \/ n = Dot
    \/ IF cwd = Home THEN remote[n] = Directory ELSE r.name = NoName

\* Entries of the wrong type are sent, too, without their name.
ListEntry(r, n) ==
    LET wanted == \/ r.kind = "all"
                  \/ r.kind = "file" /\ ~IsDir(r, n)
                  \/ r.kind = "dir" /\ IsDir(r, n)
    IN [Blank EXCEPT !.type = "list_entry", !.name = IF wanted THEN n ELSE NoName]

\* Fault: no return after the response that there are no files.
AListRequestNoReturn ==
    /\ Handles("list")
    /\ LET r == Head(c2s)
           entries == [i \in DOMAIN FileList(r) |-> ListEntry(r, FileList(r)[i])]
       IN Did(remote, <<[Simple(entries = <<>>) EXCEPT !.name = Home]>> \o entries
                      \o <<[Blank EXCEPT !.type = "list_complete"]>>)
    /\ UNCHANGED <<HandlerLeaves, cwd, dest_file>>

\* a_list_request.  When opendir() fails filelist is not set, and may be NULL.
AListRequest ==
    /\ Handles("list")
    /\ LET r == Head(c2s)
           entries == [i \in DOMAIN FileList(r) |-> ListEntry(r, FileList(r)[i])]
       IN \/ /\ FileList(r) # <<>>
             /\ Did(remote, <<[Simple(FALSE) EXCEPT !.name = Home]>> \o entries
                            \o <<[Blank EXCEPT !.type = "list_complete"]>>)
          \/ DidNot
    /\ UNCHANGED <<HandlerLeaves, cwd, dest_file>>

\* opendir() fails and filelist, which nothing has set, is not NULL: the
\* server faults, and the conversation ends with it.
AListFaults ==
    /\ spc = "receive" /\ c2s # <<>> /\ Head(c2s).type = "list"
    /\ conv = "open" /\ outages < MaxOutages
    /\ conv' = "broken" /\ outages' = outages + 1 /\ spc' = "exited"
    /\ UNCHANGED <<turn, c2s, s2c, clientVars, remote, cwd, dest_file, dest_pos, unopened, unread,
                   history>>

\* a_request_file: open() of a directory succeeds, the first read() fails.
ARequestFile ==
    /\ Handles("request_file")
    /\ LET n == Head(c2s).name IN
         \/ /\ remote[n] # Absent
            /\ unread' = IF IsFile(remote[n]) THEN remote[n] ELSE <<>>
            /\ io_error' = ~IsFile(remote[n])
            /\ Notes("ok")
            /\ s2c' = IF ServerMaySend THEN Append(s2c, [Blank EXCEPT !.type = "send_file"]) ELSE s2c
            /\ spc' = "sendfile"
            /\ UNCHANGED <<turn, remote>>
         \/ DidNot /\ UNCHANGED <<unread, io_error, spc>>
    /\ UNCHANGED <<conv, outages, clientVars, cwd, dest_file, dest_pos, unopened, listing, belief>>

ASendsBlock ==
    /\ spc = "sendfile" /\ unread # <<>> /\ conv = "open"
    /\ \/ /\ s2c' = Append(s2c, [Blank EXCEPT !.type = "file_data", !.block = Head(unread)])
          /\ unread' = Tail(unread)
          /\ UNCHANGED io_error
       \/ unread' = <<>> /\ io_error' = TRUE /\ UNCHANGED s2c        \* read() fails
    /\ UNCHANGED <<conv, turn, c2s, outages, clientVars, spc, remote, cwd, dest_file, dest_pos, unopened,
                   outcome, listing, belief>>

ASendsComplete ==
    /\ spc = "sendfile" /\ unread = <<>> /\ conv = "open"
    /\ s2c' = Append(s2c, [Blank EXCEPT !.type = "file_complete"]) /\ turn' = "client"
    /\ spc' = "receive"
    /\ UNCHANGED <<conv, c2s, outages, clientVars, remote, cwd, dest_file, dest_pos, unopened, unread,
                   history>>

\* exit(1)
ASendFails ==
    /\ spc = "sendfile" /\ conv = "broken"
    /\ spc' = "exited" /\ unread' = <<>>
    /\ UNCHANGED <<convVars, clientVars, remote, cwd, dest_file, dest_pos, unopened, history>>

\* Fault: the descriptor is stored only when open() succeeds.
ASendFileKeepsDest ==
    /\ Handles("send_file")
    /\ LET r == Head(c2s) IN
         \/ /\ ~r.alloc /\ remote[r.name] # Directory
            /\ remote' = [remote EXCEPT ![r.name] = Created(@)]
            /\ dest_file' = r.name /\ dest_pos' = 0
            /\ Notes("ok")
            /\ UNCHANGED <<s2c, turn>>
         \/ DidNot /\ UNCHANGED <<dest_file, dest_pos>>
    /\ unopened' = FALSE
    /\ UNCHANGED <<conv, outages, clientVars, spc, cwd, unread, io_error, listing, belief>>

\* Fault: nothing looks at what open() returned.
ASendFileUnchecked ==
    /\ Handles("send_file")
    /\ LET r == Head(c2s) IN
         /\ dest_file' = r.name /\ dest_pos' = 0
         /\ remote' = [remote EXCEPT ![r.name] = Created(@)]
         /\ Notes("ok")
    /\ unopened' = FALSE
    /\ UNCHANGED <<s2c, turn, conv, outages, clientVars, spc, cwd, unread, io_error, listing,
                   belief>>

\* a_send_file opens the FILESPEC, the client's name of the file.  It returns
\* before, with dest_file as an earlier put left it, when malloc fails and
\* when an allocation size derails its parser.
ASendFile ==
    /\ Handles("send_file")
    /\ LET r == Head(c2s) IN
         \/ /\ ~r.alloc /\ remote[r.name] # Directory
            /\ remote' = [remote EXCEPT ![r.name] = Created(@)]
            /\ dest_file' = r.name /\ dest_pos' = 0
            /\ Notes("ok") /\ unopened' = FALSE
            /\ UNCHANGED <<s2c, turn>>
         \/ ~r.alloc /\ DidNot /\ dest_file' = "failed" /\ unopened' = FALSE /\ UNCHANGED dest_pos
         \/ DidNot /\ unopened' = TRUE /\ UNCHANGED <<dest_file, dest_pos>>
    /\ UNCHANGED <<conv, outages, clientVars, spc, cwd, unread, io_error, listing, belief>>

AFileData ==
    /\ Handles("file_data")
    /\ \/ /\ dest_file \in Names
          /\ remote' = [remote EXCEPT ![dest_file] = Overwritten(@, dest_pos, Head(c2s).block)]
          /\ dest_pos' = dest_pos + 1
          /\ UNCHANGED <<outcome, s2c, turn>>
       \/ dest_file = "other" /\ UNCHANGED <<remote, dest_pos, outcome, s2c, turn>>
       \/ DidNot /\ UNCHANGED dest_pos
    /\ UNCHANGED <<conv, outages, clientVars, spc, cwd, dest_file, unopened, unread, io_error, listing,
                   belief>>

\* Fault: only a failed close() is answered.
AFileCompleteSilent ==
    /\ Handles("file_complete")
    /\ IF dest_file \in Names \cup {"other"}
         THEN dest_file' = "closed" /\ UNCHANGED <<s2c, turn, outcome, remote>>
         ELSE DidNot /\ UNCHANGED dest_file
    /\ UNCHANGED <<HandlerLeaves, cwd>>

AFileComplete ==
    /\ Handles("file_complete")
    /\ IF dest_file \in Names \cup {"other"}
         THEN dest_file' = "closed" /\ Answers(<<Simple(FALSE)>>) /\ UNCHANGED <<outcome, remote>>
         ELSE DidNot /\ UNCHANGED dest_file
    /\ UNCHANGED <<HandlerLeaves, cwd>>

\* The main loop ends the conversation and accepts the next one.
AClose ==
    /\ Handles("close")
    /\ spc' = "accept"
    /\ UNCHANGED <<conv, turn, s2c, outages, clientVars, remote, cwd, dest_file, dest_pos, unopened, unread,
                   history>>

AConversationLost ==
    /\ spc = "receive" /\ conv = "broken"
    /\ spc' = "accept"
    /\ UNCHANGED <<convVars, clientVars, remote, cwd, dest_file, dest_pos, unopened, unread, history>>

-----------------------------------------------------------------------------
ClientCalls ==
    \/ Connect \/ ConnectFails \/ Close
    \/ \E r \in NamedCalls \cup Queries \cup Renames \cup Listings : Request(r)
    \/ \E r \in {Blank} \cup NamedCalls \cup Queries \cup Renames \cup Listings : Refused(r)
    \/ \E r \in Puts : IsFile(local[r.name]) /\ Refused(r)
    \/ \E r \in Gets : Get(r)
    \/ \E r \in Puts : Put(r)
    \/ \E r \in Gets \cup Puts : OpenFails(r)
    \/ \E a \in AllocSizes : SetAllocationSize(a)

ClientGoesOn ==
    GetsAnswer \/ CallFails \/ DirRead \/ GetsFileRecord \/ PutsBlock \/ PutsComplete

Server ==
    \/ ATowerRequest \/ AQuerySystem \/ AQueryDir \/ AChangeDir \/ ACreateDir \/ ADelete
    \/ ARemoveDir \/ ARename \/ AListRequest \/ ARequestFile \/ ASendsBlock \/ ASendsComplete
    \/ ASendFails \/ ASendFile \/ AFileData \/ AFileComplete \/ AClose \/ AConversationLost

Next == Outage \/ AListFaults \/ ClientCalls \/ ClientGoesOn \/ Server

\* Both programs keep running; nobody has to make a call, or to read a
\* listing to its end.
Fairness == WF_vars(Server) /\ WF_vars(ClientGoesOn)

Spec == Init /\ [][Next]_vars /\ Fairness

-----------------------------------------------------------------------------
\* The parameters of the records and of the state have their types.
TypeOK ==
    /\ conv \in {"none", "open", "closed", "broken"} /\ turn \in {"client", "server"}
    /\ cpc \in {"idle", "answer", "file", "put"}
    /\ spc \in {"accept", "receive", "sendfile", "exited"}
    /\ local \in [Names -> Contents] /\ remote \in [Names -> Contents]
    /\ cwd \in Names \cup {Home, NoName}
    /\ dest_file \in Names \cup {"other", "closed", "failed"}
    /\ dest_file \in Names => IsFile(remote[dest_file])
    /\ unsent \in Seq(Block) /\ unread \in Seq(Block)

\* Between two calls, unless a listing is still being read, no record is
\* under way and it is the client's turn: however a call went, aftpd gave
\* exactly the answer the library read, also to a put that failed early.
InStep ==
    conv = "open" /\ cpc = "idle" /\ listing = {} =>
        turn = "client" /\ s2c = <<>> /\ c2s = <<>> /\ spc = "receive"

\* A record of the server fits the call that reads it.
AnswerFits ==
    \A i \in DOMAIN s2c :
        \/ cpc = "answer" /\ call.type = "tower" /\ s2c[i].type = "tower"
        \/ cpc = "answer" /\ call.type # "tower" /\ i = 1 /\ s2c[i].type = "simple"
        \/ (listing # {} \/ call.type = "list") /\ s2c[i].type \in {"list_entry", "list_complete"}
        \/ cpc = "file" /\ s2c[i].type \in {"simple", "send_file", "file_data", "file_complete"}
        \/ conv # "open"

\* rename, rd, get, dir and, for names of more than six characters, cd and
\* md report success only for what aftpd did, and failure only for what it
\* did not do.
OutcomeReported ==
    cpc = "idle" =>
        /\ \/ rc = "ok" /\ call.type \in {"rename", "remove_dir", "list", "request_file"}
           \/ rc = "ok" /\ call.type \in {"change_dir", "create_dir"} /\ SeesCategory
          => outcome = "ok"
        /\ rc \in {"fail", "input_error"} => outcome # "ok"

\* A transfer that both sides call complete left the blocks of the source,
\* in order, at the head of the destination.
TransferComplete ==
    cpc = "idle" /\ rc = "ok" /\ outcome = "ok" /\ ~io_error =>
        /\ call.type = "request_file" => IsPrefix(remote[call.name], local[call.to])
        /\ call.type = "send_file" => IsPrefix(local[call.name], remote[call.name])

\* What aftp_dir_read reports was asked for by the listing it reads, though
\* a LIST_ENTRY without a name repeats whatever the buffer holds.
ListedEntriesMatch ==
    [][DirRead /\ rc' = "ok" /\ first_param' # "rc" => dir_entry' \in listing]_vars

\* The caller that was told the server's directory is right about it.
DirectoryAgreed ==
    conv = "open" /\ cpc = "idle" /\ belief # NoName => belief = cwd

\* An entry of the server's directory changes only through a record that
\* names it: no block goes to a file left open by an earlier transfer, unless
\* a_send_file returned before its open(), without memory or at an allocation
\* size, which it cannot parse.
OnlyNamedChange ==
    [][\A n \in Names : remote'[n] # remote[n] =>
          \/ n \in {Head(c2s).name, Head(c2s).to}
          \/ unopened /\ Head(c2s).type = "file_data"]_vars

\* Every call of the library returns.
CallReturns == (cpc # "idle") ~> (cpc = "idle")

\* Library and server agree on whose turn it is and on what is answered.
Synchronised == TypeOK /\ InStep /\ AnswerFits

\* What a call told its caller, of its outcome, of a transfer and of the
\* server's directory, is so.
CallerTold == OutcomeReported /\ TransferComplete /\ DirectoryAgreed
=============================================================================
