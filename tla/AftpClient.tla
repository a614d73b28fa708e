----------------------------- MODULE AftpClient -----------------------------
(***************************************************************************)
(* The command line program aftp (src/asuite/aftp.c): it reads a line, does*)
(* the command, and reads the next.  Three commands work through a list of *)
(* files and ask the user about each when prompting is on.                 *)
(*                                                                         *)
(* A line is the sequence of its words.  A filespec is a word that stands  *)
(* for a set of names, Matches; put takes one with a directory in front.   *)
(* The user, who may close the input at any time, and another user of the  *)
(* server are external.                                                    *)
(***************************************************************************)
EXTENDS AftpSession

CONSTANTS
    Lines,         \* lines the user may type
    LineLengths,   \* their possible lengths, blanks included
    Matches(_),    \* filespec -> the names it matches
    DirOf(_),      \* filespec of put -> its directory
    FormatBelow(_),  \* record format typed -> entries of Formats below it
    Number,        \* the words that strtol reads to their end
    BufferSize, ArgSize,   \* DEFAULT_BUFFER_SIZE and DEFAULT_ARG_SIZE
    MaxCommands, MaxChanges   \* bounds: commands, and changes by the other user

ASSUME AftpClientAssumption ==
    /\ LineLengths \subseteq Nat /\ BufferSize \in Nat \ {0} /\ ArgSize \in Nat \ {0}
    /\ MaxCommands \in Nat /\ MaxChanges \in Nat

\* Lines are made of words, which are not empty, and a directory that the
\* user makes is one of RemoteDir.
ASSUME LinesAssumption ==
    \A l \in Lines :
        /\ l \in Seq(Range(l)) /\ \A i \in DOMAIN l : Length(l[i]) \in Nat \ {0}
        /\ Len(l) = 2 /\ l[1] \in {"md", "mkdir"} => l[2] \in RemoteDir

VARIABLES
    pc,            \* "prompt", "run", "ask", "act", "free", "exited" or "aborted"
    line,          \* the line that is being done
    commands,
    eof,           \* the input has ended
    connected, prompting,
    filelist,      \* names of the elements of the list, as they read now
    index,         \* elements before the current one
    prompt_user,
    line_buffer,   \* [length, size] of the line and of its longest word
    changes,
    listed,        \* history: what the list was made from
    tried,         \* history: names acted upon
    consent,       \* history: "none", "yes", "go", "no" or "quit" since the last act
    skipped        \* history: elements passed over with No

listVars == <<filelist, index, prompt_user>>
history  == <<listed, tried, consent, skipped>>
clientVars == <<pc, line, commands, eof, connected, prompting, listVars, line_buffer, changes>>
vars == <<clientVars, history, sessionVars>>

ClientInit ==
    /\ line = <<>> /\ commands = 0 /\ eof = FALSE
    /\ connected = FALSE /\ prompting = FALSE
    /\ filelist = <<>> /\ index = 0 /\ prompt_user = FALSE
    /\ line_buffer = <<>> /\ changes = 0
    /\ listed = <<>> /\ tried = <<>> /\ consent = "none" /\ skipped = 0

-----------------------------------------------------------------------------
(***************************************************************************)
(* Reading a line.                                                         *)
(***************************************************************************)
\* Fault: the buffer grows one byte late.
LineSizeLate(n) == BufferSize * (1 + (IF n <= BufferSize + 1 THEN 0 ELSE (n - 2) \div BufferSize))

\* The size of the buffer that get_input has for a line of n bytes, and
\* parse_input for a word: it grows when a byte does not fit.
LineSize(n) == BufferSize * (1 + (IF n <= BufferSize THEN 0 ELSE (n - 1) \div BufferSize))
WordSize(n) == IF n <= ArgSize THEN ArgSize + 1 ELSE ArgSize * (1 + (n - 1) \div ArgSize)

\* get_input and parse_input.  The terminator of a line that fills its
\* buffer is written behind it, which the allocator may notice; without
\* memory for a longer word the list of the words is NULL.
GetInput(l, n) ==
    /\ pc = "prompt" /\ ~eof /\ commands < MaxCommands
    /\ commands' = commands + 1
    /\ line' = l
    /\ line_buffer' = <<[length |-> n, size |-> LineSize(n)], [length |-> n, size |-> WordSize(n)]>>
    /\ \/ pc' = "run"
       \/ (n = LineSize(n) \/ n > ArgSize) /\ pc' = "aborted"
    /\ UNCHANGED <<eof, connected, prompting, listVars, changes, history, sessionVars>>

\* get_input returns NULL: main returns without closing the conversation,
\* which ends with the process.
InputFails ==
    /\ pc = "prompt"
    /\ pc' = "exited" /\ conv' = NoConv
    /\ UNCHANGED <<line, commands, eof, connected, prompting, listVars, line_buffer, changes,
                   history, session, orphans, outages, server, local, cwd>>

\* At the end of the input fgetc gives the same character for ever, until
\* realloc fails.  (A build with readline gets NULL at once.)
EndOfInput == eof /\ InputFails

\* There is no memory for a line longer than the first buffer.
LineLost == ~eof /\ (\E n \in LineLengths : n > BufferSize) /\ InputFails

UserLeaves ==
    /\ ~eof /\ pc \in {"prompt", "ask"}
    /\ eof' = TRUE
    /\ UNCHANGED <<pc, line, commands, connected, prompting, listVars, line_buffer, changes, history,
                   sessionVars>>

OtherUser(n) ==
    /\ changes < MaxChanges /\ changes' = changes + 1
    /\ OthersChange(n)
    /\ UNCHANGED <<pc, line, commands, eof, connected, prompting, listVars, line_buffer, history>>

-----------------------------------------------------------------------------
(***************************************************************************)
(* Commands.                                                               *)
(***************************************************************************)
\* The command is one of the words; argcnt counts it as well.
Runs(words) == pc = "run" /\ line # <<>> /\ line[1] \in words
argcnt == Len(line)
Arg == line[2]

Stays(x) == UNCHANGED <<line, commands, eof, line_buffer, changes, x>>

\* The command is over and changed none of these; the line is freed.
Returns(x) ==
    /\ pc' = "prompt" /\ line' = <<>> /\ line_buffer' = <<>>
    /\ UNCHANGED <<commands, eof, changes, x>>

Unchanged == <<connected, prompting, listVars, history>>

\* An empty line, a_help, the version, trace, a word that is no command
Informs ==
    /\ pc = "run" /\ (line # <<>> => line[1] \in {"help", "?", "version", "trace", "unknown"})
    /\ Returns(<<Unchanged, sessionVars>>)

Quit ==
    /\ Runs({"quit", "bye", "exit"})
    /\ pc' = "exited"
    /\ IF connected THEN aftp_close(TRUE, TRUE) ELSE UNCHANGED conv
    /\ Stays(<<Unchanged, session, orphans, outages, server, local, cwd>>)

\* Fault: a second connection replaces the first.
a_openAgain ==
    /\ Runs({"open"})
    /\ \/ /\ argcnt # 2
          /\ UNCHANGED <<session, conv, orphans, connected>>
       \/ /\ argcnt = 2
          /\ session' = aftp_set_destination(Arg)
          /\ aftp_connect(session') /\ connected' = TRUE
    /\ Returns(<<prompting, listVars, history, outages, server, local, cwd>>)

\* Fault: the flag is set before the connection is there.
a_openEarly ==
    /\ Runs({"open"})
    /\ \/ /\ connected \/ argcnt # 2
          /\ UNCHANGED <<session, conv, orphans, connected>>
       \/ /\ ~connected /\ argcnt = 2
          /\ session' = aftp_set_destination(Arg) /\ connected' = TRUE
          /\ aftp_connect(session') \/ UNCHANGED <<conv, orphans>>
    /\ Returns(<<prompting, listVars, history, outages, server, local, cwd>>)

\* A destination stays set when the connection fails.
a_open ==
    /\ Runs({"open"})
    /\ \/ /\ connected \/ argcnt # 2
          /\ UNCHANGED <<session, conv, orphans, connected>>
       \/ /\ ~connected /\ argcnt = 2
          /\ session' = aftp_set_destination(Arg)
          /\ \/ DestinationFits(Arg) /\ aftp_connect(session') /\ connected' = TRUE
             \/ UNCHANGED <<conv, orphans, connected>>
    /\ Returns(<<prompting, listVars, history, outages, server, local, cwd>>)

a_close ==
    /\ Runs({"close", "disc", "disconnect"})
    /\ IF connected THEN aftp_close(connected' = FALSE, connected' = TRUE)
                    ELSE UNCHANGED <<conv, connected>>
    /\ Returns(<<prompting, listVars, history, session, orphans, outages, server, local, cwd>>)

\* The setting of a session field: shown without an argument, set with one.
Setting(allowed, new) ==
    /\ session' = IF allowed /\ argcnt = 2 THEN new ELSE session
    /\ Returns(<<Unchanged, conv, orphans, outages, server, local, cwd>>)

a_alloc == Runs({"alloc"}) /\ Setting(connected /\ (argcnt = 2 => Arg \in Number), aftp_set_allocation_size(Arg))
a_block == Runs({"block"}) /\ Setting(connected /\ (argcnt = 2 => Arg \in Number), aftp_set_block_size(Arg))
a_lrecl == Runs({"lrecl"}) /\ Setting(connected /\ (argcnt = 2 => Arg \in Number), aftp_set_record_length(Arg))
a_date  == Runs({"date"}) /\ Setting(connected /\ (argcnt = 2 => Arg \in {"old", "new"}), aftp_set_date_mode(Arg))
a_tpname   == Runs({"tpname"}) /\ Setting(~connected, aftp_set_tp_name(Arg))

\* Fault: the mode may change during the connection.
a_modenameAlways == Runs({"modename"}) /\ Setting(TRUE, aftp_set_mode_name(Arg))
a_modename == Runs({"modename"}) /\ Setting(~connected, aftp_set_mode_name(Arg))

set_data_type(t) ==
    CASE t \in {"ascii", "default"} -> aftp_set_data_type("ascii")
      [] t = "binary" -> aftp_set_data_type("binary")
      [] OTHER -> session

a_type ==
    \/ Runs({"type"}) /\ Setting(TRUE, set_data_type(Arg))
    \/ /\ Runs({"asc", "ascii", "bin", "binary"})
       /\ session' = set_data_type(IF line[1] \in {"bin", "binary"} THEN "binary" ELSE "ascii")
       /\ Returns(<<Unchanged, conv, orphans, outages, server, local, cwd>>)

\* get_command for a word with b entries of the table below it: the probes
\* of bsearch, told that the table has commandcnt entries.
commandcnt == 48
get_command(table, b, known) ==
    LET probe[r \in (0 .. commandcnt) \X (0 .. commandcnt)] ==
          LET m == (r[1] + r[2]) \div 2 IN
          IF r[1] >= r[2] THEN "absent"
          ELSE IF m >= Len(table) THEN "outside"
          ELSE IF m = b /\ known THEN "found"
          ELSE IF b <= m THEN probe[<<r[1], m>>] ELSE probe[<<m + 1, r[2]>>]
    IN  probe[<<0, commandcnt>>]

\* Beyond the table bsearch reads what lies there: no match, or a fault.
a_recfm ==
    /\ Runs({"recfm"})
    /\ LET found == IF connected /\ argcnt = 2
                    THEN get_command(Formats, FormatBelow(Arg), Arg \in Range(Formats)) ELSE "none"
       IN  \/ Setting(found = "found", aftp_set_record_format(Arg))
           \/ /\ found = "outside" /\ pc' = "aborted"
              /\ Stays(<<Unchanged, sessionVars>>)

\* a_status shows all the settings, or ends the program.
a_status ==
    /\ Runs({"stat", "status"})
    /\ pc' = IF /\ aftp_extract_mode_name /\ aftp_extract_tp_name
                /\ aftp_get_data_type_string /\ aftp_get_date_mode_string
                /\ aftp_get_record_format_string
             THEN "prompt" ELSE "fatal"
    /\ Stays(<<Unchanged, sessionVars>>)

a_prompt ==
    /\ Runs({"prompt"})
    /\ prompting' = IF connected /\ argcnt = 2 /\ Arg \in {"on", "off"} THEN Arg = "on" ELSE prompting
    /\ Returns(<<connected, listVars, history, sessionVars>>)

\* a_lpwd and a_lcd.  aftp_local_change_dir: chdir may fail, or getcwd after
\* it, and then the session keeps the old name.
a_lcd ==
    /\ Runs({"lcd", "lpwd"})
    /\ \/ UNCHANGED <<session, cwd>>
       \/ /\ line[1] = "lcd" /\ argcnt = 2 /\ Arg \in LocalDir
          /\ cwd' = Arg
          /\ session' \in {session, [session EXCEPT !.current_directory = Arg]}
    /\ Returns(<<Unchanged, conv, orphans, outages, server, local>>)

-----------------------------------------------------------------------------
(***************************************************************************)
(* Commands with one call to the server.                                   *)
(***************************************************************************)
\* The call is made when there is a connection and n words were typed; the
\* command only reports how it ended.
Asks(n, done) ==
    /\ IF connected /\ argcnt = n THEN Call(done, FilesKept, TRUE, TRUE)
                                  ELSE FilesKept /\ UNCHANGED <<conv, outages>>
    /\ Returns(<<Unchanged, session, orphans, cwd>>)

a_md     == Runs({"md", "mkdir"}) /\ Asks(2, aftp_create_dir(Arg))
a_rd     == Runs({"rd", "rmdir"}) /\ Asks(2, aftp_remove_dir(Arg))
a_cd     == Runs({"cd"}) /\ Asks(2, aftp_change_dir(Arg))
a_ren    == Runs({"ren", "rename"}) /\ Asks(3, aftp_rename(Arg, line[3]))
a_system == Runs({"sys", "system"}) /\ Asks(argcnt, FilesKept)
a_pwd    == Runs({"pwd"}) /\ Asks(argcnt, FilesKept)
a_ls     == Runs({"ls", "lsd", "dir"}) /\ Asks(argcnt, FilesKept)

-----------------------------------------------------------------------------
(***************************************************************************)
(* Commands on a list of files.                                            *)
(***************************************************************************)
StartsList(list, source) ==
    /\ pc' = "ask" /\ filelist' = list /\ listed' = source
    /\ index' = 0 /\ tried' = <<>> /\ skipped' = 0 /\ consent' = "none"
    /\ prompt_user' = prompting

\* The list of a_del and a_get: every element points to dir_entry, which
\* keeps the last entry read.
Aliased(s) == [i \in 1 .. Len(s) |-> Last(s)]

\* The reading of the entries of a_del and a_get.  When it fails on the way,
\* the command goes on with the entries it has.
ListsServer(words) ==
    /\ Runs(words) /\ connected /\ argcnt = 2
    /\ LET entries == Listing(Matches(Arg)) IN
         \/ /\ conv.state = "open"
            /\ StartsList(Aliased(entries), entries)
            /\ Stays(<<connected, prompting, sessionVars>>)
         \/ /\ Returns(<<Unchanged, sessionVars>>)
         \/ /\ conv.state = "open" /\ outages < MaxOutages
            /\ \E k \in 0 .. Len(entries) :
                 StartsList(Aliased(SubSeq(entries, 1, k)), SubSeq(entries, 1, k))
            /\ conv' = [conv EXCEPT !.state = "broken"] /\ outages' = outages + 1
            /\ Stays(<<connected, prompting, session, orphans, server, local, cwd>>)

\* a_put: the entries of the directory of the filespec, without it.  When
\* it cannot be read, filelist is not set: nothing, or garbage.
ListsLocal ==
    /\ Runs({"put", "send"}) /\ connected /\ argcnt = 2
    /\ LET entries == InOrder(Matches(Arg) \cap local[DirOf(Arg)]) IN
         \/ StartsList(entries, entries) /\ Stays(<<connected, prompting, sessionVars>>)
         \/ Returns(<<Unchanged, sessionVars>>)
         \/ pc' = "aborted" /\ Stays(<<Unchanged, sessionVars>>)

NoList ==
    /\ Runs({"del", "delete", "get", "recv", "receive", "put", "send"})
    /\ ~connected \/ argcnt # 2
    /\ Returns(<<Unchanged, sessionVars>>)

AtEnd == index = Len(filelist)

\* The end of the loop, and its beginning when nobody is to be asked
ListEnds ==
    /\ pc = "ask" /\ AtEnd
    /\ pc' = "free"
    /\ Stays(<<connected, prompting, listVars, history, sessionVars>>)

Unprompted ==
    /\ pc = "ask" /\ ~AtEnd /\ ~prompt_user
    /\ pc' = "act"
    /\ Stays(<<connected, prompting, listVars, history, sessionVars>>)

\* Fault: Yes is good for the rest of the list as well.
GetActionOnce(a) ==
    /\ pc = "ask" /\ ~AtEnd /\ prompt_user /\ ~eof
    /\ consent' = a
    /\ prompt_user' = (a = "no")
    /\ pc' = CASE a \in {"yes", "go"} -> "act" [] a = "no" -> "ask" [] a = "quit" -> "free"
    /\ Stays(<<connected, prompting, filelist, index, listed, tried, skipped, sessionVars>>)

\* get_action.  An end of the input is no answer: it asks again, for ever.
\* No does not take a_del to the next file.
GetAction(a) ==
    /\ pc = "ask" /\ ~AtEnd /\ prompt_user /\ ~eof
    /\ consent' = a
    /\ prompt_user' = (a # "go")
    /\ pc' = CASE a \in {"yes", "go"} -> "act" [] a = "no" -> "ask" [] a = "quit" -> "free"
    /\ LET skips == a = "no" /\ line[1] \notin {"del", "delete"} IN
         /\ index' = index + IF skips THEN 1 ELSE 0
         /\ skipped' = skipped + IF skips THEN 1 ELSE 0
    /\ Stays(<<connected, prompting, filelist, listed, tried, sessionVars>>)

\* Fault: every second element is left out.
AdvancesTwice ==
    /\ pc = "act" /\ ~AtEnd
    /\ pc' = "ask" /\ index' = index + 2
    /\ tried' = Append(tried, filelist[index + 1])
    /\ consent' = IF consent = "yes" THEN "none" ELSE consent
    /\ Stays(<<connected, prompting, filelist, prompt_user, listed, skipped, session, orphans, cwd>>)

Advances ==
    /\ pc = "act" /\ ~AtEnd
    /\ pc' = "ask" /\ index' = index + 1
    /\ tried' = Append(tried, filelist[index + 1])
    /\ consent' = IF consent = "yes" THEN "none" ELSE consent
    /\ Stays(<<connected, prompting, filelist, prompt_user, listed, skipped, session, orphans, cwd>>)

\* Fault: a file that could not be sent is tried again.
SendsUntilDone ==
    /\ pc = "act" /\ ~AtEnd /\ line[1] \in {"put", "send"}
    /\ \/ Advances /\ Call(aftp_send_file(filelist[index + 1], filelist[index + 1]), FilesKept, TRUE, FALSE)
       \/ /\ tried' = Append(tried, filelist[index + 1])
          /\ UNCHANGED <<pc, listVars, consent, conv, outages>> /\ FilesKept /\ Len(tried) < 4
          /\ Stays(<<connected, prompting, listed, skipped, session, orphans, cwd>>)

a_put ==
    /\ Advances /\ line[1] \in {"put", "send"}
    /\ \/ Call(aftp_send_file(filelist[index + 1], filelist[index + 1]), FilesKept, TRUE, TRUE)
       \/ Unnoticed(FilesKept)

\* Fault: a file that could not be received is tried again.
GetsUntilDone ==
    \/ /\ Advances /\ line[1] \in {"get", "recv", "receive"}
       /\ Call(aftp_receive_file(filelist[index + 1], filelist[index + 1]), FilesKept, TRUE, FALSE)
    \/ /\ pc = "act" /\ line[1] \in {"get", "recv", "receive"} /\ UNCHANGED vars

a_get ==
    /\ Advances /\ line[1] \in {"get", "recv", "receive"}
    /\ Call(aftp_receive_file(filelist[index + 1], filelist[index + 1]),
            ReceivesNothing(filelist[index + 1]), TRUE, TRUE)

a_del ==
    /\ Advances /\ line[1] \in {"del", "delete"}
    /\ Call(aftp_delete(filelist[index + 1]), FilesKept, TRUE, TRUE) \/ Unnoticed(FilesKept)

\* free_single_list: the elements of a_del and a_get were never allocated,
\* which the allocator may or may not notice.
Frees ==
    /\ pc = "free"
    /\ \/ /\ filelist' = <<>> /\ index' = 0 /\ prompt_user' = FALSE
          /\ listed' = <<>> /\ tried' = <<>> /\ consent' = "none" /\ skipped' = 0
          /\ Returns(<<connected, prompting, sessionVars>>)
       \/ /\ line[1] \notin {"put", "send"} /\ filelist # <<>>
          /\ pc' = "aborted"
          /\ Stays(<<connected, prompting, listVars, history, sessionVars>>)

-----------------------------------------------------------------------------
Setter ==
    a_alloc \/ a_block \/ a_lrecl \/ a_date \/ a_tpname \/ a_modename \/ a_type \/ a_recfm \/ a_prompt \/ a_lcd

Command ==
    \/ Informs \/ Quit \/ a_open \/ a_close \/ a_status \/ Setter
    \/ a_md \/ a_rd \/ a_cd \/ a_ren \/ a_system \/ a_pwd \/ a_ls
    \/ ListsServer({"del", "delete", "get", "recv", "receive"}) \/ ListsLocal \/ NoList

Program ==
    Command \/ ListEnds \/ Unprompted \/ a_put \/ a_get \/ a_del \/ Frees \/ EndOfInput

User ==
    \/ \E l \in Lines, n \in LineLengths : GetInput(l, n)
    \/ \E a \in {"yes", "no", "go", "quit"} : GetAction(a)
    \/ UserLeaves \/ LineLost

ClientNext == Program \/ User \/ \E n \in Names : OtherUser(n)

-----------------------------------------------------------------------------
\* The bytes of a line and of its words are inside their buffers.
InputFits == \A i \in DOMAIN line_buffer : line_buffer[i].length <= line_buffer[i].size

\* The settings can always be shown: a_status does not end the program and
\* the assertions of the other commands hold.
NeverFatal == pc # "fatal"

\* Without a connection there is no open conversation, and a connection
\* that did not break has one: close, open and outages in any order.
ConnectedTrue ==
    pc \notin {"exited", "aborted", "acopy"} =>
        /\ conv.state = "open" => connected
        /\ connected => conv.state # "none"

\* With prompting on, a file is deleted, sent or received only if the user
\* said Yes to it, or Go since the command began.
Confirmed ==
    [][tried' # tried /\ tried' # <<>> /\ prompting => consent \in {"yes", "go"}]_vars

\* A command that is done has taken every element of its list once, in
\* order, except those passed over with No and those after Quit.
EachOnce ==
    pc = "free" /\ consent # "quit" =>
        /\ Len(tried) = Len(listed) - skipped
        /\ skipped = 0 => tried = filelist

\* The user is asked about a file.
Asked == pc = "ask" /\ ~AtEnd /\ prompt_user

\* A command ends, or comes to the next question for the user, who need not
\* answer it, and may answer No for ever.
CommandEnds ==
    pc \in {"run", "ask", "act", "free"} ~> (pc \in {"prompt", "exited", "aborted"} \/ Asked)

\* What aftp.8:243-247 says of prompting, "to allow the user to selectively
\* retrieve or store files", and the comment on a_prompt of every get, put
\* and delete: No passes over one file and the next is asked about.  The
\* code does not keep it for del: TLC refutes it.
NoPassesOver == [][consent # "no" /\ consent' = "no" => index' = index + 1]_vars

\* get and del take every file that the server listed, when the user
\* passes none over: "Receive one or more files from the server".
AllListedTaken ==
    pc = "free" /\ consent # "quit" /\ skipped = 0 => Range(tried) = Range(listed)
=============================================================================
