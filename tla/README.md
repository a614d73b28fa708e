# A TLA+ development for Linux-SNA

Linux-SNA puts an SNA node into Linux: a kernel stack (shipped as a patch), the
daemons beside it, and the "A-suite" of small APPC programs. This directory
holds TLA+ modules for the parts with the program's own control logic, TLC
configurations that check them on small instances, and TLAPS proofs of the
properties that matter most. `PROJECT.json` maps every definition to the lines it
models and lists runs, faults, findings, the main hazards and theorems.

    tlc -workers 2 -config MCTn3270Server.cfg MCTn3270Server
    tlapm Tn3270dProofs.tla

## 1. The system

| part | source | state | operations | hard behaviour |
|---|---|---|---|---|
| tn3270d, connection manager | `tn3270d/tn3270_daemon.c` 62-93, 722-738, 1130-1471 | `all_fds`, `open_fds`, `highest_fd`, `client_list`, `client_num` | accept, refuse, close, user table, signals | the sweep works on a snapshot that it outdates; partly failed set-ups; one process for all clients |
| tn3270d, telnet stream | `libtnX/tnX_stream.c`, `tnX_record.c`, `tn3270d/tn3270_host.c` | decoder `state`, `sb_buf`, `current_record`, `records`, `TERM` | negotiate, decode, take a record | TCP cuts the stream anywhere; the decoder resumes in a later call |
| tn3270d, RUI gateway | `tn3270_daemon.c` 100-1000 | verb records and `sid`, global to the process | RUI_INIT, READ, WRITE, BID, PURGE, TERM | asynchronous completions of several clients on shared globals |
| snatchd | `snatchd/snatchd.c`, `libsna/libattach.c` | `tp_list` with `count` and `time` per program | listen, launch, correlate, reap, go away | rate limit, fork failure, signals, restart |
| attach manager | `net-fun.patch` 14242-14569, 39718-40060 | `attach_queue`, `attach_tp_list`, open attach files | execute, listen, register, correlate, release | sleep and wake-up, inherited files |
| aping, apingd | `asuite/aping.c`, `apingd.c`, `libasuite/cpicsession.c` | block and round counters, one-way flag | version exchange, rounds, echo or confirm | half-duplex turn, data and status in one call or two, lost session |
| AFTP library and server | `libasuite/libaftp.c`, `asuitecommon.c`, `asuite/aftpd.c` | conversation, record buffer, open files, working directory | connect, list, get, put, delete, rename, cd, md, rd, close | half-duplex turn, early error answers, stale buffers and files, lost session |
| aftp, acopy | `asuite/aftp.c`, `acopy.c` | settings, `connected`, `prompting`, the list of names and the place in it | one command per line, composed of library calls | partial failure of a list, answers of the user, outages between calls, memory shared by list elements |
| atell, arexec and their servers | `asuite/atell*.c`, `arexec*.c`, `libasuite/cpicsession.c` | the session record, one buffer | options, one exchange, confirmation or output | sizes of buffers, data and status apart, lost session |
| anamed | `asuite/anamed.c` | the database in memory, the conversation it has | register, delete, query, one conversation at a time | which failure ends the server and with it all names |
| tdb | `libasuite/tdb.c` | the file: free list, hash chains, records; per process the size it has mapped and its locks | store, fetch, delete, traverse, open and close | several processes under one lock per list, growth of the file, death of a process |
| snaconfig, libnof | `snaconfig/`, `libsna/libnof.c` | none between commands | load, start, stop, delete, show: sequences of requests and queries | several copies at a time, a request refused half-way, tables that outgrow the buffer |
| node operator facility | `net-fun.patch` 47867-50770 (`sna_cs.c`), 54991-55300 (`sna_nof.c`) | nodes twice (`nof_list`, `cs_list`), ports with links, modes, LUs, side information | define, start, stop, delete, query | link events between requests, timers, two lists that have to agree |
| kernel SNA stack | `net-fun.patch` 38565-68697, the rest | half-sessions, LU and CP tables, FSMs | CPI-C verbs, session services | large; much of it answers "not supported" |
| libcpic | `libsna/libcpic.c` | none | one system call per verb | none |
| LLC, NetBEUI | `net-fun.patch` 15300-38500 | | | third-party code, left aside |

How they meet: the kernel queues the attach of a remote program; snatchd takes
it and starts apingd, aftpd and the rest, which talk CPI-C to the kernel. tn3270d
serves terminals over TCP and is to reach the host through RUI verbs. snaconfig
fills the kernel's tables of nodes, links, modes and LUs before any of that can
work; anamed keeps names for the other programs in a tdb. tn3270d's loop
calls a top half once per connection and a bottom half whenever the client is
readable; `TelnetStream` is what happens inside the two, `Tn3270Server` what
the loop makes of their return values.

What makes each part correct:

- connection manager: the list, the descriptor set and the kernel agree; the
  limit holds; every connection is answered and every client read;
- telnet stream: the records decoded are the records sent, for every cut of the
  stream; negotiation ends;
- attach manager and snatchd: an attach is started, refused for a reason, or
  dropped for a reason, and never forgotten; the process of a conversation is known;
- AFTP: an answer belongs to the call that reads it, however the call before
  it failed; what the caller is told of files and directories is true;
- aping: both sides count the same blocks, no verb is rejected, both end;
- aftp and acopy: every element of a list is tried once and none without the
  user's consent; what the program believes of its connection is so;
- atell and arexec: success means that the partner has shown the message or run
  the command; texts and output arrive whole;
- anamed: an acknowledged name is there; answers agree with each other; requests
  do not end it;
- tdb: a map in which every call takes effect at once; a well-formed file;
- snaconfig and the node operator facility: nothing is up on top of something
  that is down, nothing is left of what was deleted, queries are whole.

## 2. Modules

### Tn3270Server (`MCTn3270Server`, `Tn3270dProofs`)

One server process. A client is identified with its descriptor. The variables are
the fields of `server_info`, the kernel's descriptor table (`sock`), the fate of each
connection (`peer`), pending input (`event`, `mgr`, `fifo`), and `pc` for the place in
`tn3270_server_doit`. One action per branch: `SelectReady`, `SelectTimeout` (which
writes the user table if a descriptor is free for its pipe), `TableNoMemory` (the
pipe is opened and, without memory for the table, never closed: `leaked`), `SelectFails`
and `SleepEnds`; `Visit` is the head of
the `for` loop and a conjunct of each of its branches: `AcceptError`, `AcceptRefused`,
`AcceptClient`, `AcceptSetupFails`, `ManagerIgnored`, `ClientReads`, `CloseSession`.
`accept()` hands out the lowest free descriptor, as POSIX says, so that reuse
of numbers happens. `ClientKillsServer` stands for the `exit(5)`, `_exit(-1)` and
`abort()` below a client's handlers. `malloc()` may fail `MaxShortages` times, for the table
and for a new client. SIGTERM and SIGINT are in no block mask, so
`SignalGoaway` is enabled everywhere.

### TelnetStream (`MCTelnetStream`, `Tn3270dProofs`)

One client from `accept()` to the end of its session, byte by byte; bytes are named by
what the decoder tells apart. One action per arm of `telnet_stream_get_byte`;
`NegotiationGoesOn`, `NoRecord` and `TakeRecord` are also where the next byte "is
not there yet", which loses the local variable `verb`; reading it unset is any
value (`VerbRead`). The terminal is external; it escapes as `telnet_stream_escape`
does. Its names (`phase`, `StreamInit`, `StreamNext`, `StreamSpec`) differ from those of
`Tn3270Server`, because one module proves theorems about both.

### Aping (`MCAping`, `ApingProofs`)

Two programs and the network. `Receives` offers every combination of data and
status that a `cmrcv` may return. `Outage` may come at any time. `Concurrent` and
`Iterations` are any integers, because `aping` does not check its arguments
(aping.8 asks for 1 to 32767). apingd's `count` wraps at `UlongMax + 1`. CPI-C and
the LUs are external, modelled from their use in the two programs: the kernel of
this patch never copies `status_received` to the caller. The version block is
assumed to arrive with its status, since both programs read it with one call; a
stack that delivers them apart would make `get_client_version` send no reply
(cpicsession.c:457). The same is assumed in `CpicTool`.

### Snatchd (`MCSnatchd`, `AttachProofs`)

The director loop, `snatch_fork_tp`'s limit, and the kernel's queue and list.
`ListenEmpty` and `ListenSleeps` are two steps, because the kernel looks at the
queue before it sleeps. `Start` registers any part of the programs, because a
registration that fails for want of memory is passed over; `registered` is what
there was when the daemon began to listen, and `elders` are the earlier daemons whose attach file
was held then. A conversation whose `tcb_id` is in `Unknown` is one the resource manager does not
know: `sna_tp_correlate` refuses it, snatchd logs that and listens again.
Forked programs hold the attach file they inherit (`epoch` names it). `FillsName` is FALSE for the kernel as built (the lines that hand over
the name are under `#ifdef NOT`) and TRUE for the one snatchd is written
for; the run uses TRUE, without which nothing is ever started.

### Aftp (`MCAftp`, `AftpProofs`)

One session of the library, one aftpd, the two queues of records between them and
a directory on each side. A library call is the step that sends its request and
the steps that read the answers (`cpc` says which it waits for); one action per
handler of aftpd, which includes the next `cmrcv` of its main loop, and one per
block in `a_request_file`'s loop. `Result` is what the response parsers make of a
response; `first_param` and `dir_entry` are the record buffer and the output of
`aftp_dir_read`; `dest_file` is aftpd's global of that name. `a_send_file` may return before its
`open()`, without memory or at an allocation size that derails its parser, and then
leaves `dest_file` as it was (`unopened`). `outcome`, `io_error`, `listing`, `belief` and
`unopened` are history. When `opendir()` fails, `a_list_request` goes on with a `filelist` that
nothing has set: it is NULL and the request is refused, or the server faults (`AListFaults`).

CPI-C is external. `send_asuiterecord` returns a state check in Receive state, which
aftpd ignores and the library reports. Neither side looks at `status_received`, so
the permission to send is assumed to come with the last record; a stack that
delivers it apart would leave both sides waiting. All names are absolute paths of
entries of one directory; a put writes to the client's own name of the file,
because `a_send_file` opens FILESPEC and ignores NEW_FILESPEC. Errors of `open`,
`mkdir` and the rest may happen at any time.

For a name of at most six characters the parsers of `aftp_change_dir` and
`aftp_create_dir` stop before the error (`SeesCategory`): the call reports success
whatever happened. `OutcomeReported` leaves these two calls with such a name out, and after
such a cd the caller counts as not knowing the directory (`Told`). One of the run's names
has six characters, the other seven.

### AftpSession, AftpClient, Acopy (`AftpPrograms`, `MCAftpPrograms`, `AftpProgramsProofs`)

`AftpSession` is the library again, one call per step, as its callers see it: the
settings with their setters, the conversation with what it was allocated with, and
the calls to the server, each of which succeeds, is answered with an error, or meets
an outage; `aftp_send_file` and `aftp_delete` return success for an error, too (`Unnoticed`,
libaftp.c:1673-1695). A transfer names both files, and aftpd saves under the first.
`Aftp` says what happens inside such a call. `AftpClient` has the program
aftp on it: `GetInput` reads a line (`EndOfInput` is its end, which readline reports
at once and `fgetc` only when memory has run out; `LineLost` a line there is no memory for), one action per command, named as in the
code (`a_open`, `a_lcd`, ...), and for put, get and del the list, the prompt (`GetAction`)
and one step per element. A line is the sequence of its words; what a pattern matches is
a parameter. Lists are modelled with what their elements read as now, because get
and del append the same buffer every time. Where the code reads or frees memory it
does not own the outcome is `pc = "aborted"` or goes on (`ListsLocal`, `Frees`, `a_recfm`,
`GetInput`); `pc = "fatal"` is an `assert(0)` of `a_status`. `OthersChange` is another user of
the server. `Acopy` is the program acopy, with the name of the file on each side. A behaviour of
`AftpPrograms` is a run of one of the two.

### CpicTool, Atell, Arexec (`AsuiteTools`, `MCAsuiteTools`, `AttachProofs`)

`CpicTool` has the session helpers (one operator per setter, `cpic_session_init`) and
one conversation: two queues of records and statuses, cut by `cmrcv` as in `Aping`, with
an outage at any time. `Atell` and `Arexec` are the four programs, from the command line
to their exit status. Texts are sequences of units and buffers have sizes in units, so
that texts that just fit, just do not fit and are empty all occur. who(1), the shell
and the terminals are external. `SetOptions` is the loop over `getopt`: an option that is
given twice is set twice, and one that does not fit leaves the field as it was, so the last
that fits counts (`Chosen`). arexec calls `getopt` again after it took the destination. glibc's
permutes `argv`: options among the words of the command are taken as arexec's own (`ArexecUsage` where
there is no such option), and `optind` goes back to the first operand, so the destination's name
becomes the first word of the command (`Operands`); with POSIXLY_CORRECT, which is not
modelled, this does not happen. arexec takes every destination for the name of an LU, atell only one
with a dot. atelld shows a message for a user who is not logged in on its own stderr.
The names of the specification (`ToolsInit`, `ToolsNext`,
`ToolsSpec`) differ from those of `Snatchd`, because one module proves theorems about both.

### Anamed (`MCAnamed`, `AnamedProofs`)

The accept loop with one action per handler, the clients, conversations that break
between any two verbs, and the restart by snatchd, which may refuse it. The database is a number of copies
of each record; that tdb is such a thing is what `Tdb` is about, though anamed opens it in memory
and alone. When `malloc()` fails inside tdb, a record that is there is not found, and one that is
registered again is lost or stored twice; `starved` are the names this happened to. A query or a
delete finds a record only if all four fields are the same, those not given included. The state `deallocate` is there because the result of the last verb decides
whether the server goes on.

### Tdb, TdbMap (`MCTdb`, `TdbProofs`)

The database file as a value `db`: records by offset, each with its length, and the lists
as sequences of offsets (list -1 is the free list). Each process has `pc`, the counts of
its locks, the size it has mapped, and the variables of the call. What a call does
under one lock is one step, and one action per phase of
store, delete, traverse, fetch and the key iteration: `Touches` (`tdb_oob`, which maps the file
again), `Split`, `Expanded` and `Allocated` (`tdb_allocate`, `tdb_expand`) and `Freed` (`tdb_free`) are their
parts. `Dies` takes a process away with its
locks between any two steps; a full disk is `MaxSize`; every step that reads a key or a value
may find no memory for it (`NoMemory`, `MaxShortages` times). A store that could not read the old record
links the new one beside it, and a store without memory for the new one leaves it on no list
(`db.lost`). Two processes that store one key at a time, one of them with `TDB_INSERT`, may both put it on
the chain (`Contested`). A key to which either can have happened is in doubt (`db.doubtful`) until the file is
cleared. `TdbMap` is the promise: a map
on which a call takes effect in one step, and that says nothing of keys in doubt. A call that
runs out of memory may fail, and a store that does may lose the key. A process that dies in
a store may lose the key it was storing, nothing else. `Abstract` is the refinement mapping: a
key's value is that of the record on its chain, or, between the two halves of a
replacement, of the record that is taken out by its chain's owner (`Visible`).

### SnaNof, Snaconfig (`MCSnaconfig`, `SnaconfigProofs`)

`SnaNof` is the kernel side of one request: the tables, with one operator per request
that says how they are afterwards and what it returns, and the events of a link
(connected, dropped, disconnected, timer). The kernel runs a request to its end before
the next. A definition may find no memory (ENOMEM); when it is `sna_cs_create` that finds none, which
`sna_nof_node_define` ignores, the node is in `nof_list` only (`uncreated`). Side information is
stored with its name padded to eight characters and looked up without (`Padded`), so a shorter one is never
found to be there. The test and XID exchange of a link is only its outcomes, and the frames that
an active link gets later (`Hears`): they delete the retry timer, also the one that waits for the
disconnection of a stopped link. `TimesOut` is that timer: it resets a link whose test was answered
(`tested`) and does nothing else. `Snaconfig`
has several copies of the program; `sna_execute_config_info` turns a file into the
sequence of requests that a load issues, `Answered` takes the answer and goes on or stops,
`Queries` is the loop of libnof that enlarges the buffer until a table fits with
room to spare; when its ioctl fails it returns no records (`lost`), and show takes that for an
empty table, which for the DLCs of a node means that its other tables are passed over. `Unreached` is a program that gets no socket, `Interrupted` one that its
user interrupts between two requests of a load.

## 3. Runs

Passing runs:

| run | bounds | shows |
|---|---|---|
| `server` | 3 connections, limit 2, 3 client descriptors, 1 shortage of memory | limit, agreement of list, set and kernel, no stray event, count, no reuse of stale descriptors; connections answered, clients served, user table written once the server is quiet, unless no descriptor is free |
| `stream` | 3 items from 3 pieces, 2 verbs, 1 subnegotiation | records and TERM are faithful; negotiation ends |
| `aping` | 2 rounds of 3 blocks, versions 1.9, 2.1, 2.40 | counts, echo, verbs, downgrade, both end |
| `aftp` | 4 calls, 1 outage, 2 names of 6 and 7 characters, files of up to 2 blocks, with and without allocation size | both sides in step, answers fit, outcomes and transfers reported, nothing but the named entry changes, listings report what was asked for, calls return |
| `snatchd` | limit 3, interval 2, clock to 3, 4 attaches of which the kernel does not know one, 2 daemons | burst bound, refusals, correlation; what a daemon registered stays until an elder's file is released; waiting attaches are taken up |
| `tdb` | 2 processes, 3 keys of which two share a chain, 3 lengths of values, file of at most 16 units, 5 calls, 1 death, 1 shortage of memory; both processes insert one key and replace another | the file is well formed, a traversal is complete, the database is the map of `TdbMap`, calls return |
| `aname` | 2 clients, 4 requests, one by user only, 1 broken conversation | promises kept, answers agree, fields reported, server survives requests, clients get an end |
| `aftp_programs` | 2 names in 2 directories, 4 lines out of 38, settings at and beyond their limits, 1 outage, 1 change by others | lists, consent, settings, connection and exit status are right; commands end or ask the user, acopy ends |
| `asuite_tools` | texts of 0 to 4 units for buffers of 4, outputs around the size of a read, 3 partner versions, 5 option lists, 1 outage | delivery, whole texts, the partner the code chooses, both sides end |
| `snaconfig` | 2 copies, 3 files, 5 and 1 commands, room for 1 record and 1 more | tables agree, nothing up on something down, no leftovers, unique addresses, loads complete, queries whole or empty, commands end, the timer resets stopped links |

Why the bounds are enough. More connections than the limit, and at least as many
descriptors, give refusal, close and reuse of numbers in one sweep; a descriptor that is
leaked makes the table fill up, so that `accept()` and the open of the pipe fail. Three
items hold a record with a verb or a subnegotiation before it or inside it, cut at every byte. Two
rounds of three blocks have a first, a middle and a last block and a counter to
reset. Four calls are a connection, one call that leaves something behind (an open
file, an unread listing, a directory), one that meets it, and one more; two blocks
have a first and a last, and the two directories start with a file that differs
and with a name that is a file on one side and a directory on the other. The clock passes the interval once, so a burst may straddle it: limit 3 allows
2 * 3 - 3 = 3 starts, and the run reaches three; two daemons are one restart.

Five calls on a tdb hold two stores that replace each other, a delete between
them, and a search or traversal that overlaps; the file has room for two or three
records, so that it grows, is split, and is full; the shortage of memory may fall on any
step that allocates. Four lines of aftp are open, a setting or
a change of directory, a list and what comes after it. One record of room in snaconfig's
queries makes every table with an element one that fills the buffer. Two of its files
share a partner address and a mode, two the side information, once under a short name and once under one of
eight characters, so that loads collide; one command of the second copy can
fall between any two requests of the first.

Two runs TLC must refute, because the code departs from what the repository says
(quoted in `findings`). `aftp_get`: get and del build their list from one buffer, so
every element of it names the last file that was listed; with a pattern that
matches two files one of them is taken twice and the other never. `link_cleanup`: the timer that
is to reset a stopped link "in case we don't get a disc rsp" is deleted by a test or XID frame
of the partner, and the link stays as it is for ever.

More statements of the repository that the code does not keep are in the modules, beside the
properties of the same run that say what does hold. TLC refutes each when it takes the place of the
properties in the run's cfg:

| definition | cfg | what the repository says | what TLC finds | what holds |
|---|---|---|---|---|
| `NoPassesOver` | `MCAftpPrograms` | prompting is there "to allow the user to selectively retrieve or store files" (aftp.8:245) before "each get, put or delete operation" (aftp.c:1262) | after No, del asks about the same file again (aftp.c:1162) | `ListsWorked` |
| `SavedAsNamed` | `MCAftpPrograms` | "save is as filename bar.c" (acopy.8:78) | the file is saved under its own name, because aftpd ignores NEW_FILESPEC (aftpd.c:566) | `AcopyTrue` |
| `QueryFindsMatches` | `MCAnamed` | "to view all the records for a particular user name, enter: aname qry -u username" (aname.8:164) | nothing is found, because the key is the whole record (anamed.c:268) | `AnswersTrue` |
| `CommandAsGiven` | `MCAsuiteTools` | "The command string to be executed on the remote computer" (arexec.8:27) | the destination's name is the first word of the command (arexec.c:138) | `CommandDone` |
| `SymbolicDestination` | `MCAsuiteTools` | the destination can be "a CPI-C symbolic destination aname" (arexec.8:21) | it is taken for the name of an LU, with arexec's own TP and mode (arexec.c:148) | `PartnerChosen` |
| `DeletedOffline` | `MCSnaconfig` | "ensure link is offline." (net-fun.patch:48687) | an active link is freed with the timer of its disconnection running (48692) | `IdleDeletedClean` |

More departures are visible in the models and have no property of their own.

In tn3270d and its stream: `client_num` is never decremented (tn3270_daemon.c:722;
ChangeLog:112 says the limit is on clients at a time), so a server stops accepting
once it has served `limit` clients in all. A client whose set-up fails after its
descriptor was entered in `all_fds` (1305) leaves it there closed, and `select()` fails with EBADF
for ever (`SelectFails`). An escaped IAC in a subnegotiation (tnX_stream.c:534) leaves the
decoder in a state that swallows what follows. A connection
on tn3270d's management port is ignored for ever and keeps `select()` from timing
out, so the user table that ChangeLog:114 promises is not written any more
(`QuietTableAnswered` says when it is). A refused attach
resets snatchd's count, so `BurstBounded` speaks of the time between two refusals
only. A record of fewer than three bytes (a key that sends no address) fails an
assertion and ends the server: `phase = "aborted"` in `TelnetStream`, `ClientKillsServer` in
`Tn3270Server`. A telnet verb whose option comes in a later read is answered from
an unset local variable (`VerbRead`), so the host may answer another verb than was sent.

In AFTP: put, delete and the queries report success whatever aftpd answers; errors
of cd and md are lost for short names; files are opened without O_TRUNC, so
`TransferComplete` can only say that the source is a prefix of the destination; an
allocation size is sent with the length 4 instead of 7, and aftpd refuses every
such put but writes its blocks to the file of an earlier one that was
interrupted, as it does when `a_send_file` has no memory (`OnlyNamedChange` excludes both); entries of the wrong type are listed
as a repetition of the entry before.

In the attach manager: the lines that hand the program name to snatchd are compiled out
(net-fun.patch:39874; `FillsName`), an attach queued between the look at the queue and
the sleep wakes nobody until the next one (39861; `TakenUp` is about attaches that wait
while the daemon is busy), and the last program of an earlier daemon that ends
unregisters the programs of the present one (39995; `StaysRegistered` says that nothing
else does). A daemon that could not register or correlate a program goes on as if it had.

In aftp: the end of the input is no answer to the question about a file and is
asked again for ever (aftp.c:1629; aftp.8:92 says that an end of file terminates
the session). acopy exits
with 0 after a failed receive (acopy.c:111) and after a file that aftpd refused. In atell: `argv` is indexed with
`optind` although it was moved by it (atell.c:232), so a message after options is
read from beyond its argument, and `sizeof(message-1)` (239) cuts a long message to the
size of a pointer; `ShownWhole` and `Delivered` are about command lines without
options whose message fits. A security type and user that were set are never used
(cpicsession.c:184). anamed fills in a negative answer and does not send it (anamed.c:199,
320): the client has to take the end of the conversation for it (`AnswerTrue`).

In tdb: `TDB_INSERT` looks for the key and inserts it under two separate locks
(tdb.c:1025), so two processes that insert one key can both succeed;
`UniqueKeys` leaves such keys out. The result of the `tdb_delete` inside a store is ignored
(1043), so without memory to read the old record the key is stored twice, and a store that fails
for want of memory after it (1067) has deleted the old record and lost the space of the new one. `tdb_nextkey` never looks at the last chain
(876). The space of a record that a dying process held is lost.

In snaconfig and the node operator facility: a link that the partner brought up without an answer to
its test is not reset by the timer either (`tested`). Side information with a short name
is defined again by every load (40867), and a query that fails shows an empty table (libnof.c:61). A load never
starts the node although its comment says "define and start node." (sna_load.c:676). The name of a local
LU is never read (326), so a file with two cannot be loaded. Modes, LUs and
side information survive the deletion of their node, and the next load of the same file is
refused. show prints under each node what belongs to the first (sna_show.c:307).

Deadlock checking is off in all runs: the processes may end.

Fairness. Weak fairness of the loop, of the host, of the director, of each
of the two aping programs, of aftpd and of a library call under way: each is one process that is runnable whenever its action is enabled,
and the kernel keeps scheduling it. The same holds of a tdb process in a call
(`fcntl` locks queue, and a step is only enabled when its lock is free: weak fairness was
enough in the run), of aftp, acopy, the tools, anamed and each copy of snaconfig. anamed accepts each
waiting conversation in its turn (strong fairness of `Accepts(c)`, the attach queue being
first-in first-out). A timer that runs goes off (`TimerOf`). Nothing is assumed of users, who may
answer No for ever, of snatchd, which may refuse to start anamed again, of a partner, who need not
answer a disconnection, or of terminals, attaches, children, the callers of the library and the network; so
`CommandEnds` ends where the user is asked, `ClientAnswered` where the server has ended, and
`LinkStops` leaves out the links whose timer was deleted or has nothing to reset.

Several invariants are conjunctions of named parts, and a run checks the whole: `Responsive`,
`Faithful`, `Synchronised`, `CallerTold`, `LimitKept`, `WellFormed`, `AnswersTrue`, `NamesLast`, `SessionTrue`,
`ListsWorked`, `AcopyTrue`, `ProgramsEnd`, `MessageShown`, `CommandDone`, `TablesSound`, `ToldTrue`,
`Progress`. The comment of each part says what it is about; where a part is named in this
text, it is checked as part of its whole. The type invariants of `Tn3270Server` and `Aping`
are proved and have no run.

Faults: an operator marked "Fault:" replaces the definition it stands before, the way a
plausible error in the code would, and makes TLC report the property. Every property has at
least one, and the parts of a conjunction have their own, so that none holds idly.

## 4. Proofs

Every proof module follows Init => IInv, IInv /\ [Next]_vars => IInv', IInv => P,
with one step per action. The constants are arbitrary up to the assumptions named;
the bounds of the runs (calls, commands, outages, clients) are any natural numbers.

`Tn3270dProofs`, for every limit, number of descriptors and set of connections
(`ServerAssumption`): `TypeOK`, `LimitRespected`, `ClientsWatched`, `NoStrayEvent`,
`FdsCounted` and the action property `StaleFdsNeverReused`. None is inductive alone.
That an accepted descriptor is new to `all_fds` needs that no stale one exists then;
this holds because `select()` succeeded at the start of the sweep and a stale
descriptor arises only at the client socket's own turn (`StaleStopsAccepts`). That
the limit bounds the clients needs `Cardinality(client_list) <= client_num`
(`Counted`): the counter is wrong, but wrong on the safe side.

The same module proves `Faithful` of `TelnetStream`, for any runs of data, options and
subnegotiations, any number of items and any cut of the stream. `StreamAssumption` asks that a
run of data is not empty, that a terminal type comes behind IS, and that no subnegotiation
holds an IAC with SE right behind it: behind an escaped IAC the decoder stays in
`HAVE_SB_IAC`, so SE would end the subnegotiation there and the rest would be read as data
(section 3). The invariant `DecodeInv` says where the host is: k items and p bytes of the next
one are read, and what is on the wire is the rest (`Position`; `at[i]` is where item i ends,
counted from the head of the wire, and is negative for what was read). `Decoding` says which
state of `telnet_stream_get_byte` that place asks for and what the buffers hold: between two
bytes of a record or within an escaped one (`InData`, with `Mark` for the places of the
bytes in the escaped run), within a code, or in a subnegotiation (`InSb`, where `Kept` is all
that can be said of `sb_buf`: it is right up to the first IAC, and only that far does
`telnet_stream_host_sb` look). It needs that no record ends that was not begun (`EndsBegun`),
without which the code of the end of record becomes data. A read moves the place by one byte (one lemma per kind of
item: `DataRead`, `CodeRead`, `SbRead`), a send leaves it where it is (`SendsKeeps`), and an empty wire means
that all is read (`AllRead`).

`ApingProofs`, for all integers `Concurrent` and `Iterations`, every set of partner
versions and every width of the counter that can hold `Concurrent`
(`ApingAssumption`): `TypeOK`, `RoundReceived`, `EchoMatches`, `NoVerbRejected`,
`NoConfirmToOldPartner`. The invariant `Phase` says, for each place the client can be
at, where the server is and how the blocks of the round are spread over the sender's
LU, the network and the receiver's count.

`AnamedProofs`, for every set of clients, names and texts (`AnamedAssumption`):
`AnswersTrue` and `NamesLast`. The properties speak of clients whose conversation has
ended; the invariant says what holds of a request on the way, from its acceptance to
the end of the conversation. An answer is compared with what all clients were told before, not with the
database: `Exact` ties the two together (a name that never met a lack of memory is stored,
once, exactly if its registration is the last word on it), and `Since` says how the
histories of the clients lie around it.

`AttachProofs`, for every limit, interval and set of programs (`SnatchdAssumption`):
`LimitKept`, `ChildrenCorrelated`, `StaysRegistered`. The burst bound is over a
log; the invariant `Counting` ties the log to the `count` and `time` that snatchd keeps
of a program: how many of the last launches are within the interval that is being
counted, and that the interval before had fewer than the limit. The bound on starts is
then that of two adjacent intervals. `StaysRegistered` needs that a program which runs beside
a daemon is one of its own or one of an elder (`EldersKnown`), so that no other file can be
released.

The same module proves `MessageShown` and `CommandDone` of the tools that snatchd starts,
for every list of options, text, user, command and output, all sizes of the buffers and
every moment of an outage. `AtellAssumption`, `ArexecAssumption` and `ToolsAssumption` ask
that texts are C strings, that a user fits into a message (11 and 301 bytes in the code),
that the names which `main` sets fit into their fields, and that the mark "side" is no
name. The invariant `ToolsInv` has four parts.

- `VersionsFirst`: until a client has the answer to its version, nothing but the versions
  is on the conversation, so neither side takes one for the first record of the exchange.
- `OutputSpread`: what arexec has printed, what is on its way and what arexecd has yet to send
  are, one behind the other, the output of the command. `Runs` says that of a queue whose
  records may be cut anywhere; a deallocation is in the queue only behind the last unit,
  and only then does arexec end with success.
- `LetterSpread`: atell sends the text, the user if there is one and the server takes it, and
  the deallocation (`Letter`). atelld has read some of these parts, which `message` and `userid`
  tell, and the queue holds the next ones. So a text is never read as a user or the
  other way round, although atelld tells the two apart only by which buffer is empty, and nothing
  is shown before the last part.
- `Directed`: the session, and then the conversation, are those that the partner and the
  options choose. What the loop over the options leaves is proved for every list of
  options, by an induction over its length.

`SnaconfigProofs`, for any number of copies, files, nodes, devices and sizes of the
buffer (`FilesStartGlobal`, `FilesTyped`, `CommandsKnown`, `RoomAssumption`, and
`NamesDiffer` and `DevicesFinite` of `SnaNof`): `TablesSound`, `IdleDeletedClean`,
`ToldTrue`. `TInv` is about the tables and is kept by every request on its own, with nodes that
`sna_cs_create` had no memory for: they have no ports (`PortsServed`); `PInv`
says that a copy runs exactly while it has requests left; `LInv` says that what a
load no longer has to issue is done, and that the tables are finite, so that a
query that got fewer records than it had room for has them all, unless its ioctl failed
and it has none.

`AftpProgramsProofs`, for every set of lines, names, directories and options and every
size of the buffers (`AftpSessionAssumption`, `NamesAssumption`, `AftpClientAssumption`,
`LinesAssumption`: the words of a line are not empty, and the sequence of names is
one): `SessionTrue`, `ListsWorked`, `AcopyTrue`. `SessInv` adds to what is to be shown
that the settings can be shown while aftp runs and that the conversation has the
settings of the session; `ListInv` counts what was tried and passed over against the place
in the list, and says when the user has been asked; `AcopyInv` says that acopy has no
conversation before it connects, comes to `aftp_close` with a file to send only if aftpd answered it,
and has a broken conversation, which it cannot close, after an outage.

`AftpProofs`, for every list of names of any lengths, all contents of the two directories,
every set of blocks and wildcards and any calls and outages (`AftpAssumption`: names
differ from the markers `Home`, `Dot` and the states of `dest_file`, and the directories
hold files of blocks or directories): `Synchronised`, `CallerTold`, `ListedEntriesMatch`,
`OnlyNamedChange`. All four follow from one invariant, `Inv`, because each needs to know
what is in the two queues.

- `Stream`, `InTurn`, `Call`: what is on its way to aftpd is one request or the records of
  one put, it is that of the call under way, and the turn says whether its answer has
  been sent. `Answer` and `FileRecords` say the same of what aftpd sent, so that exactly one
  answer is read by each call.
- `Target`: blocks behind a SEND_FILE name the same file as it; blocks whose SEND_FILE was
  handled go to that file, to no entry, or are those of a put whose handler returned before its
  `open()` (`unopened`). This
  holds after an outage too, when nobody hears of the rest of a put.
- `PutData` and `GetData`: source and destination agree up to the offset that was written;
  the blocks in the queue, then those not yet read, are the rest of the source. At the
  end the destination has the source as a prefix.
- `Believed`: what the caller was told is the server's directory, unless the call under way
  may just have changed it.

A handler of a request changes the conversation like every other (`LoneStep`), so one proof
serves nine of them; the records of a put, whose answers are refused, have `PutStepInv`,
and what aftpd still works through once the conversation is gone has `DrainInv`.

`TdbProofs`, for any number of processes, keys and values, every hash function, every
layout of the file, and any calls, deaths and shortages of memory (`TdbAssumption`):
`WellFormed`, the refinement `IsMap` of `TdbMap`, and `TraversalComplete`. Any process may insert and
replace any key; what is said of keys excepts those in doubt. There are three invariants, each on
top of the one before.

- `IInv`. `WellFormed` alone says nothing of a process between two steps. `Hands` says what it
  may have there: a new record that is on no list, free and long enough; an old one that is on
  no list and still in use; a place on the chain it locked; and that the key it is about to
  link is on no chain or in doubt. `Contests` says that a key which two processes are about to put on its chain is
  in doubt, though only the second of them saw the other. `Apart` says that no two processes have the same record, `Control` and
  `Exclusive` which locks they hold where. Each action is shown to respect what the others
  rely on (`Respects`: records in their hands, chains they locked, the keys of records on
  chains); then no proof has to consider two processes at once. `Mapped` and `Accounted` are
  about maps and lost space: what is on no list is in somebody's hands or among `db.lost`.
- `MapInv` ties the value that a store took from a chain (`prior`) to the two steps in which
  it is neither on the chain nor replaced. A key not in doubt whose chain a process may lock is replaced by
  nobody else, so what the process reads in the file is what the map holds (`InFile`); each
  action is then one of `TdbMap` or leaves its variables alone (`Refined`).
- `TourInv` says where the pointer of a traversal stands (`At`): on the chain it has locked the
  keys before that place are those reported. It moves on with the pointer, and stays true when
  the callback deletes a key that was just reported, or others allocate and free.

Definitions by recursion. The library's induction theorems have an operator as
parameter; `Least` (`LeastOf`) and `SetInduction` prove the same for a set of numbers, and with them
the proofs show that the recursive functions of the models exist and what they
compute: the requests of a file (`Snaconfig`), the list of names in their order and the
probes of `bsearch` in a table that is shorter than it was told (`FoundIsKnown`: a word is found
only if it is in the table), and the records of what a terminal has sent (`HistoryFacts`) and its
escaped bytes (`FlattenFacts`, `EscapeMarks`), and the options of a command line.

Only model-checked: all liveness (`ConnectionAnswered`, `ClientServed`, `QuietTableAnswered`,
`NegotiationEnds`, `BothEnd`, `TakenUp`, `CallReturns`, `ClientAnswered`, `CommandEnds`, `AcopyEnds`,
`ToolEnds`, `LinkStops`), which TLAPS does not reach. Every other property of a passing run is
stated by a theorem.

## 5. Not modelled

The RUI gateway of tn3270d: its verbs go to `RUI()`, which `libsna/lua.h` 430-446 defines as a
function that does nothing, so there is nothing that could go wrong yet. The CPI-C library
(one system call per verb) and the aname client library (fills in a record) keep no state;
the kernel beyond the attach manager and the node operator facility: its session
services are unfinished and would be a project of their own. XML readers and start-up, which
run once; 3270 screens, code pages and what show prints (data); LLC and NetBEUI (third-party).

In `TelnetStream`: the 5250 client side, the write path, records with no data byte, and whether a
record is taken in time (when several come in one read, one is taken per readable event).
A terminal that closes before `accept()` takes its connection is not modelled;
`accept()` would then block the server. In `Snatchd`: user and group changes before exec. In
`Aftp`: the table of sessions, transfers with a block size
or a record length (`asuiterecord_append_twobyte` then reads arguments that nobody
passed), a reconnect of a session that was not closed, and relative paths. In `Tdb`: the death of
a process between two writes of one list operation, read-only opens, a process that
takes the locks in another order (`fcntl` reports a deadlock and the code ignores it),
and a second open in one process. In `SnaNof`: connection networks, directory entries,
inbound links, and two nodes whose names differ only in the network
(`NamesDiffer`; they share an entry of `cs_list`).

## 6. Plan

1. An abstract `ClientSession` that `TelnetStream` implements, and its composition with
   `Tn3270Server`; the write path of the stream.
2. The attach path of the kernel from the resource manager to the attach queue.
