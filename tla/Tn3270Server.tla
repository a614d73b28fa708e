---------------------------- MODULE Tn3270Server ----------------------------
(***************************************************************************)
(* The connection manager of tn3270d (src/tn3270d/tn3270_daemon.c): one    *)
(* process per configured server, a select() loop over the client port,    *)
(* the management port and the connected clients.                          *)
(*                                                                         *)
(* A client_t is identified with its descriptor: client_list is the set    *)
(* of descriptors of the clients on server->client_list.  What a client's  *)
(* top half (telnet negotiation, LU session set-up) and bottom half        *)
(* (reading the client's records) do inside is in TelnetStream; here they  *)
(* are the outcomes the loop tells apart: success, a negative return, and  *)
(* the calls of exit(), _exit() and abort() below them.                    *)
(***************************************************************************)
EXTENDS Integers, FiniteSets

CONSTANTS Conns,        \* connections that remote terminals may open
          NoConn,       \* what an unused descriptor refers to
          Limit,        \* server->limit
          MaxFd,        \* highest descriptor the process may open
          client_sock,  \* the listening descriptors
          manage_sock,
          MaxShortages  \* how often malloc() may fail

ASSUME ServerAssumption ==
    /\ IsFiniteSet(Conns)
    /\ NoConn \notin Conns
    /\ Limit \in Nat
    /\ MaxFd \in Nat
    /\ client_sock \in 3..MaxFd
    /\ manage_sock \in 3..MaxFd
    /\ client_sock # manage_sock
    /\ MaxShortages \in Nat

FDs     == 3..MaxFd
Sockets == {client_sock, manage_sock}

VARIABLES
    alive,          \* the server process has not exited
    pc,             \* "select", "sweep" (the for loop over i) or "sleep"
    readable,       \* the part of select()'s result the sweep has not visited
    all_fds,        \* server->all_fds
    open_fds,       \* server->open_fds
    highest_fd,     \* server->highest_fd
    client_list,    \* descriptors of the clients on server->client_list
    client_num,     \* server->client_num
    sock,           \* kernel: the connection behind each descriptor
    peer,           \* kernel: what became of each connection
    event,          \* kernel: bytes or an end of file wait on the connection
    mgr,            \* kernel: a connection waits on the management port
    fifo,           \* an administrator reads the user table's named pipe
    leaked,         \* descriptors of that pipe that nobody closes any more
    shortages       \* how often malloc() has failed

serverVars == <<all_fds, open_fds, highest_fd, client_list, client_num>>
kernelVars == <<sock, peer, event, mgr>>
tableVars == <<leaked, shortages>>
vars == <<alive, pc, readable, serverVars, kernelVars, fifo, tableVars>>

PeerStates == {"idle", "queued", "up", "refused", "failed", "closed", "reset"}

OpenFds  == Sockets \cup {f \in FDs \ Sockets : sock[f] # NoConn} \cup leaked
FreeFds  == FDs \ OpenFds
StaleFds == all_fds \ OpenFds

Init ==
    /\ alive = TRUE
    /\ pc = "select"
    /\ readable = {}
    /\ all_fds = Sockets
    /\ open_fds = 2
    /\ highest_fd = IF client_sock > manage_sock THEN client_sock ELSE manage_sock
    /\ client_list = {}
    /\ client_num = 0
    /\ sock = [f \in FDs |-> NoConn]
    /\ peer = [c \in Conns |-> "idle"]
    /\ event = [c \in Conns |-> FALSE]
    /\ mgr = FALSE
    /\ fifo = FALSE
    /\ leaked = {}
    /\ shortages = 0

\* malloc() fails.
NoMemory == shortages < MaxShortages /\ shortages' = shortages + 1

-----------------------------------------------------------------------------
(***************************************************************************)
(* The environment: terminals, a management client, an administrator.      *)
(***************************************************************************)
Connect(c) ==
    /\ alive /\ peer[c] = "idle"
    /\ peer' = [peer EXCEPT ![c] = "queued"]
    /\ UNCHANGED <<alive, pc, readable, serverVars, sock, event, mgr, fifo, tableVars>>

PeerEvent(c) ==
    /\ peer[c] = "up" /\ ~event[c]
    /\ event' = [event EXCEPT ![c] = TRUE]
    /\ UNCHANGED <<alive, pc, readable, serverVars, sock, peer, mgr, fifo, tableVars>>

ManagerConnect ==
    /\ alive /\ ~mgr
    /\ mgr' = TRUE
    /\ UNCHANGED <<alive, pc, readable, serverVars, sock, peer, event, fifo, tableVars>>

OpenFifo ==
    /\ alive /\ ~fifo
    /\ fifo' = TRUE
    /\ UNCHANGED <<alive, pc, readable, serverVars, kernelVars, tableVars>>

-----------------------------------------------------------------------------
(***************************************************************************)
(* select().  A closed descriptor below highest_fd + 1 makes it fail with  *)
(* EBADF; otherwise it reports the ready descriptors, or times out.        *)
(***************************************************************************)
HasEvent(f) ==
    \/ f = client_sock /\ \E c \in Conns : peer[c] = "queued"
    \/ f = manage_sock /\ mgr
    \/ f \notin Sockets /\ sock[f] # NoConn /\ event[sock[f]]

Watched == {f \in all_fds : f <= highest_fd}
Ready   == {f \in Watched : HasEvent(f)}

SelectReady ==
    /\ alive /\ pc = "select"
    /\ Watched \subseteq OpenFds
    /\ Ready # {}
    /\ readable' = Ready
    /\ pc' = "sweep"
    /\ UNCHANGED <<alive, serverVars, kernelVars, fifo, tableVars>>

\* Fault: the timer is taken for an error.
SelectTimeoutSleeps ==
    /\ alive /\ pc = "select"
    /\ Watched \subseteq OpenFds
    /\ Ready = {}
    /\ pc' = "sleep"
    /\ UNCHANGED <<alive, readable, serverVars, kernelVars, fifo, tableVars>>

\* The timer has gone off: tn3270_server_user_table_check answers the reader.
\* open() fails when nobody reads or no descriptor is free.
SelectTimeout ==
    /\ alive /\ pc = "select"
    /\ Watched \subseteq OpenFds
    /\ Ready = {}
    /\ fifo' = (fifo /\ FreeFds = {})
    /\ UNCHANGED <<alive, pc, readable, serverVars, kernelVars, tableVars>>

\* There is no memory for the table: the pipe stays open and unanswered.
TableNoMemory ==
    /\ alive /\ pc = "select"
    /\ Watched \subseteq OpenFds
    /\ Ready = {}
    /\ fifo /\ NoMemory
    /\ \E f \in FreeFds : (\A g \in FreeFds : f <= g) /\ leaked' = leaked \cup {f}
    /\ UNCHANGED <<alive, pc, readable, serverVars, kernelVars, fifo>>

\* Fault: an error of select() falls through to the sweep.
SelectFailsIntoSweep ==
    /\ alive /\ pc = "select"
    /\ ~(Watched \subseteq OpenFds)
    /\ readable' = all_fds
    /\ pc' = "sweep"
    /\ UNCHANGED <<alive, serverVars, kernelVars, fifo, tableVars>>

\* Any other error than EINTR: log it and sleep(1).
SelectFails ==
    /\ alive /\ pc = "select"
    /\ ~(Watched \subseteq OpenFds)
    /\ pc' = "sleep"
    /\ UNCHANGED <<alive, readable, serverVars, kernelVars, fifo, tableVars>>

SleepEnds ==
    /\ alive /\ pc = "sleep"
    /\ pc' = "select"
    /\ UNCHANGED <<alive, readable, serverVars, kernelVars, fifo, tableVars>>

-----------------------------------------------------------------------------
(***************************************************************************)
(* The sweep: for (i = 3; i <= highest_fd; i++) over the snapshot.         *)
(***************************************************************************)
Visit(f) ==
    /\ alive /\ pc = "sweep"
    /\ f \in readable
    /\ \A g \in readable : f <= g
    /\ readable' = readable \ {f}
    /\ pc' = pc

SweepEnds ==
    /\ alive /\ pc = "sweep" /\ readable = {}
    /\ pc' = "select"
    /\ UNCHANGED <<alive, readable, serverVars, kernelVars, fifo, tableVars>>

\* Fault: highest_fd is not raised.
CountAndSetLow(f) ==
    /\ open_fds' = open_fds + 1
    /\ all_fds' = all_fds \cup {f}
    /\ highest_fd' = highest_fd

\* tn3270_server_count_and_set_fds
CountAndSet(f) ==
    /\ open_fds' = open_fds + 1
    /\ all_fds' = all_fds \cup {f}
    /\ highest_fd' = IF f > highest_fd THEN f ELSE highest_fd

\* Fault: the counter is not decremented.
CountAndClearUncounted(f) ==
    /\ all_fds' = all_fds \ {f}
    /\ UNCHANGED <<open_fds, highest_fd>>

\* tn3270_server_count_and_clear_fds
CountAndClear(f) ==
    /\ open_fds' = open_fds - 1
    /\ all_fds' = all_fds \ {f}
    /\ highest_fd' = highest_fd

\* accept() hands out the lowest free descriptor for a queued connection.
Accepts(f, c) ==
    /\ f \in FreeFds /\ \A g \in FreeFds : f <= g
    /\ peer[c] = "queued"

\* There is no memory for a client_t, or accept() fails because the descriptor
\* table is full: the connection stays queued.
AcceptError ==
    /\ Visit(client_sock)
    /\ NoMemory \/ (FreeFds = {} /\ UNCHANGED shortages)
    /\ UNCHANGED <<alive, serverVars, kernelVars, fifo, leaked>>

\* Fault: the limit is checked before accept() takes the connection.
AcceptRefusedUnanswered(f, c) ==
    /\ Visit(client_sock)
    /\ client_num + 1 > Limit
    /\ UNCHANGED <<alive, serverVars, kernelVars, fifo, tableVars>>

\* The limit counts every client that was ever accepted; the new one is closed.
AcceptRefused(f, c) ==
    /\ Visit(client_sock)
    /\ Accepts(f, c)
    /\ client_num + 1 > Limit
    /\ peer' = [peer EXCEPT ![c] = "refused"]
    /\ UNCHANGED <<alive, serverVars, sock, event, mgr, fifo, tableVars>>

\* Fault: the limit is off by one.
AcceptClientOverLimit(f, c) ==
    /\ Visit(client_sock)
    /\ Accepts(f, c)
    /\ client_num <= Limit
    /\ client_list' = client_list \cup {f}
    /\ CountAndSet(f)
    /\ client_num' = client_num + 1
    /\ sock' = [sock EXCEPT ![f] = c]
    /\ peer' = [peer EXCEPT ![c] = "up"]
    /\ UNCHANGED <<alive, event, mgr, fifo, tableVars>>

\* tn3270_accept_new_client with a top half that succeeds.
AcceptClient(f, c) ==
    /\ Visit(client_sock)
    /\ Accepts(f, c)
    /\ client_num + 1 <= Limit
    /\ client_list' = client_list \cup {f}
    /\ CountAndSet(f)
    /\ client_num' = client_num + 1
    /\ sock' = [sock EXCEPT ![f] = c]
    /\ peer' = [peer EXCEPT ![c] = "up"]
    /\ UNCHANGED <<alive, event, mgr, fifo, tableVars>>

\* Fault: the client stays on the list when its set-up fails.
AcceptSetupFailsListed(f, c) ==
    /\ Visit(client_sock)
    /\ Accepts(f, c)
    /\ client_num + 1 <= Limit
    /\ client_list' = client_list \cup {f}
    /\ CountAndSet(f)
    /\ client_num' = client_num + 1
    /\ peer' = [peer EXCEPT ![c] = "failed"]
    /\ UNCHANGED <<alive, sock, event, mgr, fifo, tableVars>>

\* The top half returned a negative value: the client leaves the list and its
\* descriptor is closed; the counters and all_fds keep it.
AcceptSetupFails(f, c) ==
    /\ Visit(client_sock)
    /\ Accepts(f, c)
    /\ client_num + 1 <= Limit
    /\ CountAndSet(f)
    /\ client_num' = client_num + 1
    /\ peer' = [peer EXCEPT ![c] = "failed"]
    /\ UNCHANGED <<alive, client_list, sock, event, mgr, fifo, tableVars>>

ManagerIgnored ==
    /\ Visit(manage_sock)
    /\ UNCHANGED <<alive, serverVars, kernelVars, fifo, tableVars>>

\* The bottom half returned 0: the client's bytes are consumed.  A descriptor
\* that no client on the list owns is only logged.
ClientReads(f) ==
    /\ f \notin Sockets
    /\ Visit(f)
    /\ event' = IF f \in client_list THEN [event EXCEPT ![sock[f]] = FALSE] ELSE event
    /\ UNCHANGED <<alive, serverVars, sock, peer, mgr, fifo, tableVars>>

\* Fault: the client leaves the list, its descriptor stays open and watched.
CloseSessionKeepsFd(f) ==
    /\ f \in client_list
    /\ Visit(f)
    /\ client_list' = client_list \ {f}
    /\ UNCHANGED <<alive, all_fds, open_fds, highest_fd, client_num, kernelVars, fifo, tableVars>>

\* The bottom half returned -ECONNABORTED: tn3270_close_session.
CloseSession(f) ==
    /\ f \in client_list
    /\ Visit(f)
    /\ CountAndClear(f)
    /\ client_list' = client_list \ {f}
    /\ sock' = [sock EXCEPT ![f] = NoConn]
    /\ peer' = [peer EXCEPT ![sock[f]] = "closed"]
    /\ event' = [event EXCEPT ![sock[f]] = FALSE]
    /\ UNCHANGED <<alive, client_num, mgr, fifo, tableVars>>

\* The process goes away and the kernel closes its descriptors.
Exits ==
    /\ alive' = FALSE
    /\ sock' = [f \in FDs |-> NoConn]
    /\ peer' = [c \in Conns |-> IF peer[c] \in {"queued", "up"} THEN "reset" ELSE peer[c]]
    /\ leaked' = {}
    /\ UNCHANGED <<serverVars, event, mgr, fifo, shortages>>

\* tn3270_signal_goaway: SIGTERM and SIGINT are never blocked.
SignalGoaway == alive /\ Exits /\ UNCHANGED <<pc, readable>>

\* exit(5) of telnet_stream_write, _exit(-1) of do_select, abort() of
\* tnX_log_assert: one client's top or bottom half ends the whole process.
ClientKillsServer(f) ==
    /\ \/ f \in client_list
       \/ f = client_sock /\ FreeFds # {} /\ client_num + 1 <= Limit
    /\ Visit(f)
    /\ Exits

-----------------------------------------------------------------------------
Environment ==
    \/ \E c \in Conns : Connect(c) \/ PeerEvent(c)
    \/ ManagerConnect
    \/ OpenFifo

Loop ==
    \/ SelectReady \/ SelectTimeout \/ TableNoMemory \/ SelectFails \/ SleepEnds \/ SweepEnds
    \/ AcceptError
    \/ \E f \in FDs, c \in Conns :
          AcceptRefused(f, c) \/ AcceptClient(f, c) \/ AcceptSetupFails(f, c)
    \/ ManagerIgnored
    \/ \E f \in FDs : ClientReads(f) \/ CloseSession(f) \/ ClientKillsServer(f)

Next == Environment \/ Loop \/ SignalGoaway

\* The loop is one runnable process: the kernel keeps scheduling it.
Spec == Init /\ [][Next]_vars /\ WF_vars(Loop)

-----------------------------------------------------------------------------
TypeOK ==
    /\ alive \in BOOLEAN
    /\ pc \in {"select", "sweep", "sleep"}
    /\ readable \subseteq FDs
    /\ all_fds \subseteq FDs
    /\ open_fds \in Nat
    /\ highest_fd \in FDs
    /\ client_list \subseteq FDs \ Sockets
    /\ client_num \in Nat
    /\ sock \in [FDs -> Conns \cup {NoConn}]
    /\ peer \in [Conns -> PeerStates]
    /\ event \in [Conns -> BOOLEAN]
    /\ mgr \in BOOLEAN
    /\ fifo \in BOOLEAN
    /\ leaked \subseteq FDs
    /\ shortages \in 0..MaxShortages

(***************************************************************************)
(* server->limit bounds the clients served at one time, whatever clients   *)
(* come, fail their set-up and go (tn3270_accept_new_client's check).      *)
(***************************************************************************)
LimitRespected == Cardinality(client_list) <= Limit

(***************************************************************************)
(* Every client on the list is watched by select(): its descriptor is open,*)
(* in all_fds and below the highest_fd + 1 that select() is given, and no  *)
(* two clients share a connection.                                         *)
(***************************************************************************)
ClientsWatched ==
    alive => /\ client_list \subseteq Watched \cap OpenFds
             /\ \A f, g \in client_list : sock[f] = sock[g] => f = g
             /\ \A f \in client_list : peer[sock[f]] = "up"

(***************************************************************************)
(* The sweep works on a snapshot that earlier iterations may outdate: it   *)
(* never meets a descriptor that no client owns (the "unknown file         *)
(* descriptor" branch), because a client is closed only at its own index   *)
(* and a new one is not in the snapshot.                                   *)
(***************************************************************************)
NoStrayEvent == alive => readable \subseteq client_list \cup Sockets

(***************************************************************************)
(* open_fds counts the descriptors of all_fds across accepts, failed       *)
(* set-ups and closes.                                                     *)
(***************************************************************************)
FdsCounted == open_fds = Cardinality(all_fds)

StaleFdKept ==
    alive' => /\ StaleFds \subseteq StaleFds'
              /\ StaleFds # {} => client_list' \subseteq client_list

(***************************************************************************)
(* A descriptor is stale when all_fds still holds it after it was closed   *)
(* (a failed set-up).  From then on select() fails for ever: the client    *)
(* list only shrinks and the stale descriptor is never given to a new      *)
(* client, so it is never confused with one.                               *)
(***************************************************************************)
StaleFdsNeverReused == [][StaleFdKept]_vars

Stalled == ~(Watched \subseteq OpenFds)

(***************************************************************************)
(* Every connection that waits on the client port is answered, unless the  *)
(* process exits, its descriptor table is full, or a failed set-up has     *)
(* left a stale descriptor.                                                *)
(***************************************************************************)
ConnectionAnswered ==
    \A c \in Conns :
        peer[c] = "queued" ~> (peer[c] # "queued" \/ Stalled \/ FreeFds = {})

(***************************************************************************)
(* Bytes (or the end of file) of a connected client are read, unless the   *)
(* process exits or a stale descriptor stalls the loop.                    *)
(***************************************************************************)
ClientServed ==
    \A c \in Conns : event[c] ~> (~event[c] \/ Stalled \/ ~alive)

(***************************************************************************)
(* An administrator who reads the user table's named pipe is answered once *)
(* the server is quiet, unless no descriptor is free to open the pipe with:*)
(* tn3270_server_user_table_check runs only when select() times out, which *)
(* one connection on the management port is enough to prevent, because     *)
(* nobody accepts it.                                                      *)
(***************************************************************************)
QuietTableAnswered ==
    <>[](alive /\ Ready = {} /\ ~Stalled) => (fifo ~> ~fifo \/ FreeFds = {})

(***************************************************************************)
(* The server deals with everyone who waits for it: connections, the bytes *)
(* of its clients and the reader of the user table.                        *)
(***************************************************************************)
Responsive == ConnectionAnswered /\ ClientServed /\ QuietTableAnswered
=============================================================================
