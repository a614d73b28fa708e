--------------------------- MODULE Tn3270dProofs ----------------------------
(***************************************************************************)
(* Theorems about the two halves of tn3270d.                               *)
(*                                                                         *)
(* Tn3270Server, for every limit, descriptor table and set of connections. *)
(* None of the safety invariants is inductive alone: that                  *)
(* a new descriptor is not yet in all_fds (FdsCounted) needs that no stale *)
(* descriptor exists when a client is accepted, which holds because select *)
(* has just succeeded (StaleStopsAccepts), and that needs the connection   *)
(* between the list and the kernel's table (ListMatchesKernel).            *)
(*                                                                         *)
(* TelnetStream, for every sequence of what the terminal may send and      *)
(* wherever the stream is cut.  The inductive invariant (DecodeInv) says   *)
(* where the host is in what was sent: after k items and p bytes of the    *)
(* next one (Position), with the decoder in the state, and the buffers with*)
(* the contents, that this place asks for (Decoding).                      *)
(***************************************************************************)
EXTENDS Tn3270Server, TelnetStream, FiniteSetTheorems, SequenceTheorems, NaturalsInduction,
        WellFoundedInduction, TLAPS

\* The open descriptors other than the sockets are exactly the clients'.
ListMatchesKernel ==
    /\ client_list = {f \in FDs \ Sockets : sock[f] # NoConn}
    /\ \A f, g \in client_list : sock[f] = sock[g] => f = g
    /\ \A f \in client_list : peer[sock[f]] = "up"

\* select() is told about everything in all_fds, and all_fds misses nothing.
SetCoversList ==
    /\ client_list \cup Sockets \subseteq all_fds
    /\ \A f \in all_fds : f <= highest_fd

\* The snapshot holds clients and sockets only, and only during a sweep.
SnapshotCurrent ==
    /\ readable \subseteq client_list \cup Sockets
    /\ pc # "sweep" => readable = {}

\* A stale descriptor arises at the client socket's turn, after which the
\* sweep does not come back to it and select() fails.
StaleStopsAccepts == StaleFds # {} => client_sock \notin readable

Counted ==
    /\ open_fds = Cardinality(all_fds)
    /\ Cardinality(client_list) <= client_num
    /\ client_num <= Limit

IInv ==
    /\ TypeOK
    /\ Counted
    /\ alive => ListMatchesKernel /\ SetCoversList /\ SnapshotCurrent /\ StaleStopsAccepts

-----------------------------------------------------------------------------
\* Sets of descriptors are finite, and so is their count.
LEMMA FdSetsFinite ==
    ASSUME NEW S \in SUBSET FDs
    PROVE  IsFiniteSet(S) /\ Cardinality(S) \in Nat
<1>1. IsFiniteSet(3..MaxFd)
  BY FS_Interval, ServerAssumption
<1> QED
  BY <1>1, FS_Subset, FS_CardinalityType DEF FDs

\* What accepting a new descriptor does to the count of a set of descriptors.
LEMMA CountAfterAdd ==
    ASSUME NEW S \in SUBSET FDs, NEW f \in FDs, f \notin S
    PROVE  Cardinality(S \cup {f}) = Cardinality(S) + 1
  BY FdSetsFinite, FS_AddElement

LEMMA CountAfterRemove ==
    ASSUME NEW S \in SUBSET FDs, NEW f \in S
    PROVE  Cardinality(S \ {f}) = Cardinality(S) - 1
  BY FdSetsFinite, FS_RemoveElement

LEMMA SocketFacts ==
    /\ Sockets \subseteq FDs /\ FDs \subseteq Nat
    /\ client_sock \in Sockets /\ manage_sock \in Sockets
    /\ client_sock # manage_sock
  BY ServerAssumption DEF Sockets, FDs

LEMMA InitIInv == Init => IInv
<1> SUFFICES ASSUME Init PROVE IInv
  OBVIOUS
<1> USE ServerAssumption, SocketFacts
<1>1. TypeOK
  <2>1. shortages \in 0..MaxShortages
    BY DEF Init
  <2> QED
    BY <2>1 DEF Init, TypeOK, FDs, Sockets, PeerStates
<1>2. Cardinality(Sockets) = 2
  <2>1. Sockets = {client_sock} \cup {manage_sock}
    BY DEF Sockets
  <2>2. IsFiniteSet({client_sock}) /\ Cardinality({client_sock}) = 1
    BY FS_Singleton
  <2>3. Cardinality({client_sock} \cup {manage_sock}) = Cardinality({client_sock}) + 1
    BY <2>2, FS_AddElement
  <2> QED
    BY <2>1, <2>2, <2>3
<1>3. Counted
  BY <1>2, FS_EmptySet DEF Init, Counted
<1>4. ListMatchesKernel /\ SetCoversList /\ SnapshotCurrent /\ StaleStopsAccepts
  BY DEF Init, ListMatchesKernel, SetCoversList, SnapshotCurrent, StaleStopsAccepts,
         Sockets, FDs
<1> QED
  BY <1>1, <1>3, <1>4 DEF IInv

-----------------------------------------------------------------------------
\* Steps that leave the descriptors and the list alone, including what
\* becomes of a connection that never got a descriptor.
LEMMA QuietStep ==
    ASSUME IInv, alive,
           TypeOK',
           UNCHANGED <<alive, serverVars, sock, leaked>>,
           \A c \in Conns : peer[c] = "up" => peer'[c] = "up",
           SnapshotCurrent',
           client_sock \in readable' => client_sock \in readable \/ StaleFds = {}
    PROVE  IInv'
<1> USE DEF IInv, serverVars
<1>1. Counted'
  BY DEF Counted
<1>2. ListMatchesKernel'
  BY DEF ListMatchesKernel, TypeOK
<1>3. SetCoversList' /\ StaleStopsAccepts'
  BY DEF SetCoversList, StaleStopsAccepts, StaleFds, OpenFds
<1> QED
  BY <1>1, <1>2, <1>3

\* A descriptor that accept() hands out is not in all_fds: no descriptor is
\* stale when the client socket has its turn.
LEMMA AcceptedFdIsNew ==
    ASSUME IInv, Visit(client_sock), NEW f \in FreeFds
    PROVE  /\ f \in FDs \ Sockets
           /\ f \notin all_fds
           /\ f \notin client_list
           /\ StaleFds = {}
  BY SocketFacts DEF IInv, Visit, FreeFds, OpenFds, StaleStopsAccepts, StaleFds,
     ListMatchesKernel, SetCoversList

LEMMA AcceptClientStep ==
    ASSUME IInv, NEW f \in FDs, NEW c \in Conns, AcceptClient(f, c)
    PROVE  IInv'
<1> USE ServerAssumption, SocketFacts
<1>1. /\ Visit(client_sock) /\ f \in FreeFds /\ peer[c] = "queued"
      /\ client_num + 1 <= Limit
      /\ client_list' = client_list \cup {f}
      /\ CountAndSet(f) /\ client_num' = client_num + 1
      /\ sock' = [sock EXCEPT ![f] = c]
      /\ peer' = [peer EXCEPT ![c] = "up"]
      /\ UNCHANGED <<alive, event, mgr, fifo, tableVars>>
  BY DEF AcceptClient, Accepts
<1>2. f \in FDs \ Sockets /\ f \notin all_fds /\ f \notin client_list /\ StaleFds = {}
  BY <1>1, AcceptedFdIsNew
<1>3. TypeOK'
  BY <1>1, <1>2 DEF IInv, TypeOK, Visit, CountAndSet, PeerStates, tableVars
<1>4. Counted'
  <2>1. all_fds \in SUBSET FDs /\ client_list \in SUBSET FDs
    BY DEF IInv, TypeOK
  <2>2. Cardinality(all_fds \cup {f}) = Cardinality(all_fds) + 1
    BY <1>2, <2>1, CountAfterAdd
  <2>3. Cardinality(client_list \cup {f}) = Cardinality(client_list) + 1
    BY <1>2, <2>1, CountAfterAdd
  <2>4. Cardinality(client_list) \in Nat /\ Cardinality(all_fds) \in Nat
    BY <2>1, FdSetsFinite
  <2> QED
    BY <1>1, <2>2, <2>3, <2>4 DEF IInv, TypeOK, Counted, CountAndSet
<1>5. ListMatchesKernel'
  BY <1>1, <1>2 DEF IInv, TypeOK, Visit, ListMatchesKernel
<1>6. SetCoversList'
  BY <1>1, <1>2 DEF IInv, TypeOK, Visit, SetCoversList, CountAndSet
<1>7. SnapshotCurrent'
  BY <1>1 DEF IInv, Visit, SnapshotCurrent
<1>8. StaleStopsAccepts'
  BY <1>1 DEF Visit, StaleStopsAccepts
<1> QED
  BY <1>3, <1>4, <1>5, <1>6, <1>7, <1>8 DEF IInv

LEMMA AcceptSetupFailsStep ==
    ASSUME IInv, NEW f \in FDs, NEW c \in Conns, AcceptSetupFails(f, c)
    PROVE  IInv'
<1> USE ServerAssumption, SocketFacts
<1>1. /\ Visit(client_sock) /\ f \in FreeFds /\ peer[c] = "queued"
      /\ client_num + 1 <= Limit
      /\ CountAndSet(f) /\ client_num' = client_num + 1
      /\ peer' = [peer EXCEPT ![c] = "failed"]
      /\ UNCHANGED <<alive, client_list, sock, event, mgr, fifo, tableVars>>
  BY DEF AcceptSetupFails, Accepts
<1>2. f \in FDs \ Sockets /\ f \notin all_fds
  BY <1>1, AcceptedFdIsNew
<1>3. TypeOK'
  BY <1>1, <1>2 DEF IInv, TypeOK, Visit, CountAndSet, PeerStates, tableVars
<1>4. Counted'
  <2>1. all_fds \in SUBSET FDs /\ client_list \in SUBSET FDs
    BY DEF IInv, TypeOK
  <2>2. Cardinality(all_fds \cup {f}) = Cardinality(all_fds) + 1
    BY <1>2, <2>1, CountAfterAdd
  <2>3. Cardinality(client_list) \in Nat /\ Cardinality(all_fds) \in Nat
    BY <2>1, FdSetsFinite
  <2> QED
    BY <1>1, <2>2, <2>3 DEF IInv, TypeOK, Counted, CountAndSet
<1>5. ListMatchesKernel'
  BY <1>1, <1>2 DEF IInv, TypeOK, Visit, ListMatchesKernel
<1>6. SetCoversList'
  BY <1>1, <1>2 DEF IInv, TypeOK, Visit, SetCoversList, CountAndSet
<1>7. SnapshotCurrent'
  BY <1>1 DEF IInv, Visit, SnapshotCurrent
<1>8. StaleStopsAccepts'
  BY <1>1 DEF Visit, StaleStopsAccepts
<1> QED
  BY <1>3, <1>4, <1>5, <1>6, <1>7, <1>8 DEF IInv

\* A descriptor that the user table leaks was closed and not in all_fds, since
\* select() has just succeeded.
LEMMA TableNoMemoryStep ==
    ASSUME IInv, TableNoMemory
    PROVE  IInv'
<1> USE ServerAssumption, SocketFacts DEF serverVars, kernelVars
<1>1. PICK f \in FreeFds : leaked' = leaked \cup {f}
  BY DEF TableNoMemory
<1>2. /\ alive /\ pc = "select" /\ Watched \subseteq OpenFds /\ shortages' \in 0..MaxShortages
      /\ UNCHANGED <<alive, pc, readable, all_fds, open_fds, highest_fd, client_list, client_num, sock, peer, event, mgr, fifo>>
  BY DEF TableNoMemory, NoMemory, IInv, TypeOK
<1>3. TypeOK'
  BY <1>1, <1>2 DEF IInv, TypeOK, FreeFds
<1>4. Counted' /\ ListMatchesKernel' /\ SetCoversList' /\ SnapshotCurrent'
  BY <1>2 DEF IInv, Counted, ListMatchesKernel, SetCoversList, SnapshotCurrent
<1>5. StaleStopsAccepts'
  BY <1>2 DEF IInv, SnapshotCurrent, StaleStopsAccepts
<1> QED
  BY <1>3, <1>4, <1>5 DEF IInv

LEMMA CloseSessionStep ==
    ASSUME IInv, NEW f \in FDs, CloseSession(f)
    PROVE  IInv'
<1> USE ServerAssumption, SocketFacts
<1>1. /\ f \in client_list /\ Visit(f) /\ CountAndClear(f)
      /\ client_list' = client_list \ {f}
      /\ sock' = [sock EXCEPT ![f] = NoConn]
      /\ peer' = [peer EXCEPT ![sock[f]] = "closed"]
      /\ event' = [event EXCEPT ![sock[f]] = FALSE]
      /\ UNCHANGED <<alive, client_num, mgr, fifo, tableVars>>
  BY DEF CloseSession
<1>2. f \in all_fds /\ f \notin Sockets /\ sock[f] \in Conns
  BY <1>1 DEF IInv, TypeOK, Visit, ListMatchesKernel, SetCoversList
<1>3. Counted'
  <2>1. all_fds \in SUBSET FDs /\ client_list \in SUBSET FDs /\ Counted
    BY DEF IInv, TypeOK
  <2>2. all_fds' = all_fds \ {f} /\ client_list' = client_list \ {f} /\ open_fds' = open_fds - 1
    BY <1>1 DEF CountAndClear
  <2>3. Cardinality(all_fds') = Cardinality(all_fds) - 1 /\ Cardinality(client_list') = Cardinality(client_list) - 1
    BY <1>1, <1>2, <2>1, <2>2, CountAfterRemove
  <2>4. Cardinality(client_list) \in Nat /\ client_num \in Nat
    BY <2>1, FdSetsFinite DEF IInv, TypeOK
  <2> QED
    BY <1>1, <2>1, <2>2, <2>3, <2>4 DEF Counted
<1>4. TypeOK'
  <2>1. open_fds' \in Nat
    <3>1. all_fds' \in SUBSET FDs
      BY <1>1 DEF IInv, TypeOK, CountAndClear
    <3> QED
      BY <1>3, <3>1, FdSetsFinite DEF Counted
  <2> QED
    BY <1>1, <1>2, <2>1 DEF IInv, TypeOK, Visit, CountAndClear, PeerStates, tableVars
<1>5. ListMatchesKernel'
  BY <1>1, <1>2 DEF IInv, TypeOK, Visit, ListMatchesKernel
<1>6. SetCoversList'
  BY <1>1, <1>2 DEF IInv, TypeOK, Visit, SetCoversList, CountAndClear
<1>7. SnapshotCurrent'
  BY <1>1 DEF IInv, Visit, SnapshotCurrent
<1>8. StaleStopsAccepts'
  <2>1. StaleFds' \subseteq StaleFds
    BY <1>1, <1>2 DEF IInv, TypeOK, StaleFds, OpenFds, CountAndClear, tableVars
  <2> QED
    BY <1>1, <2>1 DEF IInv, Visit, StaleStopsAccepts
<1> QED
  BY <1>3, <1>4, <1>5, <1>6, <1>7, <1>8 DEF IInv

\* The process exits: nothing is claimed of a dead server but its counters.
LEMMA ExitStep ==
    ASSUME IInv, Exits, pc' \in {"select", "sweep", "sleep"}, readable' \subseteq FDs
    PROVE  IInv'
<1>1. TypeOK'
  BY DEF IInv, TypeOK, Exits, serverVars, PeerStates
<1>2. Counted'
  BY DEF IInv, Counted, Exits, serverVars
<1> QED
  BY <1>1, <1>2 DEF IInv, Exits

-----------------------------------------------------------------------------
LEMMA EnvironmentIInv ==
    ASSUME IInv, Environment PROVE IInv'
<1> USE DEF IInv, serverVars, kernelVars, tableVars
<1>1. CASE \E c \in Conns : Connect(c)
  <2>1. PICK c \in Conns : Connect(c)
    BY <1>1
  <2>2. TypeOK'
    BY <2>1 DEF Connect, TypeOK, PeerStates
  <2> QED
    BY <2>1, <2>2, QuietStep DEF Connect, TypeOK, SnapshotCurrent
<1>2. CASE \E c \in Conns : PeerEvent(c)
  <2>1. PICK c \in Conns : PeerEvent(c)
    BY <1>2
  <2>2. TypeOK'
    BY <2>1 DEF PeerEvent, TypeOK
  <2>3. CASE alive
    BY <2>1, <2>2, <2>3, QuietStep DEF PeerEvent, TypeOK, SnapshotCurrent
  <2>4. CASE ~alive
    BY <2>1, <2>2, <2>4 DEF PeerEvent, Counted
  <2> QED
    BY <2>3, <2>4
<1>3. CASE ManagerConnect
  BY <1>3, QuietStep DEF ManagerConnect, TypeOK, SnapshotCurrent
<1>4. CASE OpenFifo
  BY <1>4, QuietStep DEF OpenFifo, TypeOK, SnapshotCurrent
<1> QED
  BY <1>1, <1>2, <1>3, <1>4 DEF Environment

LEMMA LoopIInv ==
    ASSUME IInv, Loop PROVE IInv'
<1> USE SocketFacts
<1>1. CASE SelectReady
  <2>1. Ready \subseteq client_list \cup Sockets
    <3>1. \A f \in Ready : f \in Sockets \/ (f \in FDs /\ sock[f] # NoConn)
      BY <1>1 DEF Ready, Watched, HasEvent, Sockets, IInv, TypeOK
    <3> QED
      BY <1>1, <3>1 DEF SelectReady, IInv, ListMatchesKernel
  <2>2. StaleFds = {}
    BY <1>1 DEF SelectReady, Watched, StaleFds, IInv, SetCoversList
  <2>3. TypeOK'
    BY <1>1 DEF SelectReady, IInv, TypeOK, Ready, Watched, serverVars, kernelVars, tableVars
  <2> QED
    BY <1>1, <2>1, <2>2, <2>3, QuietStep
    DEF SelectReady, SnapshotCurrent, IInv, serverVars, kernelVars, tableVars
<1>2. CASE SelectTimeout \/ SelectFails \/ SleepEnds \/ SweepEnds
  <2>1. TypeOK'
    BY <1>2 DEF SelectTimeout, SelectFails, SleepEnds, SweepEnds, IInv, TypeOK,
                serverVars, kernelVars, tableVars
  <2> QED
    BY <1>2, <2>1, QuietStep DEF SelectTimeout, SelectFails, SleepEnds, SweepEnds,
       SnapshotCurrent, IInv, serverVars, kernelVars, tableVars
<1>3. CASE AcceptError \/ ManagerIgnored
  <2>1. TypeOK'
    <3>1. shortages' \in 0..MaxShortages
      BY <1>3, ServerAssumption DEF AcceptError, ManagerIgnored, IInv, TypeOK, NoMemory, tableVars
    <3> QED
      BY <1>3, <3>1 DEF AcceptError, ManagerIgnored, Visit, IInv, TypeOK, serverVars, kernelVars, tableVars
  <2> QED
    BY <1>3, <2>1, QuietStep DEF AcceptError, ManagerIgnored, Visit,
       SnapshotCurrent, IInv, serverVars, kernelVars, tableVars
<1>4. CASE \E f \in FDs, c \in Conns : AcceptRefused(f, c)
  <2>1. PICK f \in FDs, c \in Conns : AcceptRefused(f, c)
    BY <1>4
  <2>2. TypeOK'
    BY <2>1 DEF AcceptRefused, Visit, IInv, TypeOK, serverVars, PeerStates, tableVars
  <2>3. \A d \in Conns : peer[d] = "up" => peer'[d] = "up"
    BY <2>1 DEF AcceptRefused, Accepts, IInv, TypeOK
  <2> QED
    BY <2>1, <2>2, <2>3, QuietStep DEF AcceptRefused, Visit, SnapshotCurrent, IInv, serverVars, tableVars
<1>5. CASE \E f \in FDs, c \in Conns : AcceptClient(f, c)
  BY <1>5, AcceptClientStep
<1>6. CASE \E f \in FDs, c \in Conns : AcceptSetupFails(f, c)
  BY <1>6, AcceptSetupFailsStep
<1>7. CASE \E f \in FDs : ClientReads(f)
  <2>1. PICK f \in FDs : ClientReads(f)
    BY <1>7
  <2>2. TypeOK'
    BY <2>1 DEF ClientReads, Visit, IInv, TypeOK, serverVars, tableVars
  <2> QED
    BY <2>1, <2>2, QuietStep DEF ClientReads, Visit, SnapshotCurrent, IInv, serverVars, tableVars
<1>8. CASE \E f \in FDs : CloseSession(f)
  BY <1>8, CloseSessionStep
<1>9. CASE \E f \in FDs : ClientKillsServer(f)
  BY <1>9, ExitStep DEF ClientKillsServer, Visit, IInv, TypeOK
<1>10. CASE TableNoMemory
  BY <1>10, TableNoMemoryStep
<1> QED
  BY <1>1, <1>2, <1>3, <1>4, <1>5, <1>6, <1>7, <1>8, <1>9, <1>10 DEF Loop

LEMMA NextIInv == IInv /\ [Next]_vars => IInv'
<1> SUFFICES ASSUME IInv, [Next]_vars PROVE IInv'
  OBVIOUS
<1>1. CASE Environment
  BY <1>1, EnvironmentIInv
<1>2. CASE Loop
  BY <1>2, LoopIInv
<1>3. CASE SignalGoaway
  BY <1>3, ExitStep DEF SignalGoaway, IInv, TypeOK
<1>4. CASE UNCHANGED vars
  BY <1>4 DEF vars, serverVars, kernelVars, tableVars, IInv, TypeOK, Counted, ListMatchesKernel,
              SetCoversList, SnapshotCurrent, StaleStopsAccepts, StaleFds, OpenFds
<1> QED
  BY <1>1, <1>2, <1>3, <1>4 DEF Next

-----------------------------------------------------------------------------
\* The inductive invariant holds of every reachable state of the server.
THEOREM ServerInvariant == Spec => []IInv
  BY InitIInv, NextIInv, PTL DEF Spec

\* tn3270d's server state is well typed in every reachable state.
THEOREM ServerTyped == Spec => []TypeOK
<1>1. IInv => TypeOK
  BY DEF IInv
<1> QED
  BY <1>1, ServerInvariant, PTL

\* However clients come, fail their set-up and go, no more than server->limit
\* of them are served at one time.
THEOREM ServerLimit == Spec => []LimitRespected
<1>1. IInv => LimitRespected
  <2> SUFFICES ASSUME IInv PROVE LimitRespected
    OBVIOUS
  <2>1. Cardinality(client_list) \in Nat
    BY FdSetsFinite DEF IInv, TypeOK
  <2> QED
    BY <2>1, ServerAssumption DEF IInv, TypeOK, Counted, LimitRespected
<1> QED
  BY <1>1, ServerInvariant, PTL

\* Every client on the list is one select() watches, with a connection of its
\* own that is up.
THEOREM ServerWatchesClients == Spec => []ClientsWatched
<1>1. IInv => ClientsWatched
  BY DEF IInv, TypeOK, ClientsWatched, ListMatchesKernel, SetCoversList, Watched, OpenFds
<1> QED
  BY <1>1, ServerInvariant, PTL

\* The sweep over a snapshot of ready descriptors never meets one that no
\* client owns.
THEOREM ServerNoStrayEvent == Spec => []NoStrayEvent
<1>1. IInv => NoStrayEvent
  BY DEF IInv, NoStrayEvent, SnapshotCurrent
<1> QED
  BY <1>1, ServerInvariant, PTL

\* open_fds is the number of descriptors in all_fds.
THEOREM ServerFdsCounted == Spec => []FdsCounted
<1>1. IInv => FdsCounted
  BY DEF IInv, Counted, FdsCounted
<1> QED
  BY <1>1, ServerInvariant, PTL

\* A step with no accept keeps the descriptors that are stale.
LEMMA StaleWithoutAccept ==
    ASSUME all_fds' = all_fds, sock' = sock, client_list' = client_list, leaked' = leaked
    PROVE  StaleFdKept
  BY DEF StaleFdKept, StaleFds, OpenFds

LEMMA StepKeepsStale == IInv /\ [Next]_vars => [StaleFdKept]_vars
<1> SUFFICES ASSUME IInv, Next PROVE StaleFdKept
  OBVIOUS
<1> USE SocketFacts DEF serverVars, kernelVars, tableVars
<1>1. CASE Environment
  BY <1>1, StaleWithoutAccept
  DEF Environment, Connect, PeerEvent, ManagerConnect, OpenFifo
<1>2. CASE SelectReady \/ SelectTimeout \/ SelectFails \/ SleepEnds \/ SweepEnds
  BY <1>2, StaleWithoutAccept
  DEF SelectReady, SelectTimeout, SelectFails, SleepEnds, SweepEnds
<1>3. CASE AcceptError \/ ManagerIgnored
  BY <1>3, StaleWithoutAccept DEF AcceptError, ManagerIgnored
<1>4. CASE \E f \in FDs, c \in Conns : AcceptRefused(f, c)
  BY <1>4, StaleWithoutAccept DEF AcceptRefused
<1>5. ASSUME NEW f \in FDs, NEW c \in Conns,
             AcceptClient(f, c) \/ AcceptSetupFails(f, c)
      PROVE  StaleFdKept
  <2>1. StaleFds = {}
    BY <1>5, AcceptedFdIsNew DEF AcceptClient, AcceptSetupFails, Accepts
  <2> QED
    BY <2>1 DEF StaleFdKept
<1>6. CASE \E f \in FDs : ClientReads(f)
  BY <1>6, StaleWithoutAccept DEF ClientReads
<1>7. ASSUME NEW f \in FDs, CloseSession(f)
      PROVE  StaleFdKept
  <2>1. f \in client_list /\ all_fds' = all_fds \ {f} /\ client_list' = client_list \ {f}
        /\ sock' = [sock EXCEPT ![f] = NoConn] /\ alive /\ leaked' = leaked
    BY <1>7 DEF CloseSession, CountAndClear, Visit
  <2>2. f \notin StaleFds
    BY <2>1 DEF IInv, ListMatchesKernel, StaleFds, OpenFds
  <2>3. \A g \in FDs : g # f => sock'[g] = sock[g]
    BY <2>1 DEF IInv, TypeOK
  <2>4. StaleFds \subseteq StaleFds'
    BY <2>1, <2>2, <2>3 DEF IInv, TypeOK, StaleFds, OpenFds
  <2> QED
    BY <2>1, <2>4 DEF StaleFdKept
<1>8. CASE SignalGoaway \/ \E f \in FDs : ClientKillsServer(f)
  BY <1>8 DEF SignalGoaway, ClientKillsServer, Exits, StaleFdKept
<1>9. CASE TableNoMemory
  <2>1. StaleFds = {} /\ all_fds' = all_fds /\ client_list' = client_list
    BY <1>9 DEF TableNoMemory, Watched, StaleFds, IInv, SetCoversList
  <2> QED
    BY <2>1 DEF StaleFdKept
<1> QED
  BY <1>1, <1>2, <1>3, <1>4, <1>5, <1>6, <1>7, <1>8, <1>9 DEF Next, Loop

\* After a failed set-up the stale descriptor stays out of the hands of new
\* clients: the loop accepts nobody any more.
THEOREM ServerStaleFds == Spec => StaleFdsNeverReused
  BY ServerInvariant, StepKeepsStale, PTL DEF Spec, StaleFdsNeverReused

-----------------------------------------------------------------------------
\* Every set of naturals that is not empty has a least member.
LEMMA Least ==
    ASSUME NEW T \in SUBSET Nat, T # {}
    PROVE  \E x \in T : \A y \in T : x <= y
  <1> DEFINE R == OpToRel(<, Nat)
  <1>1. IsWellFoundedOn(R, Nat)
    BY NatLessThanWellFounded
  <1>2. \A a, b \in Nat : a < b => <<a, b>> \in R
    BY DEF OpToRel
  <1> HIDE DEF R
  <1>3. PICK x \in T : \A y \in T : ~(<<y, x>> \in R)
    BY <1>1, WFMin
  <1>4. ASSUME NEW y \in T PROVE x <= y
    <2>1. ~(y < x)
      BY <1>2, <1>3
    <2>2. x \in Nat /\ y \in Nat
      OBVIOUS
    <2> QED
      BY <2>1, <2>2
  <1> QED
    BY <1>4

\* Induction, with a set in the place of a predicate.
LEMMA SetInduction ==
    ASSUME NEW S, 0 \in S, \A n \in Nat : n \in S => n + 1 \in S
    PROVE  Nat \subseteq S
  <1> SUFFICES ASSUME Nat \ S # {} PROVE FALSE
    OBVIOUS
  <1>1. PICK x \in Nat \ S : \A y \in Nat \ S : x <= y
    BY Least
  <1>2. x # 0 /\ x - 1 \in Nat
    BY <1>1
  <1>3. x - 1 \in S
    BY <1>1, <1>2
  <1> QED
    BY <1>1, <1>2, <1>3

\* A recursion over an interval, given by a function for each step ...
Solves(f, N, st) == \A i \in 1 .. N : f[i] = st[i][f[i - 1]]

\* ... has a solution.
LEMMA RecursionExists ==
    ASSUME NEW V, NEW b \in V, NEW N \in Nat, NEW st \in [1 .. N -> [V -> V]]
    PROVE  \E f : f \in [0 .. N -> V] /\ f[0] = b /\ Solves(f, N, st)
  <1> DEFINE Upto(g, n) == g[0] = b /\ \A i \in 1 .. N : i <= n => g[i] = st[i][g[i - 1]]
             P == {n \in Nat : \E g \in [0 .. N -> V] : Upto(g, n)}
  <1>1. 0 \in P
    <2>1. [i \in 0 .. N |-> b] \in [0 .. N -> V] /\ Upto([i \in 0 .. N |-> b], 0)
      OBVIOUS
    <2> QED
      BY <2>1
  <1>2. ASSUME NEW n \in Nat, n \in P PROVE n + 1 \in P
    <2>1. PICK g \in [0 .. N -> V] : Upto(g, n)
      BY <1>2
    <2> DEFINE h == [i \in 0 .. N |-> IF i = 0 THEN b ELSE st[i][g[i - 1]]]
    <2>2. h \in [0 .. N -> V]
      <3>1. ASSUME NEW i \in 0 .. N, i # 0 PROVE st[i][g[i - 1]] \in V
        <4>1. i \in 1 .. N /\ i - 1 \in 0 .. N
          BY <3>1
        <4> QED
          BY <4>1
      <3> QED
        BY <3>1
    <2>3. ASSUME NEW i \in 1 .. N, i <= n + 1 PROVE h[i] = st[i][h[i - 1]]
      <3>1. i \in 0 .. N /\ i # 0 /\ i - 1 \in 0 .. N
        OBVIOUS
      <3>2. h[i] = st[i][g[i - 1]]
        BY <3>1
      <3>3. h[i - 1] = g[i - 1]
        <4>1. CASE i - 1 = 0
          BY <2>1, <3>1, <4>1
        <4>2. CASE i - 1 # 0
          <5>1. i - 1 \in 1 .. N /\ i - 1 <= n
            BY <2>3, <4>2
          <5>2. g[i - 1] = st[i - 1][g[(i - 1) - 1]]
            BY <2>1, <5>1
          <5> QED
            BY <3>1, <4>2, <5>2
        <4> QED
          BY <4>1, <4>2
      <3> QED
        BY <3>2, <3>3
    <2>4. h[0] = b
      OBVIOUS
    <2> HIDE DEF h
    <2>5. Upto(h, n + 1)
      BY <2>3, <2>4
    <2> QED
      BY <2>2, <2>5
  <1>3. N \in P
    <2> HIDE DEF P
    <2> QED
      BY <1>1, <1>2, SetInduction
  <1>4. PICK g \in [0 .. N -> V] : Upto(g, N)
    BY <1>3
  <1> QED
    BY <1>4 DEF Solves

\* FlattenSeq puts the sequences one behind the other.
LEMMA FlattenFacts ==
    ASSUME NEW S, NEW ss \in Seq(Seq(S))
    PROVE  \E f \in [0 .. Len(ss) -> Seq(S)] :
              /\ f[0] = <<>> /\ \A i \in 1 .. Len(ss) : f[i] = f[i - 1] \o ss[i]
              /\ FlattenSeq(ss) = f[Len(ss)]
  <1> DEFINE N == Len(ss)
             st == [i \in 1 .. N |-> [v \in Seq(S) |-> v \o ss[i]]]
             fl == CHOOSE g : g = [i \in 1 .. N |-> IF i = 1 THEN ss[i] ELSE g[i - 1] \o ss[i]]
  <1>1. N \in Nat /\ \A i \in 1 .. N : ss[i] \in Seq(S)
    OBVIOUS
  <1>2. st \in [1 .. N -> [Seq(S) -> Seq(S)]]
    <2>1. ASSUME NEW i \in 1 .. N, NEW v \in Seq(S) PROVE v \o ss[i] \in Seq(S)
      BY <1>1, ConcatProperties
    <2> QED
      BY <2>1
  <1>3. <<>> \in Seq(S)
    OBVIOUS
  <1>4. PICK f \in [0 .. N -> Seq(S)] : f[0] = <<>> /\ \A i \in 1 .. N : f[i] = st[i][f[i - 1]]
    <2> HIDE DEF st, N
    <2>1. \E f : f \in [0 .. N -> Seq(S)] /\ f[0] = <<>> /\ Solves(f, N, st)
      BY <1>1, <1>2, <1>3, RecursionExists, Zenon
    <2> QED
      BY <2>1 DEF Solves
  <1>5. \A i \in 1 .. N : f[i - 1] \in Seq(S) /\ f[i] = f[i - 1] \o ss[i]
    <2> SUFFICES ASSUME NEW i \in 1 .. N PROVE f[i - 1] \in Seq(S) /\ f[i] = f[i - 1] \o ss[i]
      OBVIOUS
    <2>1. i - 1 \in 0 .. N
      BY <1>1
    <2> HIDE DEF N
    <2> QED
      BY <1>4, <2>1
  <1>6. N # 0 => f[1] = ss[1]
    <2> SUFFICES ASSUME N # 0 PROVE f[1] = ss[1]
      OBVIOUS
    <2>1. 1 \in 1 .. N /\ 1 - 1 = 0
      BY <1>1
    <2>2. f[1] = <<>> \o ss[1]
      BY <1>4, <1>5, <2>1
    <2>3. ss[1] \in Seq(S)
      BY <1>1, <2>1
    <2> QED
      BY <2>2, <2>3, ConcatEmptySeq
  <1> DEFINE w == [i \in 1 .. N |-> f[i]]
  <1>7. w = [i \in 1 .. N |-> IF i = 1 THEN ss[i] ELSE w[i - 1] \o ss[i]]
    <2> SUFFICES ASSUME NEW i \in 1 .. N PROVE w[i] = IF i = 1 THEN ss[i] ELSE w[i - 1] \o ss[i]
      OBVIOUS
    <2>1. CASE i = 1
      BY <1>6, <2>1
    <2>2. CASE i # 1
      <3>1. i - 1 \in 1 .. N
        BY <1>1, <2>2
      <3> QED
        BY <1>5, <2>2, <3>1
    <2> QED
      BY <2>1, <2>2
  <1> HIDE DEF w
  <1>8. fl = [i \in 1 .. N |-> IF i = 1 THEN ss[i] ELSE fl[i - 1] \o ss[i]]
    BY <1>7
  <1> HIDE DEF fl
  <1>9. \A n \in Nat : n + 1 <= N => fl[n + 1] = f[n + 1]
    <2> DEFINE P == {n \in Nat : n + 1 <= N => fl[n + 1] = f[n + 1]}
    <2>1. 0 \in P
      <3>1. ASSUME 1 <= N PROVE fl[1] = f[1]
        <4>1. 1 \in 1 .. N /\ N # 0
          BY <1>1, <3>1
        <4> HIDE DEF N
        <4> QED
          BY <1>6, <1>8, <4>1
      <3> QED
        BY <3>1
    <2>2. ASSUME NEW n \in Nat, n \in P PROVE n + 1 \in P
      <3> SUFFICES ASSUME (n + 1) + 1 <= N PROVE fl[(n + 1) + 1] = f[(n + 1) + 1]
        OBVIOUS
      <3> DEFINE m == (n + 1) + 1
      <3>1. m \in 1 .. N /\ m # 1 /\ m - 1 = n + 1 /\ n + 1 <= N
        BY <1>1
      <3>2. fl[m - 1] = f[m - 1]
        BY <2>2, <3>1
      <3> HIDE DEF N, m
      <3>3. fl[m] = f[m]
        BY <1>5, <1>8, <3>1, <3>2
      <3> QED
        BY <3>3 DEF m
    <2> HIDE DEF P
    <2>3. Nat \subseteq P
      BY <2>1, <2>2, SetInduction
    <2> QED
      BY <2>3 DEF P
  <1>10. FlattenSeq(ss) = f[N]
    <2>1. CASE N = 0
      <3>1. FlattenSeq(ss) = ss
        BY <2>1 DEF FlattenSeq
      <3>2. ss = <<>>
        BY <2>1, EmptySeq
      <3> QED
        BY <1>4, <2>1, <3>1, <3>2
    <2>2. CASE N # 0
      <3>1. FlattenSeq(ss) = fl[N]
        BY <2>2 DEF FlattenSeq, fl
      <3>2. N - 1 \in Nat /\ (N - 1) + 1 = N /\ N <= N
        BY <1>1, <2>2
      <3>3. fl[(N - 1) + 1] = f[(N - 1) + 1]
        <4> HIDE DEF N
        <4> QED
          BY <1>9, <3>2
      <3> QED
        BY <3>1, <3>2, <3>3
    <2> QED
      BY <2>1, <2>2
  <1> QED
    BY <1>4, <1>5, <1>10

\* Sequence b goes on where a ends.
Starts(a, b) == Len(a) <= Len(b) /\ \A j \in 1 .. Len(a) : b[j] = a[j]

\* Starts is transitive, ...
LEMMA StartsTransitive ==
    ASSUME NEW S, NEW a \in Seq(S), NEW b \in Seq(S), NEW c \in Seq(S), Starts(a, b), Starts(b, c)
    PROVE  Starts(a, c)
  <1>1. Len(a) \in Nat /\ Len(b) \in Nat /\ Len(c) \in Nat /\ Len(a) <= Len(b) /\ Len(b) <= Len(c)
    BY DEF Starts
  <1>2. ASSUME NEW j \in 1 .. Len(a) PROVE c[j] = a[j]
    <2>1. j \in 1 .. Len(b)
      BY <1>1
    <2> QED
      BY <2>1 DEF Starts
  <1> QED
    BY <1>1, <1>2 DEF Starts

\* ... and holds of a sequence and the same with more behind it.
LEMMA StartsConcat ==
    ASSUME NEW S, NEW a \in Seq(S), NEW b \in Seq(S)
    PROVE  Starts(a, a \o b)
  <1>1. Len(a) \in Nat /\ Len(b) \in Nat /\ Len(a \o b) = Len(a) + Len(b)
        /\ \A j \in 1 .. Len(a) : (a \o b)[j] = a[j]
    BY ConcatProperties
  <1> QED
    BY <1>1 DEF Starts

\* Each of a row of sequences that grow starts the later ones.
LEMMA ChainStarts ==
    ASSUME NEW S, NEW N \in Nat, NEW f \in [0 .. N -> Seq(S)],
           \A i \in 1 .. N : Starts(f[i - 1], f[i])
    PROVE  \A i, j \in 0 .. N : i <= j => Starts(f[i], f[j])
  <1> SUFFICES ASSUME NEW q \in 0 .. N
               PROVE  \A j \in 0 .. N : q <= j => Starts(f[q], f[j])
    OBVIOUS
  <1> DEFINE P == {n \in Nat : q + n <= N => Starts(f[q], f[q + n])}
  <1>1. 0 \in P
    <2>1. q + 0 = q /\ f[q] \in Seq(S)
      OBVIOUS
    <2> QED
      BY <2>1 DEF Starts
  <1>2. ASSUME NEW n \in Nat, n \in P PROVE n + 1 \in P
    <2> SUFFICES ASSUME q + (n + 1) <= N PROVE Starts(f[q], f[q + (n + 1)])
      OBVIOUS
    <2> DEFINE m == q + (n + 1)
    <2>1. m \in 1 .. N /\ m - 1 = q + n /\ q + n <= N /\ m \in 0 .. N /\ m - 1 \in 0 .. N
      OBVIOUS
    <2>2. Starts(f[q], f[m - 1])
      BY <1>2, <2>1
    <2> HIDE DEF m
    <2>3. Starts(f[m - 1], f[m])
      BY <2>1
    <2>4. f[q] \in Seq(S) /\ f[m - 1] \in Seq(S) /\ f[m] \in Seq(S)
      BY <2>1
    <2>5. Starts(f[q], f[m])
      BY <2>2, <2>3, <2>4, StartsTransitive
    <2> QED
      BY <2>5 DEF m
  <1>3. ASSUME NEW j \in 0 .. N, q <= j PROVE Starts(f[q], f[j])
    <2>1. j - q \in Nat /\ q + (j - q) = j /\ j <= N
      BY <1>3
    <2>2. j - q \in P
      <3> HIDE DEF P
      <3> QED
        BY <1>1, <1>2, <2>1, SetInduction
    <2> QED
      BY <2>1, <2>2
  <1> QED
    BY <1>3

-----------------------------------------------------------------------------
(***************************************************************************)
(* What is sent.                                                           *)
(***************************************************************************)
\* Where the bytes are in the escaped ones: the first q end at m[q].
Marked(bytes, m) ==
    /\ m \in [0 .. Len(bytes) -> Nat] /\ m[0] = 0 /\ m[Len(bytes)] = Len(Escape(bytes))
    /\ \A q \in 1 .. Len(bytes) :
          /\ m[q] = m[q - 1] + Len(Escaped(bytes[q])) /\ m[q] <= Len(Escape(bytes))
          /\ \A j \in 1 .. Len(Escaped(bytes[q])) : Escape(bytes)[m[q - 1] + j] = Escaped(bytes[q])[j]
Mark(bytes) == CHOOSE m : Marked(bytes, m)

\* A byte is escaped by itself and in no other way.
LEMMA EscapedFacts ==
    ASSUME NEW S, NEW b \in S
    PROVE  Escaped(b) \in Seq(S) /\ Len(Escaped(b)) = (IF b = "IAC" THEN 2 ELSE 1)
           /\ \A j \in 1 .. Len(Escaped(b)) : Escaped(b)[j] = b
  BY DEF Escaped

\* Every run of bytes has its marks.
LEMMA EscapeMarks ==
    ASSUME NEW S, NEW bytes \in Seq(S)
    PROVE  Escape(bytes) \in Seq(S) /\ Marked(bytes, Mark(bytes))
  <1> DEFINE n == Len(bytes)
             ss == [i \in DOMAIN bytes |-> Escaped(bytes[i])]
  <1>1. n \in Nat /\ DOMAIN bytes = 1 .. n /\ \A i \in 1 .. n : bytes[i] \in S
    OBVIOUS
  <1>2. \A i \in 1 .. n : Escaped(bytes[i]) \in Seq(S)
    BY <1>1, EscapedFacts
  <1>3. ss \in Seq(Seq(S)) /\ Len(ss) = n /\ \A i \in 1 .. n : ss[i] = Escaped(bytes[i])
    BY <1>1, <1>2
  <1>4. Escape(bytes) = FlattenSeq(ss)
    BY DEF Escape
  <1> HIDE DEF ss
  <1>5. PICK f \in [0 .. n -> Seq(S)] :
               /\ f[0] = <<>> /\ \A i \in 1 .. n : f[i] = f[i - 1] \o ss[i]
               /\ Escape(bytes) = f[n]
    <2>1. \E f \in [0 .. Len(ss) -> Seq(S)] :
            /\ f[0] = <<>> /\ \A i \in 1 .. Len(ss) : f[i] = f[i - 1] \o ss[i]
            /\ FlattenSeq(ss) = f[Len(ss)]
      BY <1>3, FlattenFacts, Zenon
    <2> HIDE DEF n
    <2> QED
      BY <1>3, <1>4, <2>1
  <1>6. \A i \in 0 .. n : f[i] \in Seq(S) /\ Len(f[i]) \in Nat
    OBVIOUS
  <1> DEFINE m == [i \in 0 .. n |-> Len(f[i])]
  <1>7. ASSUME NEW q \in 1 .. n
        PROVE  /\ q - 1 \in 0 .. n /\ q \in 0 .. n /\ Starts(f[q - 1], f[q])
               /\ Len(f[q]) = Len(f[q - 1]) + Len(ss[q])
               /\ \A j \in 1 .. Len(ss[q]) : f[q][Len(f[q - 1]) + j] = ss[q][j]
    <2>1. q - 1 \in 0 .. n /\ q \in 0 .. n
      BY <1>1
    <2>2. f[q - 1] \in Seq(S) /\ ss[q] \in Seq(S) /\ f[q] = f[q - 1] \o ss[q]
      BY <1>2, <1>3, <1>5, <2>1
    <2>3. Len(f[q]) = Len(f[q - 1]) + Len(ss[q])
          /\ \A j \in 1 .. Len(ss[q]) : f[q][Len(f[q - 1]) + j] = ss[q][j]
      <3> DEFINE a == f[q - 1]
                 b == ss[q]
      <3>1. a \in Seq(S) /\ b \in Seq(S) /\ f[q] = a \o b
        BY <2>2
      <3> HIDE DEF a, b
      <3>2. /\ Len(a \o b) = Len(a) + Len(b) /\ Len(a) \in Nat /\ Len(b) \in Nat
            /\ \A i \in 1 .. Len(a) + Len(b) : (a \o b)[i] = IF i <= Len(a) THEN a[i] ELSE b[i - Len(a)]
        BY <3>1, ConcatProperties
      <3>3. ASSUME NEW j \in 1 .. Len(b) PROVE (a \o b)[Len(a) + j] = b[j]
        <4>1. Len(a) + j \in 1 .. Len(a) + Len(b) /\ ~(Len(a) + j <= Len(a)) /\ (Len(a) + j) - Len(a) = j
          BY <3>2
        <4> QED
          BY <3>2, <4>1
      <3> QED
        BY <3>1, <3>2, <3>3 DEF a, b
    <2> QED
      BY <2>1, <2>2, <2>3, StartsConcat
  <1>8. \A i, j \in 0 .. n : i <= j => Starts(f[i], f[j])
    <2> HIDE DEF n
    <2> QED
      BY <1>1, <1>7, ChainStarts
  <1>9. Marked(bytes, m)
    <2>1. m \in [0 .. n -> Nat] /\ m[0] = 0 /\ m[n] = Len(Escape(bytes))
      BY <1>1, <1>5, <1>6
    <2>2. ASSUME NEW q \in 1 .. n
          PROVE  /\ m[q] = m[q - 1] + Len(Escaped(bytes[q])) /\ m[q] <= Len(Escape(bytes))
                 /\ \A j \in 1 .. Len(Escaped(bytes[q])) :
                       Escape(bytes)[m[q - 1] + j] = Escaped(bytes[q])[j]
      <3>1. m[q] = Len(f[q]) /\ m[q - 1] = Len(f[q - 1]) /\ ss[q] = Escaped(bytes[q])
            /\ Len(ss[q]) \in Nat /\ Len(f[q - 1]) \in Nat /\ Len(f[q]) \in Nat
        BY <1>2, <1>3, <1>6, <1>7
      <3>2. Starts(f[q], f[n])
        BY <1>1, <1>7, <1>8
      <3>3. \A j \in 1 .. Len(ss[q]) : Len(f[q - 1]) + j \in 1 .. Len(f[q])
        <4>1. Len(f[q]) = Len(f[q - 1]) + Len(ss[q])
          BY <1>7
        <4> DEFINE x == Len(f[q - 1])
                   y == Len(ss[q])
                   z == Len(f[q])
        <4>2. x \in Nat /\ y \in Nat /\ z = x + y
          BY <3>1, <4>1
        <4> HIDE DEF x, y, z
        <4>3. \A j \in 1 .. y : x + j \in 1 .. z
          BY ONLY <4>2
        <4> QED
          BY <4>3 DEF x, y, z
      <3>4. \A j \in 1 .. Len(ss[q]) : f[n][Len(f[q - 1]) + j] = ss[q][j]
        BY <1>7, <3>2, <3>3 DEF Starts
      <3>5. Len(f[q]) <= Len(f[n])
        BY <3>2 DEF Starts
      <3> HIDE DEF m
      <3> QED
        BY <1>5, <1>7, <3>1, <3>4, <3>5
    <2> QED
      BY <2>1, <2>2 DEF Marked
  <1> HIDE DEF m
  <1>10. Marked(bytes, Mark(bytes))
    BY <1>9 DEF Mark
  <1>11. n \in 0 .. n
    BY <1>1
  <1> QED
    BY <1>5, <1>6, <1>10, <1>11

\* What the terminal may send consists of bytes.
LEMMA PiecesTyped ==
    /\ Pieces \subseteq Seq(Bytes) /\ SbData \subseteq Seq(Bytes)
    /\ {"IAC", "EOR", "NOP", "SB", "SE", "231"} \cup Verbs \cup Options \subseteq Bytes
  <1>1. ASSUME NEW p \in Pieces \cup SbData PROVE p \in Seq(Bytes)
    <2>1. p \in Seq(STRING)
      BY StreamAssumption
    <2>2. \A i \in 1 .. Len(p) : p[i] \in ToSet(p)
      BY <2>1 DEF ToSet
    <2>3. \A i \in 1 .. Len(p) : p[i] \in Bytes
      BY <2>2 DEF Bytes
    <2> QED
      BY <2>1, <2>3
  <1>2. {"IAC", "EOR", "NOP", "SB", "SE", "231"} \cup Verbs \cup Options \subseteq Bytes
    BY DEF Bytes
  <1> QED
    BY <1>1, <1>2

\* The kinds of items.
LEMMA ItemKinds ==
    ASSUME NEW item \in Items
    PROVE  /\ item.kind \in {"data", "eor", "nop", "verb", "sb"}
           /\ item.kind = "data" => item.bytes \in Pieces
           /\ item.kind = "verb" => item.verb \in TerminalVerbs /\ item.what \in Options
           /\ item.kind = "sb" => item.bytes \in SbData
  BY DEF Items

Log == [done : Seq(Seq(Bytes)), open : Seq(Bytes)]
Nothing == [done |-> <<>>, open |-> <<>>]

\* An item turns records into records.
LEMMA ExtendedTyped ==
    ASSUME NEW r \in Log, NEW item \in Items
    PROVE  Extended(r, item) \in Log
  <1>1. r.done \in Seq(Seq(Bytes)) /\ r.open \in Seq(Bytes)
    BY DEF Log
  <1>2. CASE item.kind = "data"
    <2>1. item.bytes \in Seq(Bytes)
      BY <1>2, ItemKinds, PiecesTyped
    <2>2. r.open \o item.bytes \in Seq(Bytes)
      BY <1>1, <2>1, ConcatProperties
    <2>3. Extended(r, item) = [r EXCEPT !.open = r.open \o item.bytes]
      BY <1>2 DEF Extended
    <2> QED
      BY <2>2, <2>3 DEF Log
  <1>3. CASE item.kind = "eor"
    <2>1. Append(r.done, r.open) \in Seq(Seq(Bytes))
      BY <1>1, AppendProperties
    <2>2. Extended(r, item) = [done |-> Append(r.done, r.open), open |-> <<>>]
      BY <1>3 DEF Extended
    <2> QED
      BY <2>1, <2>2 DEF Log
  <1>4. CASE item.kind \notin {"data", "eor"}
    BY <1>4 DEF Extended
  <1> QED
    BY <1>2, <1>3, <1>4

\* The records after each of the items.
Recorded(s, h) ==
    /\ h \in [0 .. Len(s) -> Log] /\ h[0] = Nothing
    /\ \A i \in 1 .. Len(s) : h[i] = Extended(h[i - 1], s[i])
History(s) == CHOOSE h : Recorded(s, h)

\* They are determined by the items up to there.
LEMMA RecordedOnce ==
    ASSUME NEW s \in Seq(Items), NEW t \in Seq(Items), NEW h, NEW g, Recorded(s, h),
           g[0] = Nothing, \A i \in 1 .. Len(t) : g[i] = Extended(g[i - 1], t[i]),
           Len(t) <= Len(s), \A i \in 1 .. Len(t) : s[i] = t[i]
    PROVE  \A i \in 0 .. Len(t) : h[i] = g[i]
  <1> DEFINE N == Len(t)
             P == {n \in Nat : n <= N => h[n] = g[n]}
  <1>0. N \in Nat /\ Len(s) \in Nat /\ N <= Len(s)
    OBVIOUS
  <1>1. 0 \in P
    BY DEF Recorded
  <1>2. ASSUME NEW n \in Nat, n \in P PROVE n + 1 \in P
    <2> SUFFICES ASSUME n + 1 <= N PROVE h[n + 1] = g[n + 1]
      OBVIOUS
    <2> DEFINE m == n + 1
    <2>1. n <= N /\ m \in 1 .. N /\ m \in 1 .. Len(s) /\ m - 1 = n
      BY <1>0
    <2>2. h[m - 1] = g[m - 1]
      BY <1>2, <2>1
    <2> HIDE DEF m
    <2>3. h[m] = Extended(h[m - 1], s[m]) /\ g[m] = Extended(g[m - 1], t[m]) /\ s[m] = t[m]
      BY <2>1 DEF Recorded
    <2>4. h[m] = g[m]
      BY <2>2, <2>3
    <2> QED
      BY <2>4 DEF m
  <1> HIDE DEF P
  <1>3. Nat \subseteq P
    BY <1>1, <1>2, SetInduction
  <1> QED
    BY <1>0, <1>3 DEF P

\* There are records after each of the items, and the last are SentRecords.
LEMMA HistoryFacts ==
    ASSUME NEW s \in Seq(Items)
    PROVE  Recorded(s, History(s)) /\ SentRecords(s) = History(s)[Len(s)]
  <1> DEFINE N == Len(s)
             st == [i \in 1 .. N |-> [v \in Log |-> Extended(v, s[i])]]
             up == CHOOSE g : g = [n \in 0 .. N |-> IF n = 0 THEN Nothing ELSE Extended(g[n - 1], s[n])]
  <1>1. N \in Nat /\ \A i \in 1 .. N : s[i] \in Items
    OBVIOUS
  <1>2. st \in [1 .. N -> [Log -> Log]]
    BY <1>1, ExtendedTyped
  <1>3. Nothing \in Log
    BY DEF Nothing, Log
  <1>4. PICK f : f \in [0 .. N -> Log] /\ f[0] = Nothing /\ Solves(f, N, st)
    <2> HIDE DEF st, N
    <2> QED
      BY <1>1, <1>2, <1>3, RecursionExists, Zenon
  <1>5. \A i \in 1 .. N : i - 1 \in 0 .. N /\ f[i - 1] \in Log /\ f[i] = Extended(f[i - 1], s[i])
    <2> SUFFICES ASSUME NEW i \in 1 .. N
                 PROVE  i - 1 \in 0 .. N /\ f[i - 1] \in Log /\ f[i] = Extended(f[i - 1], s[i])
      OBVIOUS
    <2>1. i - 1 \in 0 .. N
      BY <1>1
    <2>2. f[i] = st[i][f[i - 1]]
      BY <1>4 DEF Solves
    <2> HIDE DEF N
    <2> QED
      BY <1>4, <2>1, <2>2
  <1>6. Recorded(s, f)
    BY <1>4, <1>5 DEF Recorded
  <1>7. Recorded(s, History(s))
    BY <1>6 DEF History
  <1>8. f = [n \in 0 .. N |-> IF n = 0 THEN Nothing ELSE Extended(f[n - 1], s[n])]
    <2>1. \A n \in 0 .. N : n # 0 => n \in 1 .. N
      BY <1>1
    <2> HIDE DEF N
    <2> QED
      BY <1>4, <1>5, <2>1
  <1>9. up = [n \in 0 .. N |-> IF n = 0 THEN Nothing ELSE Extended(up[n - 1], s[n])]
    BY <1>8
  <1>10. SentRecords(s) = up[N]
    BY DEF SentRecords, up, Nothing
  <1> HIDE DEF up
  <1>11. up[0] = Nothing /\ \A i \in 1 .. N : up[i] = Extended(up[i - 1], s[i])
    <2>1. 0 \in 0 .. N /\ \A i \in 1 .. N : i \in 0 .. N /\ i # 0
      BY <1>1
    <2> HIDE DEF N
    <2> QED
      BY <1>9, <2>1
  <1>12. \A i \in 0 .. N : History(s)[i] = up[i]
    BY <1>1, <1>7, <1>11, RecordedOnce
  <1>13. N \in 0 .. N
    BY <1>1
  <1> QED
    BY <1>7, <1>10, <1>12, <1>13

\* One more item adds to the history and changes nothing in it.
LEMMA HistoryGoesOn ==
    ASSUME NEW s \in Seq(Items), NEW item \in Items
    PROVE  /\ \A k \in 0 .. Len(s) : History(Append(s, item))[k] = History(s)[k]
           /\ History(Append(s, item))[Len(s) + 1] = Extended(History(s)[Len(s)], item)
  <1> DEFINE t == Append(s, item)
  <1>1. t \in Seq(Items) /\ Len(t) = Len(s) + 1 /\ Len(s) \in Nat
        /\ t[Len(s) + 1] = item /\ \A i \in 1 .. Len(s) : t[i] = s[i]
    BY AppendProperties
  <1> HIDE DEF t
  <1>2. Recorded(t, History(t)) /\ Recorded(s, History(s))
    BY <1>1, HistoryFacts
  <1>3. \A k \in 0 .. Len(s) : History(t)[k] = History(s)[k]
    <2>1. /\ History(s)[0] = Nothing /\ Len(s) <= Len(t)
          /\ \A i \in 1 .. Len(s) : History(s)[i] = Extended(History(s)[i - 1], s[i])
      BY <1>1, <1>2 DEF Recorded
    <2> QED
      BY <1>1, <1>2, <2>1, RecordedOnce
  <1>4. History(t)[Len(s) + 1] = Extended(History(t)[Len(s)], item)
    <2> DEFINE m == Len(s) + 1
    <2>1. m \in 1 .. Len(t) /\ m - 1 = Len(s) /\ t[m] = item
      BY <1>1
    <2> HIDE DEF m
    <2>2. History(t)[m] = Extended(History(t)[m - 1], t[m])
      BY <1>2, <2>1 DEF Recorded
    <2> QED
      BY <2>1, <2>2 DEF m
  <1> QED
    BY <1>1, <1>3, <1>4 DEF t

\* Records that were ended stay.
LEMMA HistoryGrows ==
    ASSUME NEW s \in Seq(Items), NEW k \in 0 .. Len(s)
    PROVE  Starts(History(s)[k].done, SentRecords(s).done)
  <1> DEFINE N == Len(s)
             h == History(s)
             f == [i \in 0 .. N |-> h[i].done]
  <1>1. /\ N \in Nat /\ k \in 0 .. N /\ N \in 0 .. N /\ k <= N
        /\ \A i \in 0 .. N : h[i] \in Log
        /\ \A i \in 1 .. N : h[i] = Extended(h[i - 1], s[i]) /\ i - 1 \in 0 .. N /\ i \in 0 .. N
        /\ SentRecords(s) = h[N]
    <2>1. Recorded(s, h) /\ SentRecords(s) = h[N]
      BY HistoryFacts
    <2>2. N \in Nat /\ k \in 0 .. N
      OBVIOUS
    <2> HIDE DEF h
    <2>3. /\ \A i \in 0 .. N : h[i] \in Log
          /\ \A i \in 1 .. N : h[i] = Extended(h[i - 1], s[i])
      BY <2>1 DEF Recorded
    <2> HIDE DEF N
    <2>4. /\ N \in 0 .. N /\ k <= N
          /\ \A i \in 1 .. N : i - 1 \in 0 .. N /\ i \in 0 .. N
      BY ONLY <2>2
    <2> QED
      BY <2>1, <2>2, <2>3, <2>4
  <1> HIDE DEF N, h
  <1>2. f \in [0 .. N -> Seq(Seq(Bytes))]
    BY <1>1 DEF Log
  <1>3. ASSUME NEW i \in 1 .. N PROVE Starts(f[i - 1], f[i])
    <2>1. f[i - 1] = h[i - 1].done /\ f[i] = h[i].done /\ h[i] = Extended(h[i - 1], s[i])
          /\ h[i - 1].done \in Seq(Seq(Bytes)) /\ h[i - 1].open \in Seq(Bytes)
      BY <1>1 DEF Log
    <2>2. CASE s[i].kind = "eor"
      <3> DEFINE d == h[i - 1].done
                 e == h[i - 1].open
      <3>1. h[i].done = Append(d, e)
        <4>1. Extended(h[i - 1], s[i]) = [done |-> Append(d, e), open |-> <<>>]
          BY <2>2 DEF Extended
        <4> QED
          BY <2>1, <4>1
      <3>2. Len(d) \in Nat /\ Len(Append(d, e)) = Len(d) + 1 /\ \A j \in 1 .. Len(d) : Append(d, e)[j] = d[j]
        BY <2>1, AppendProperties
      <3> HIDE DEF f, d, e
      <3>3. Starts(d, Append(d, e))
        BY <3>2 DEF Starts
      <3> QED
        BY <2>1, <3>1, <3>3 DEF d
    <2>3. CASE s[i].kind # "eor"
      <3>1. h[i].done = h[i - 1].done
        BY <1>1, <2>1, <2>3 DEF Extended, Log
      <3> HIDE DEF f
      <3>2. Starts(h[i - 1].done, h[i - 1].done)
        BY <2>1 DEF Starts
      <3> QED
        BY <2>1, <3>1, <3>2
    <2> QED
      BY <2>2, <2>3
  <1> HIDE DEF f
  <1>4. Starts(f[k], f[N])
    BY <1>1, <1>2, <1>3, ChainStarts
  <1> QED
    BY <1>1, <1>4 DEF f, h

\* What stands at the marks.
LEMMA MarkFacts ==
    ASSUME NEW bytes \in Seq(Bytes)
    PROVE  /\ Escape(bytes) \in Seq(Bytes) /\ Len(bytes) \in Nat
           /\ \A q \in 0 .. Len(bytes) : Mark(bytes)[q] \in Nat /\ Mark(bytes)[q] <= Len(Escape(bytes))
           /\ Mark(bytes)[0] = 0 /\ Mark(bytes)[Len(bytes)] = Len(Escape(bytes))
           /\ \A q \in 0 .. Len(bytes) - 1 :
                 /\ Mark(bytes)[q + 1] = Mark(bytes)[q] + (IF bytes[q + 1] = "IAC" THEN 2 ELSE 1)
                 /\ Escape(bytes)[Mark(bytes)[q] + 1] = bytes[q + 1]
                 /\ bytes[q + 1] = "IAC" => Escape(bytes)[Mark(bytes)[q] + 2] = "IAC"
  <1> DEFINE m == Mark(bytes)
             n == Len(bytes)
             e == Escape(bytes)
  <1>1. e \in Seq(Bytes) /\ n \in Nat /\ Len(e) \in Nat /\ Marked(bytes, m)
    BY EscapeMarks
  <1>2. /\ m \in [0 .. n -> Nat] /\ m[0] = 0 /\ m[n] = Len(e)
        /\ \A q \in 1 .. n :
              /\ m[q] = m[q - 1] + Len(Escaped(bytes[q])) /\ m[q] <= Len(e)
              /\ \A j \in 1 .. Len(Escaped(bytes[q])) : e[m[q - 1] + j] = Escaped(bytes[q])[j]
    BY <1>1 DEF Marked
  <1>3. \A q \in 1 .. n : bytes[q] \in Bytes
    OBVIOUS
  <1> HIDE DEF m, n, e
  <1>4. ASSUME NEW q \in 0 .. n PROVE m[q] \in Nat /\ m[q] <= Len(e)
    <2>1. q = 0 \/ q \in 1 .. n
      BY <1>1
    <2> QED
      BY <1>1, <1>2, <2>1
  <1>5. ASSUME NEW q \in 0 .. n - 1
        PROVE  /\ m[q + 1] = m[q] + (IF bytes[q + 1] = "IAC" THEN 2 ELSE 1)
               /\ e[m[q] + 1] = bytes[q + 1]
               /\ bytes[q + 1] = "IAC" => e[m[q] + 2] = "IAC"
    <2> DEFINE b == bytes[q + 1]
    <2>1. q + 1 \in 1 .. n /\ (q + 1) - 1 = q
      BY <1>1
    <2>2. b \in Bytes
      BY <1>3, <2>1
    <2>3. Len(Escaped(b)) = (IF b = "IAC" THEN 2 ELSE 1) /\ \A j \in 1 .. Len(Escaped(b)) : Escaped(b)[j] = b
      BY <2>2, EscapedFacts
    <2>4. m[q + 1] = m[q] + Len(Escaped(b)) /\ \A j \in 1 .. Len(Escaped(b)) : e[m[q] + j] = Escaped(b)[j]
      BY <1>2, <2>1
    <2> HIDE DEF b
    <2>5. 1 \in 1 .. Len(Escaped(b)) /\ (b = "IAC" => 2 \in 1 .. Len(Escaped(b)))
      BY <2>3
    <2>6. e[m[q] + 1] = b /\ (b = "IAC" => e[m[q] + 2] = b)
      BY <2>3, <2>4, <2>5
    <2> QED
      BY <2>3, <2>4, <2>6 DEF b
  <1> QED
    BY <1>1, <1>2, <1>4, <1>5 DEF m, n, e

\* The bytes of an item.
LEMMA EncodeFacts ==
    ASSUME NEW item \in Items
    PROVE  /\ Encode(item) \in Seq(Bytes) /\ Len(Encode(item)) \in Nat /\ Len(Encode(item)) > 0
           /\ item.kind = "data" => Encode(item) = Escape(item.bytes)
           /\ item.kind = "eor" => Encode(item) = <<"IAC", "EOR">>
           /\ item.kind = "nop" => Encode(item) = <<"IAC", "NOP">>
           /\ item.kind = "verb" => Encode(item) = <<"IAC", item.verb, item.what>>
           /\ item.kind = "sb" =>
                 LET L == Len(Escape(item.bytes)) IN
                 /\ L \in Nat /\ Len(Encode(item)) = L + 4
                 /\ Encode(item)[1] = "IAC" /\ Encode(item)[2] = "SB"
                 /\ Encode(item)[L + 3] = "IAC" /\ Encode(item)[L + 4] = "SE"
                 /\ \A j \in 1 .. L : Encode(item)[j + 2] = Escape(item.bytes)[j]
  <1>1. CASE item.kind = "data"
    <2>1. Encode(item) = Escape(item.bytes)
      BY <1>1 DEF Encode
    <2>2. item.bytes \in Seq(Bytes) /\ item.bytes # <<>>
      BY <1>1, ItemKinds, PiecesTyped, StreamAssumption
    <2> DEFINE s == item.bytes
    <2> HIDE DEF s
    <2>3. s \in Seq(Bytes) /\ s # <<>>
      BY <2>2 DEF s
    <2>4. Len(s) \in Nat \ {0}
      BY <2>3, EmptySeq
    <2>5. 0 \in 0 .. Len(s) - 1 /\ 1 \in 0 .. Len(s) /\ 0 + 1 = 1
      BY <2>4
    <2>6. /\ Escape(s) \in Seq(Bytes) /\ Mark(s)[0] = 0 /\ Mark(s)[1] <= Len(Escape(s))
          /\ Mark(s)[1] = Mark(s)[0] + (IF s[1] = "IAC" THEN 2 ELSE 1)
      BY <2>3, <2>5, MarkFacts
    <2>7. Len(Escape(s)) \in Nat /\ Len(Escape(s)) > 0
      BY <2>6
    <2> QED
      BY <1>1, <2>1, <2>6, <2>7 DEF s
  <1>2. CASE item.kind \in {"eor", "nop"}
    BY <1>2, PiecesTyped DEF Encode
  <1>3. CASE item.kind = "verb"
    <2>1. Encode(item) = <<"IAC", item.verb, item.what>>
      BY <1>3 DEF Encode
    <2>2. item.verb \in Bytes /\ item.what \in Bytes /\ "IAC" \in Bytes
      BY <1>3, ItemKinds, PiecesTyped, StreamAssumption
    <2> QED
      BY <1>3, <2>1, <2>2
  <1>4. CASE item.kind = "sb"
    <2> DEFINE a == <<"IAC", "SB">>
               b == Escape(item.bytes)
               c == <<"IAC", "SE">>
               L == Len(b)
    <2>1. Encode(item) = (a \o b) \o c
      BY <1>4 DEF Encode
    <2>2. item.bytes \in Seq(Bytes)
      BY <1>4, ItemKinds, PiecesTyped
    <2>3. b \in Seq(Bytes)
      BY <2>2, MarkFacts
    <2>4. a \in Seq(Bytes) /\ c \in Seq(Bytes) /\ Len(a) = 2 /\ Len(c) = 2
          /\ a[1] = "IAC" /\ a[2] = "SB" /\ c[1] = "IAC" /\ c[2] = "SE"
      BY PiecesTyped
    <2> HIDE DEF a, b, c
    <2> DEFINE ab == a \o b
    <2>5. /\ ab \in Seq(Bytes) /\ Len(ab) = L + 2 /\ L \in Nat
          /\ \A i \in 1 .. L + 2 : ab[i] = IF i <= 2 THEN a[i] ELSE b[i - 2]
      <3>1. /\ ab \in Seq(Bytes) /\ Len(ab) = Len(a) + Len(b)
            /\ \A i \in 1 .. Len(a) + Len(b) : ab[i] = IF i <= Len(a) THEN a[i] ELSE b[i - Len(a)]
        BY <2>3, <2>4, ConcatProperties
      <3>2. L \in Nat /\ Len(b) = L
        BY <2>3
      <3> HIDE DEF L, ab
      <3>3. Len(a) + Len(b) = L + 2
        BY ONLY <2>4, <3>2
      <3> QED
        BY <2>4, <3>1, <3>2, <3>3
    <2> HIDE DEF ab
    <2>6. /\ ab \o c \in Seq(Bytes) /\ Len(ab \o c) = L + 4
          /\ \A i \in 1 .. L + 4 : (ab \o c)[i] = IF i <= L + 2 THEN ab[i] ELSE c[i - (L + 2)]
      <3>1. /\ ab \o c \in Seq(Bytes) /\ Len(ab \o c) = Len(ab) + Len(c)
            /\ \A i \in 1 .. Len(ab) + Len(c) :
                  (ab \o c)[i] = IF i <= Len(ab) THEN ab[i] ELSE c[i - Len(ab)]
        BY <2>4, <2>5, ConcatProperties
      <3>2. Len(ab) + Len(c) = L + 4
        BY <2>4, <2>5
      <3> HIDE DEF L
      <3> QED
        BY <2>5, <3>1, <3>2
    <2> HIDE DEF L
    <2> DEFINE e == ab \o c
    <2> HIDE DEF e
    <2>7. \A i \in 1 .. L + 4 : e[i] = IF i <= L + 2 THEN ab[i] ELSE c[i - (L + 2)]
      BY <2>6 DEF e
    <2>8. e[1] = "IAC" /\ e[2] = "SB"
      <3>1. 1 \in 1 .. L + 2 /\ 2 \in 1 .. L + 2 /\ 1 \in 1 .. L + 4 /\ 2 \in 1 .. L + 4 /\ 1 <= L + 2 /\ 2 <= L + 2
        BY <2>5
      <3> QED
        BY <2>4, <2>5, <2>7, <3>1
    <2>9. e[L + 3] = "IAC" /\ e[L + 4] = "SE"
      <3>1. /\ L + 3 \in 1 .. L + 4 /\ L + 4 \in 1 .. L + 4 /\ ~(L + 3 <= L + 2) /\ ~(L + 4 <= L + 2)
            /\ (L + 3) - (L + 2) = 1 /\ (L + 4) - (L + 2) = 2
        BY <2>5
      <3> QED
        BY <2>4, <2>7, <3>1
    <2>10. ASSUME NEW j \in 1 .. L PROVE e[j + 2] = b[j]
      <3>1. j + 2 \in 1 .. L + 4 /\ j + 2 \in 1 .. L + 2 /\ j + 2 <= L + 2 /\ ~(j + 2 <= 2) /\ (j + 2) - 2 = j
        BY <2>5
      <3> QED
        BY <2>5, <2>7, <3>1
    <2>11. Encode(item) = e
      BY <2>1 DEF e, ab
    <2>12. e \in Seq(Bytes) /\ Len(e) = L + 4 /\ L + 4 \in Nat /\ L + 4 > 0
      BY <2>5, <2>6 DEF e
    <2> QED
      BY <1>4, <2>5, <2>8, <2>9, <2>10, <2>11, <2>12 DEF b, L
  <1> QED
    BY <1>1, <1>2, <1>3, <1>4, ItemKinds

-----------------------------------------------------------------------------
(***************************************************************************)
(* Where the host is in what was sent: k items and p bytes of the next one *)
(* are read.  at[i] is where item i ends on the wire; the items that were  *)
(* read end before it begins.                                              *)
(***************************************************************************)
Aligned(k, p, at) ==
    /\ at \in [0 .. Len(sent) -> Int] /\ at[k] = 0 - p
    /\ at[Len(sent)] = Len(wire) /\ \A i \in 0 .. Len(sent) : at[i] <= Len(wire)
    /\ \A i \in 1 .. Len(sent) :
          /\ at[i] = at[i - 1] + Len(Encode(sent[i]))
          /\ \A j \in 1 .. Len(Encode(sent[i])) :
                at[i - 1] + j > 0 => wire[at[i - 1] + j] = Encode(sent[i])[j]

Position(k, p) ==
    /\ k \in 0 .. Len(sent) /\ p \in Nat
    /\ k < Len(sent) => p < Len(Encode(sent[k + 1]))
    /\ \E at : Aligned(k, p, at)

\* When the wire is empty, all is read, ...
LEMMA AllRead ==
    ASSUME sent \in Seq(Items), wire = <<>>, NEW CONSTANT k, NEW CONSTANT p, Position(k, p)
    PROVE  k = Len(sent) /\ p = 0
  <1>1. PICK at : Aligned(k, p, at)
    BY DEF Position
  <1>2. Len(sent) \in Nat /\ k \in 0 .. Len(sent) /\ p \in Nat /\ Len(wire) = 0
    BY DEF Position
  <1>3. ASSUME k # Len(sent) PROVE FALSE
    <2>1. k + 1 \in 1 .. Len(sent) /\ k + 1 \in 0 .. Len(sent) /\ (k + 1) - 1 = k
      BY <1>2, <1>3
    <2>2. sent[k + 1] \in Items
      BY <2>1
    <2>3. Len(Encode(sent[k + 1])) \in Nat
      BY <2>2, EncodeFacts
    <2>4. p < Len(Encode(sent[k + 1]))
      BY <1>2, <1>3 DEF Position
    <2>5. at[k + 1] = at[k] + Len(Encode(sent[k + 1])) /\ at[k + 1] <= 0 /\ at[k] = 0 - p
      BY <1>1, <1>2, <2>1 DEF Aligned
    <2> QED
      BY <1>2, <2>3, <2>4, <2>5
  <1>4. k = Len(sent) => p = 0
    BY <1>1, <1>2 DEF Aligned
  <1> QED
    BY <1>3, <1>4

\* ... and otherwise the next byte is one of the next item's.
LEMMA NextByte ==
    ASSUME sent \in Seq(Items), wire \in Seq(Bytes), wire # <<>>,
           NEW CONSTANT k, NEW CONSTANT p, Position(k, p)
    PROVE  /\ k \in Nat /\ k < Len(sent) /\ sent[k + 1] \in Items
           /\ p \in Nat /\ p < Len(Encode(sent[k + 1])) /\ Head(wire) = Encode(sent[k + 1])[p + 1]
  <1>1. PICK at : Aligned(k, p, at)
    BY DEF Position
  <1>2. Len(sent) \in Nat /\ k \in 0 .. Len(sent) /\ p \in Nat /\ Len(wire) \in Nat /\ Len(wire) > 0
    BY EmptySeq DEF Position
  <1>3. k # Len(sent)
    BY <1>1, <1>2 DEF Aligned
  <1>4. k + 1 \in 1 .. Len(sent) /\ (k + 1) - 1 = k /\ k < Len(sent) /\ k \in Nat
    BY <1>2, <1>3
  <1>5. sent[k + 1] \in Items /\ p < Len(Encode(sent[k + 1]))
    BY <1>4 DEF Position
  <1>6. Len(Encode(sent[k + 1])) \in Nat
    BY <1>5, EncodeFacts
  <1>7. p + 1 \in 1 .. Len(Encode(sent[k + 1]))
    BY <1>2, <1>5, <1>6
  <1>8. at[k] + (p + 1) = 1
    BY <1>1, <1>2 DEF Aligned
  <1>9. wire[at[k] + (p + 1)] = Encode(sent[k + 1])[p + 1]
    <2>1. at[k] + (p + 1) > 0
      BY <1>8
    <2> QED
      BY <1>1, <1>4, <1>7, <2>1 DEF Aligned
  <1> QED
    BY <1>2, <1>4, <1>5, <1>8, <1>9

\* Reading it moves on by one byte.
LEMMA ReadMoves ==
    ASSUME sent \in Seq(Items), wire \in Seq(Bytes), wire # <<>>, wire' = Tail(wire), UNCHANGED sent,
           NEW CONSTANT k, NEW CONSTANT p, Position(k, p)
    PROVE  /\ p + 1 < Len(Encode(sent[k + 1])) => Position(k, p + 1)'
           /\ p + 1 = Len(Encode(sent[k + 1])) => Position(k + 1, 0)'
  <1>1. PICK at : Aligned(k, p, at)
    BY DEF Position
  <1> DEFINE n == Len(sent)
  <1>2. n \in Nat /\ k \in 0 .. n /\ k < n /\ k \in Nat /\ p \in Nat /\ Len(wire) \in Nat /\ Len(wire) > 0
    <2>1. Len(wire) \in Nat \ {0}
      BY EmptySeq
    <2>2. k \in Nat /\ k < Len(sent) /\ p \in Nat
      BY NextByte
    <2> QED
      BY <2>1, <2>2
  <1>3. Len(wire') = Len(wire) - 1 /\ \A i \in 1 .. Len(wire) - 1 : wire'[i] = wire[i + 1]
    BY HeadTailProperties
  <1>4. /\ at \in [0 .. n -> Int] /\ at[k] = 0 - p /\ at[n] = Len(wire)
        /\ \A i \in 0 .. n : at[i] <= Len(wire)
        /\ \A i \in 1 .. n : at[i] = at[i - 1] + Len(Encode(sent[i]))
        /\ \A i \in 1 .. n : \A j \in 1 .. Len(Encode(sent[i])) :
              at[i - 1] + j > 0 => wire[at[i - 1] + j] = Encode(sent[i])[j]
    BY <1>1 DEF Aligned
  <1>5. \A i \in 1 .. n : i \in 0 .. n /\ i - 1 \in 0 .. n /\ Len(Encode(sent[i])) \in Nat
    <2> SUFFICES ASSUME NEW i \in 1 .. n
                 PROVE  i \in 0 .. n /\ i - 1 \in 0 .. n /\ Len(Encode(sent[i])) \in Nat
      OBVIOUS
    <2>1. sent[i] \in Items
      OBVIOUS
    <2> QED
      BY <1>2, <2>1, EncodeFacts
  <1> HIDE DEF n
  <1>6. PICK to : to \in [0 .. n -> Int] /\ \A i \in 0 .. n : to[i] = at[i] - 1
    <2> DEFINE f == [i \in 0 .. n |-> at[i] - 1]
    <2>1. f \in [0 .. n -> Int] /\ \A i \in 0 .. n : f[i] = at[i] - 1
      BY <1>4
    <2> HIDE DEF f
    <2> QED
      BY <2>1
  <1>7. ASSUME NEW i \in 1 .. n, NEW j \in 1 .. Len(Encode(sent[i])), to[i - 1] + j > 0
        PROVE  wire'[to[i - 1] + j] = Encode(sent[i])[j]
    <2>1. /\ to[i - 1] = at[i - 1] - 1 /\ at[i - 1] \in Int /\ at[i] \in Int
          /\ at[i] = at[i - 1] + Len(Encode(sent[i])) /\ at[i] <= Len(wire)
      BY <1>4, <1>5, <1>6
    <2> DEFINE x == at[i - 1]
               y == Len(Encode(sent[i]))
               z == Len(wire)
    <2>2. x \in Int /\ y \in Nat /\ z \in Nat /\ x + y <= z /\ to[i - 1] = x - 1 /\ (x - 1) + j > 0 /\ j \in 1 .. y
      BY <1>2, <1>5, <1>7, <2>1
    <2> HIDE DEF x, y, z
    <2>3. (x - 1) + j \in 1 .. z - 1 /\ ((x - 1) + j) + 1 = x + j /\ x + j > 0
      BY ONLY <2>2
    <2>4. wire'[(x - 1) + j] = wire[x + j]
      BY <1>3, <2>3 DEF z
    <2>5. wire[x + j] = Encode(sent[i])[j]
      BY <1>4, <2>3 DEF x
    <2> QED
      BY <2>2, <2>4, <2>5
  <1>8. ASSUME NEW i \in 1 .. n PROVE to[i] = to[i - 1] + Len(Encode(sent[i]))
    <2>1. /\ to[i - 1] = at[i - 1] - 1 /\ to[i] = at[i] - 1 /\ at[i - 1] \in Int
          /\ at[i] = at[i - 1] + Len(Encode(sent[i])) /\ Len(Encode(sent[i])) \in Nat
      BY <1>4, <1>5, <1>6
    <2> QED
      BY ONLY <2>1
  <1>9. n \in 0 .. n /\ k + 1 \in 0 .. n /\ k + 1 \in 1 .. n /\ (k + 1) - 1 = k
    BY <1>2
  <1>10. to[n] = Len(wire') /\ \A i \in 0 .. n : to[i] <= Len(wire')
    BY <1>2, <1>3, <1>4, <1>6, <1>9
  <1>11. to[k] = 0 - (p + 1) /\ (p + 1 = Len(Encode(sent[k + 1])) => to[k + 1] = 0 - 0)
    <2>1. to[k] = at[k] - 1 /\ to[k + 1] = to[k] + Len(Encode(sent[k + 1])) /\ at[k] = 0 - p
      BY <1>2, <1>4, <1>6, <1>8, <1>9
    <2> QED
      BY <1>2, <2>1
  <1>12. /\ to[k] = 0 - (p + 1) => Aligned(k, p + 1, to)'
         /\ to[k + 1] = 0 - 0 => Aligned(k + 1, 0, to)'
    BY <1>6, <1>7, <1>8, <1>10 DEF Aligned, n
  <1>13. ASSUME p + 1 < Len(Encode(sent[k + 1])) PROVE Position(k, p + 1)'
    <2>1. \E a : Aligned(k, p + 1, a)'
      BY <1>11, <1>12
    <2> QED
      BY <1>2, <1>13, <2>1 DEF Position, n
  <1>14. ASSUME p + 1 = Len(Encode(sent[k + 1])) PROVE Position(k + 1, 0)'
    <2>1. \E a : Aligned(k + 1, 0, a)'
      BY <1>11, <1>12, <1>14
    <2>2. k + 1 < n => (k + 1) + 1 \in 1 .. n
      BY <1>2
    <2>3. k + 1 < n => 0 < Len(Encode(sent[(k + 1) + 1]))
      <3> SUFFICES ASSUME k + 1 < n PROVE 0 < Len(Encode(sent[(k + 1) + 1]))
        OBVIOUS
      <3>1. sent[(k + 1) + 1] \in Items
        BY <2>2 DEF n
      <3> QED
        BY <3>1, EncodeFacts
    <2> QED
      BY <1>9, <2>1, <2>3 DEF Position, n
  <1> QED
    BY <1>13, <1>14

\* Sending leaves it where it is.
LEMMA SendKeeps ==
    ASSUME sent \in Seq(Items), wire \in Seq(Bytes), NEW CONSTANT item \in Items,
           wire' = wire \o Encode(item), sent' = Append(sent, item),
           NEW CONSTANT k, NEW CONSTANT p, Position(k, p)
    PROVE  Position(k, p)'
  <1>1. PICK at : Aligned(k, p, at)
    BY DEF Position
  <1> DEFINE n == Len(sent)
             w == Len(wire)
             e == Len(Encode(item))
  <1>2. n \in Nat /\ w \in Nat /\ k \in 0 .. n /\ p \in Nat /\ Encode(item) \in Seq(Bytes) /\ e \in Nat /\ e > 0
    BY EncodeFacts DEF Position
  <1>3. Len(sent') = n + 1 /\ sent'[n + 1] = item /\ \A i \in 1 .. n : sent'[i] = sent[i]
    BY AppendProperties
  <1>4. /\ Len(wire') = w + e
        /\ \A i \in 1 .. w + e : wire'[i] = IF i <= w THEN wire[i] ELSE Encode(item)[i - w]
    BY <1>2, ConcatProperties
  <1>5. /\ at \in [0 .. n -> Int] /\ at[k] = 0 - p /\ at[n] = w
        /\ \A i \in 0 .. n : at[i] <= w
        /\ \A i \in 1 .. n : at[i] = at[i - 1] + Len(Encode(sent[i]))
        /\ \A i \in 1 .. n : \A j \in 1 .. Len(Encode(sent[i])) :
              at[i - 1] + j > 0 => wire[at[i - 1] + j] = Encode(sent[i])[j]
    BY <1>1 DEF Aligned
  <1>6. \A i \in 1 .. n : sent[i] \in Items /\ Len(Encode(sent[i])) \in Nat
    <2>1. \A i \in 1 .. n : sent[i] \in Items
      OBVIOUS
    <2> QED
      BY <2>1, EncodeFacts
  <1> HIDE DEF n, w, e
  <1>7. PICK to : /\ to \in [0 .. n + 1 -> Int] /\ \A i \in 0 .. n : to[i] = at[i]
                  /\ to[n + 1] = w + e
    <2> DEFINE f == [i \in 0 .. n + 1 |-> IF i <= n THEN at[i] ELSE w + e]
    <2>1. /\ f \in [0 .. n + 1 -> Int] /\ \A i \in 0 .. n : f[i] = at[i]
          /\ f[n + 1] = w + e
      BY <1>2, <1>5
    <2> HIDE DEF f
    <2> QED
      BY <2>1
  <1>8. \A i \in 0 .. n + 1 : to[i] <= w + e
    <2> SUFFICES ASSUME NEW i \in 0 .. n + 1 PROVE to[i] <= w + e
      OBVIOUS
    <2>1. CASE i = n + 1
      BY <1>2, <1>7, <2>1
    <2>2. CASE i # n + 1
      <3>1. i \in 0 .. n
        BY <1>2, <2>2
      <3>2. to[i] \in Int /\ to[i] <= w
        BY <1>5, <1>7, <3>1
      <3> QED
        BY <1>2, <3>2
    <2> QED
      BY <2>1, <2>2
  <1>9. ASSUME NEW i \in 1 .. n + 1
        PROVE  /\ to[i] = to[i - 1] + Len(Encode(sent'[i]))
               /\ \A j \in 1 .. Len(Encode(sent'[i])) :
                     to[i - 1] + j > 0 => wire'[to[i - 1] + j] = Encode(sent'[i])[j]
    <2>1. CASE i = n + 1
      <3>1. sent'[i] = item /\ i - 1 = n /\ n \in 0 .. n
        BY <1>2, <1>3, <2>1
      <3>2. to[i - 1] = w /\ to[i] = w + e
        BY <1>5, <1>7, <2>1, <3>1
      <3>3. ASSUME NEW j \in 1 .. e PROVE wire'[w + j] = Encode(item)[j]
        <4>1. w + j \in 1 .. w + e /\ ~(w + j <= w) /\ (w + j) - w = j
          BY <1>2
        <4> QED
          BY <1>4, <4>1
      <3> QED
        BY <3>1, <3>2, <3>3 DEF e
    <2>2. CASE i # n + 1
      <3>1. i \in 1 .. n /\ i \in 0 .. n /\ i - 1 \in 0 .. n
        BY <1>2, <2>2
      <3>2. sent'[i] = sent[i] /\ to[i] = at[i] /\ to[i - 1] = at[i - 1] /\ at[i - 1] \in Int
            /\ at[i] = at[i - 1] + Len(Encode(sent[i])) /\ at[i] <= w /\ Len(Encode(sent[i])) \in Nat
        BY <1>3, <1>5, <1>6, <1>7, <3>1
      <3>3. ASSUME NEW j \in 1 .. Len(Encode(sent[i])), at[i - 1] + j > 0
            PROVE  wire'[at[i - 1] + j] = Encode(sent[i])[j]
        <4> DEFINE x == at[i - 1]
                   y == Len(Encode(sent[i]))
        <4>1. x \in Int /\ y \in Nat /\ x + y <= w /\ x + j > 0 /\ j \in 1 .. y
          BY <3>2, <3>3
        <4>2. wire[x + j] = Encode(sent[i])[j]
          BY <1>5, <3>1, <3>3
        <4> HIDE DEF x, y
        <4>3. x + j \in 1 .. w + e /\ x + j <= w
          BY ONLY <1>2, <4>1
        <4>4. wire'[x + j] = wire[x + j]
          BY <1>4, <4>3
        <4> QED
          BY <4>2, <4>4 DEF x
      <3> QED
        BY <3>2, <3>3
    <2> QED
      BY <2>1, <2>2
  <1>10. Aligned(k, p, to)'
    <2>1. to[k] = 0 - p
      BY <1>2, <1>5, <1>7
    <2> QED
      BY <1>3, <1>4, <1>7, <1>8, <1>9, <2>1 DEF Aligned
  <1>11. k \in 0 .. Len(sent')
    BY <1>2, <1>3
  <1>12. k < Len(sent') => p < Len(Encode(sent'[k + 1]))
    <2>1. CASE k < n
      <3>1. k + 1 \in 1 .. n
        BY <1>2, <2>1
      <3> QED
        BY <1>3, <2>1, <3>1 DEF Position, n
    <2>2. CASE k = n
      <3>1. p = 0
        BY <1>2, <1>5, <2>2
      <3> QED
        BY <1>2, <1>3, <2>2, <3>1 DEF e
    <2> QED
      BY <1>2, <2>1, <2>2
  <1>13. \E a : Aligned(k, p, a)'
    BY <1>10
  <1> QED
    BY <1>2, <1>11, <1>12, <1>13 DEF Position

-----------------------------------------------------------------------------
(***************************************************************************)
(* What the host has decoded when it is there.                             *)
(***************************************************************************)
\* Within a run of data: between two bytes, or between an IAC and its escape.
InData(bytes, p, open) ==
    \E q \in 0 .. Len(bytes) - 1 :
        /\ current = open \o SubSeq(bytes, 1, q)
        /\ \/ state = "DATA" /\ p = Mark(bytes)[q]
           \/ state = "HAVE_IAC" /\ bytes[q + 1] = "IAC" /\ p = Mark(bytes)[q] + 1

\* The buffer holds the first q bytes, exactly if there is no IAC among them,
\* and up to the first one in any case.
Kept(bytes, q) ==
    /\ \A i \in 1 .. q : (\A j \in 1 .. i - 1 : bytes[j] # "IAC") => i <= Len(sb_buf) /\ sb_buf[i] = bytes[i]
    /\ (\A j \in 1 .. q : bytes[j] # "IAC") => Len(sb_buf) = q

\* Within a subnegotiation: between two bytes, and there the decoder may wait
\* for SE behind an escaped IAC; within an escaped IAC; or within IAC SE.
InSb(bytes, p) ==
    \/ \E q \in 0 .. Len(bytes) :
          /\ p = Mark(bytes)[q] /\ Kept(bytes, q)
          /\ state = "HAVE_SB" \/ (state = "HAVE_SB_IAC" /\ q > 0 /\ bytes[q] = "IAC")
    \/ \E q \in 0 .. Len(bytes) - 1 :
          /\ p = Mark(bytes)[q] + 1 /\ bytes[q + 1] = "IAC" /\ Kept(bytes, q)
          /\ state = "HAVE_SB_IAC"
    \/ p = Len(Escape(bytes)) + 1 /\ Kept(bytes, Len(bytes)) /\ state = "HAVE_SB_IAC"

\* Within an item, of which p bytes are read.
Within(item, p, open) ==
    \/ item.kind = "data" /\ InData(item.bytes, p, open)
    \/ item.kind # "data" /\ p = 1 /\ state = "HAVE_IAC" /\ current = open
    \/ item.kind = "verb" /\ p = 2 /\ state = "HAVE_VERB" /\ current = open
    \/ item.kind = "sb" /\ p >= 2 /\ InSb(item.bytes, p - 2) /\ current = open

Decoding(k, p) ==
    /\ taken \o records = History(sent)[k].done
    /\ p = 0 => state = "DATA" /\ current = History(sent)[k].open
    /\ p > 0 => Within(sent[k + 1], p, History(sent)[k].open)

Control ==
    /\ phase \in {"offer", "await", "negotiate", "idle", "receive"} \cup Ends
    /\ round \in 1 .. Rounds
    /\ state \in {"DATA", "HAVE_IAC", "HAVE_VERB", "HAVE_SB", "HAVE_SB_IAC"}
    /\ verb \in Verbs \cup {"unset"}
    /\ eof \in BOOLEAN /\ Len(sent) <= MaxItems

Buffers ==
    /\ sb_buf \in Seq(Bytes) /\ current \in Seq(Bytes) /\ term \in Seq(Bytes) /\ wire \in Seq(Bytes)
    /\ records \in Seq(Seq(Bytes)) /\ taken \in Seq(Seq(Bytes))
    /\ sent \in Seq(Items)

\* A terminal ends no record that it has not begun.
EndsBegun == \A i \in 1 .. Len(sent) : sent[i].kind = "eor" => History(sent)[i - 1].open # <<>>

InPlace == \E k, p : Position(k, p) /\ Decoding(k, p)

InOrder == Starts(taken \o records, SentRecords(sent).done)

DecodeInv ==
    /\ Control /\ Buffers /\ EndsBegun /\ TermFaithful /\ InOrder
    /\ phase \notin Ends => InPlace

-----------------------------------------------------------------------------
\* A read moves on within the item, or ends it.
LEMMA Progress ==
    ASSUME Buffers, wire # <<>>, wire' = Tail(wire), UNCHANGED sent,
           NEW CONSTANT k, NEW CONSTANT p, Position(k, p),
           NEW CONSTANT item, item = sent[k + 1], NEW CONSTANT r, r = History(sent)[k],
           p + 1 < Len(Encode(item)) =>
              taken' \o records' = r.done /\ Within(item, p + 1, r.open)',
           p + 1 = Len(Encode(item)) =>
              /\ taken' \o records' = Extended(r, item).done
              /\ state' = "DATA" /\ current' = Extended(r, item).open
    PROVE  InPlace' /\ InOrder'
  <1>1. /\ k \in Nat /\ k < Len(sent) /\ item \in Items
        /\ p \in Nat /\ p < Len(Encode(item)) /\ sent \in Seq(Items) /\ Len(sent) \in Nat
    BY NextByte DEF Buffers
  <1>2. Len(Encode(item)) \in Nat
    BY <1>1, EncodeFacts
  <1>3. k \in 0 .. Len(sent) /\ k + 1 \in 1 .. Len(sent) /\ k + 1 \in 0 .. Len(sent) /\ (k + 1) - 1 = k
    BY <1>1
  <1>4. History(sent)[k + 1] = Extended(r, item)
    <2>1. Recorded(sent, History(sent))
      BY <1>1, HistoryFacts
    <2> QED
      BY <1>3, <2>1 DEF Recorded
  <1>5. CASE p + 1 < Len(Encode(item))
    <2>1. Position(k, p + 1)'
      BY <1>5, ReadMoves DEF Buffers
    <2>2. Decoding(k, p + 1)'
      <3>1. sent' = sent /\ sent'[k + 1] = item /\ History(sent')[k] = r /\ p + 1 > 0 /\ p + 1 # 0
        BY <1>1
      <3> QED
        BY <1>5, <3>1 DEF Decoding
    <2>3. Starts(r.done, SentRecords(sent).done)
      BY <1>1, <1>3, HistoryGrows
    <2> QED
      BY <1>5, <2>1, <2>2, <2>3 DEF InPlace, InOrder
  <1>6. CASE p + 1 = Len(Encode(item))
    <2>1. Position(k + 1, 0)'
      BY <1>6, ReadMoves DEF Buffers
    <2>2. Decoding(k + 1, 0)'
      BY <1>4, <1>6 DEF Decoding
    <2>3. Starts(Extended(r, item).done, SentRecords(sent).done)
      BY <1>1, <1>3, <1>4, HistoryGrows
    <2> QED
      BY <1>6, <2>1, <2>2, <2>3 DEF InPlace, InOrder
  <1> QED
    BY <1>1, <1>2, <1>5, <1>6

\* What a read does in each state of the decoder.
LEMMA ReadsWhere ==
    ASSUME ReadByte, wire # <<>>, NEW CONSTANT b, b = Head(wire)
    PROVE  /\ state = "DATA" => ReadData(b)
           /\ state = "HAVE_IAC" /\ b = "IAC" => ReadEscaped(b)
           /\ state = "HAVE_IAC" /\ b = "EOR" => ReadEndOfRecord(b)
           /\ state = "HAVE_IAC" /\ b \in Verbs => ReadVerb(b)
           /\ state = "HAVE_IAC" /\ b = "SB" => ReadSubnegotiation(b)
           /\ state = "HAVE_IAC" /\ b = "NOP" => ReadUnknown(b)
           /\ state = "HAVE_VERB" => ReadOption(b) \/ ReplyFails(b)
           /\ state = "HAVE_SB" => ReadSb(b)
           /\ state = "HAVE_SB_IAC" =>
                 \/ b = "IAC" /\ ReadSbEscaped(b)
                 \/ b = "SE" /\ ReadSbEnd(b)
                 \/ b \notin {"IAC", "SE"} /\ ReadSbOther(b)
           /\ wire' = Tail(wire) /\ UNCHANGED <<round, eof, sent, taken>> /\ Receiving
  BY DEF ReadByte, ReadData, ReadEscaped, ReadEndOfRecord, ReadVerb, ReadSubnegotiation, ReadUnknown,
         ReadOption, ReplyFails, ReadSb, ReadSbEscaped, ReadSbEnd, ReadSbOther, Verbs, Reads, terminalVars

\* The bytes of a run that are read, and one more.
LEMMA OneMore ==
    ASSUME NEW open \in Seq(Bytes), NEW bytes \in Seq(Bytes), NEW q \in 0 .. Len(bytes) - 1
    PROVE  /\ Append(open \o SubSeq(bytes, 1, q), bytes[q + 1]) = open \o SubSeq(bytes, 1, q + 1)
           /\ SubSeq(bytes, 1, Len(bytes)) = bytes
           /\ open \o SubSeq(bytes, 1, 0) = open
  <1> DEFINE n == Len(bytes)
             a == SubSeq(bytes, 1, q)
             c == SubSeq(bytes, 1, q + 1)
             L == Append(open \o a, bytes[q + 1])
             R == open \o c
  <1>1. n \in Nat /\ q \in Nat /\ q + 1 <= n /\ q + 1 \in 1 .. n /\ Len(open) \in Nat
    OBVIOUS
  <1>2. a \in Seq(Bytes) /\ Len(a) = q /\ \A i \in 1 .. q : a[i] = bytes[i]
    BY <1>1
  <1>3. c \in Seq(Bytes) /\ Len(c) = q + 1 /\ \A i \in 1 .. q + 1 : c[i] = bytes[i]
    BY <1>1
  <1>4. SubSeq(bytes, 1, n) = bytes
    <2>1. SubSeq(bytes, 1, n) \in Seq(Bytes) /\ Len(SubSeq(bytes, 1, n)) = n
          /\ \A i \in 1 .. n : SubSeq(bytes, 1, n)[i] = bytes[i]
      BY <1>1
    <2> QED
      BY <2>1, SeqEqual
  <1>5. open \o SubSeq(bytes, 1, 0) = open
    <2>1. SubSeq(bytes, 1, 0) = <<>>
      BY <1>1
    <2> QED
      BY <2>1, ConcatEmptySeq
  <1> HIDE DEF a, c
  <1>6. /\ open \o a \in Seq(Bytes) /\ Len(open \o a) = Len(open) + q
        /\ \A i \in 1 .. Len(open) + q : (open \o a)[i] = IF i <= Len(open) THEN open[i] ELSE a[i - Len(open)]
    BY <1>1, <1>2, ConcatProperties
  <1>7. /\ R \in Seq(Bytes) /\ Len(R) = Len(open) + (q + 1)
        /\ \A i \in 1 .. Len(open) + (q + 1) : R[i] = IF i <= Len(open) THEN open[i] ELSE c[i - Len(open)]
    BY <1>1, <1>3, ConcatProperties
  <1>8. bytes[q + 1] \in Bytes
    BY <1>1
  <1>9. /\ L \in Seq(Bytes) /\ Len(L) = Len(open) + q + 1
        /\ L[Len(open) + q + 1] = bytes[q + 1] /\ \A i \in 1 .. Len(open) + q : L[i] = (open \o a)[i]
    BY <1>1, <1>6, <1>8, AppendProperties
  <1>10. Len(L) = Len(R) /\ Len(L) \in Nat
    BY <1>1, <1>7, <1>9
  <1> HIDE DEF L, R
  <1>11. ASSUME NEW i \in 1 .. Len(L) PROVE L[i] = R[i]
    <2>1. CASE i = Len(open) + q + 1
      <3>1. i \in 1 .. Len(open) + (q + 1) /\ ~(i <= Len(open)) /\ i - Len(open) = q + 1 /\ q + 1 \in 1 .. q + 1
        BY <1>1, <2>1
      <3> QED
        BY <1>3, <1>7, <1>9, <2>1, <3>1
    <2>2. CASE i # Len(open) + q + 1
      <3>1. i \in 1 .. Len(open) + q /\ i \in 1 .. Len(open) + (q + 1)
        <4>1. i \in 1 .. (Len(open) + q + 1)
          BY <1>9
        <4> QED
          BY ONLY <1>1, <2>2, <4>1
      <3>2. ~(i <= Len(open)) => i - Len(open) \in 1 .. q /\ i - Len(open) \in 1 .. q + 1
        BY <1>1, <3>1
      <3>3. L[i] = (open \o a)[i]
        BY <1>9, <3>1
      <3>4. (open \o a)[i] = IF i <= Len(open) THEN open[i] ELSE a[i - Len(open)]
        BY <1>6, <3>1
      <3>5. R[i] = IF i <= Len(open) THEN open[i] ELSE c[i - Len(open)]
        BY <1>7, <3>1
      <3>6. ~(i <= Len(open)) => a[i - Len(open)] = c[i - Len(open)]
        BY <1>2, <1>3, <3>2
      <3> QED
        BY <3>3, <3>4, <3>5, <3>6
    <2> QED
      BY <2>1, <2>2
  <1>12. L = R
    BY <1>7, <1>9, <1>10, <1>11, SeqEqual
  <1> QED
    BY <1>4, <1>5, <1>12 DEF L, R, a, c

\* A read that finds the host in its place.
Reading(k, p, item, r, b) ==
    /\ Buffers /\ EndsBegun /\ wire # <<>> /\ ReadByte
    /\ Position(k, p) /\ Decoding(k, p)
    /\ item = sent[k + 1] /\ r = History(sent)[k] /\ b = Head(wire)

\* What such a read may rely on.
LEMMA ReadingFacts ==
    ASSUME NEW CONSTANT k, NEW CONSTANT p, NEW CONSTANT item, NEW CONSTANT r, NEW CONSTANT b,
           Reading(k, p, item, r, b)
    PROVE  /\ k \in Nat /\ k < Len(sent) /\ item \in Items /\ r \in Log
           /\ p \in Nat /\ Len(Encode(item)) \in Nat /\ p < Len(Encode(item))
           /\ b = Encode(item)[p + 1] /\ b \in Bytes
           /\ taken \o records = r.done
           /\ p = 0 => state = "DATA" /\ current = r.open
           /\ p > 0 => Within(item, p, r.open)
           /\ item.kind = "eor" => r.open # <<>>
           /\ wire' = Tail(wire) /\ UNCHANGED <<sent, taken>>
  <1>1. /\ k \in Nat /\ k < Len(sent) /\ item \in Items /\ Len(sent) \in Nat
        /\ p \in Nat /\ p < Len(Encode(item)) /\ b = Encode(item)[p + 1]
    BY NextByte DEF Buffers, Reading
  <1>2. Len(Encode(item)) \in Nat
    BY <1>1, EncodeFacts
  <1>3. k \in 0 .. Len(sent) /\ k + 1 \in 1 .. Len(sent) /\ (k + 1) - 1 = k
    BY <1>1
  <1>4. r \in Log
    <2>1. Recorded(sent, History(sent))
      BY HistoryFacts DEF Reading, Buffers
    <2> QED
      BY <1>3, <2>1 DEF Recorded, Reading
  <1>5. item.kind = "eor" => r.open # <<>>
    BY <1>3 DEF Reading, EndsBegun
  <1>6. b \in Bytes
    BY HeadTailProperties DEF Reading, Buffers
  <1>7. wire' = Tail(wire) /\ UNCHANGED <<sent, taken>>
    BY ReadsWhere DEF Reading
  <1> QED
    BY <1>1, <1>2, <1>4, <1>5, <1>6, <1>7 DEF Reading, Decoding

\* A byte of a record.
LEMMA DataRead ==
    ASSUME NEW CONSTANT k, NEW CONSTANT p, NEW CONSTANT item, NEW CONSTANT r, NEW CONSTANT b,
           Reading(k, p, item, r, b), item.kind = "data"
    PROVE  InPlace' /\ InOrder'
  <1> DEFINE s == item.bytes
             n == Len(s)
             m == Mark(s)
             e == Escape(s)
  <1>1. /\ item \in Items /\ r \in Log /\ p \in Nat /\ Len(Encode(item)) \in Nat /\ p < Len(Encode(item))
        /\ b = Encode(item)[p + 1] /\ taken \o records = r.done
        /\ p = 0 => state = "DATA" /\ current = r.open
        /\ p > 0 => Within(item, p, r.open)
        /\ wire' = Tail(wire) /\ UNCHANGED <<sent, taken>>
    BY ReadingFacts
  <1>2. Encode(item) = e /\ s \in Seq(Bytes) /\ r.open \in Seq(Bytes) /\ s # <<>>
    BY <1>1, EncodeFacts, ItemKinds, PiecesTyped, StreamAssumption DEF Log
  <1>3. /\ n \in Nat /\ n > 0 /\ m[0] = 0 /\ m[n] = Len(e)
        /\ \A q \in 0 .. n : m[q] \in Nat /\ m[q] <= Len(e)
        /\ \A q \in 0 .. n - 1 :
              /\ m[q + 1] = m[q] + (IF s[q + 1] = "IAC" THEN 2 ELSE 1)
              /\ e[m[q] + 1] = s[q + 1] /\ (s[q + 1] = "IAC" => e[m[q] + 2] = "IAC")
    <2>1. n \in Nat \ {0}
      BY <1>2, EmptySeq
    <2> HIDE DEF s
    <2> QED
      BY <1>2, <2>1, MarkFacts
  <1> HIDE DEF s, n, m, e
  <1>4. PICK q \in 0 .. n - 1 :
          /\ current = r.open \o SubSeq(s, 1, q)
          /\ \/ state = "DATA" /\ p = m[q]
             \/ state = "HAVE_IAC" /\ s[q + 1] = "IAC" /\ p = m[q] + 1
    <2>1. CASE p = 0
      <3>1. 0 \in 0 .. n - 1
        BY <1>3
      <3>2. r.open \o SubSeq(s, 1, 0) = r.open
        BY <1>2, <3>1, OneMore DEF n
      <3> QED
        BY <1>1, <1>3, <2>1, <3>1, <3>2
    <2>2. CASE p # 0
      <3>1. p > 0
        BY <1>1, <2>2
      <3>2. InData(s, p, r.open)
        BY <1>1, <3>1 DEF Within, s
      <3> QED
        BY <3>2 DEF InData, n, m
    <2> QED
      BY <2>1, <2>2
  <1>5. /\ q \in 0 .. n /\ q + 1 \in 0 .. n /\ m[q] \in Nat /\ m[q + 1] \in Nat /\ m[q + 1] <= Len(e)
        /\ (q + 1 # n => q + 1 \in 0 .. n - 1)
    BY <1>3
  <1>6. q + 1 # n => m[q + 1] < Len(e)
    <2> SUFFICES ASSUME q + 1 # n PROVE m[q + 1] < Len(e)
      OBVIOUS
    <2> DEFINE t == q + 1
    <2>1. t \in 0 .. n - 1 /\ t + 1 \in 0 .. n
      BY <1>3, <1>5
    <2>2. m[t + 1] = m[t] + (IF s[t + 1] = "IAC" THEN 2 ELSE 1) /\ m[t + 1] <= Len(e)
      BY <1>3, <2>1
    <2>3. Len(e) \in Nat
      BY <1>1, <1>2
    <2>4. m[t] \in Nat
      BY <1>5
    <2> HIDE DEF t
    <2>5. m[t] < Len(e)
      BY <2>2, <2>3, <2>4
    <2> QED
      BY <2>5 DEF t
  <1>7. Append(r.open \o SubSeq(s, 1, q), s[q + 1]) = r.open \o SubSeq(s, 1, q + 1) /\ SubSeq(s, 1, n) = s
    BY <1>2, OneMore DEF n
  \* The byte is complete.
  <1>8. ASSUME p + 1 = m[q + 1], state' = "DATA", current' = Append(current, s[q + 1]), UNCHANGED records
        PROVE  InPlace' /\ InOrder'
    <2>1. current' = r.open \o SubSeq(s, 1, q + 1)
      BY <1>4, <1>7, <1>8
    <2>2. ASSUME p + 1 < Len(Encode(item)) PROVE Within(item, p + 1, r.open)'
      <3>1. q + 1 # n
        BY <1>2, <1>3, <1>5, <1>8, <2>2
      <3>2. q + 1 \in 0 .. n - 1
        BY <1>5, <3>1
      <3>3. InData(s, p + 1, r.open)'
        BY <1>8, <2>1, <3>2 DEF InData, n, m, s
      <3> QED
        BY <3>3 DEF Within, s
    <2>3. ASSUME p + 1 = Len(Encode(item)) PROVE current' = Extended(r, item).open
      <3>1. q + 1 = n
        BY <1>2, <1>5, <1>6, <1>8, <2>3
      <3>2. current' = r.open \o s
        BY <1>7, <2>1, <3>1
      <3> QED
        BY <1>1, <3>2 DEF Extended, s, Log
    <2>4. Extended(r, item).done = r.done
      BY <1>1 DEF Extended, Log
    <2>5. taken' \o records' = r.done
      BY <1>1, <1>8
    <2>6. /\ Buffers /\ wire # <<>> /\ Position(k, p) /\ item = sent[k + 1] /\ r = History(sent)[k]
          /\ wire' = Tail(wire) /\ sent' = sent
      BY <1>1 DEF Reading
    <2> QED
      BY <1>8, <2>2, <2>3, <2>4, <2>5, <2>6, Progress
  <1>9. CASE state = "DATA" /\ p = m[q]
    <2>1. ReadData(b) /\ b = s[q + 1]
      BY <1>1, <1>2, <1>3, <1>9, ReadsWhere DEF Reading
    <2>2. CASE b = "IAC"
      <3>1. state' = "HAVE_IAC" /\ UNCHANGED <<current, records>>
        BY <2>1, <2>2 DEF ReadData
      <3>2. p + 1 < Len(Encode(item))
        <4>1. m[q + 1] = p + 2
          BY <1>3, <1>9, <2>1, <2>2
        <4> QED
          BY <1>1, <1>2, <1>5, <4>1
      <3>3. InData(s, p + 1, r.open)'
        BY <1>4, <1>9, <2>1, <2>2, <3>1 DEF InData, n, m, s
      <3>4. Within(item, p + 1, r.open)'
        BY <3>3 DEF Within, s
      <3>5. taken' \o records' = r.done /\ p + 1 # Len(Encode(item))
        BY <1>1, <3>1, <3>2
      <3> QED
        BY <1>1, <3>4, <3>5, Progress DEF Reading
    <2>3. CASE b # "IAC"
      <3>1. state' = "DATA" /\ current' = Append(current, s[q + 1]) /\ UNCHANGED records
        BY <1>9, <2>1, <2>3 DEF ReadData, AppendByte
      <3>2. p + 1 = m[q + 1]
        BY <1>3, <1>9, <2>1, <2>3
      <3> QED
        BY <1>8, <3>1, <3>2
    <2> QED
      BY <2>2, <2>3
  <1>10. CASE state = "HAVE_IAC" /\ s[q + 1] = "IAC" /\ p = m[q] + 1
    <2>1. b = "IAC"
      <3>1. p + 1 = m[q] + 2
        BY <1>5, <1>10
      <3> QED
        BY <1>1, <1>2, <1>3, <1>10, <3>1
    <2>2. ReadEscaped(b)
      BY <1>10, <2>1, ReadsWhere DEF Reading
    <2>3. state' = "DATA" /\ current' = Append(current, s[q + 1]) /\ UNCHANGED records
      BY <1>10, <2>1, <2>2 DEF ReadEscaped, AppendByte
    <2>4. p + 1 = m[q + 1]
      BY <1>3, <1>5, <1>10
    <2> QED
      BY <1>8, <2>3, <2>4
  <1> QED
    BY <1>4, <1>9, <1>10

\* The records after one more has ended.
LEMMA RecordEnded ==
    ASSUME taken \in Seq(Seq(Bytes)), records \in Seq(Seq(Bytes)), current \in Seq(Bytes)
    PROVE  taken \o Append(records, current) = Append(taken \o records, current)
  BY AppendIsConcat, ConcatAssociative, ConcatProperties

\* A byte of an end of record or of NOP, or of a verb and its option.
LEMMA CodeRead ==
    ASSUME NEW CONSTANT k, NEW CONSTANT p, NEW CONSTANT item, NEW CONSTANT r, NEW CONSTANT b,
           Reading(k, p, item, r, b), item.kind \in {"eor", "nop", "verb"}
    PROVE  (InPlace' /\ InOrder') \/ (state = "HAVE_VERB" /\ ReplyFails(b))
  <1>1. /\ item \in Items /\ r \in Log /\ p \in Nat /\ Len(Encode(item)) \in Nat /\ p < Len(Encode(item))
        /\ b = Encode(item)[p + 1] /\ taken \o records = r.done
        /\ p = 0 => state = "DATA" /\ current = r.open
        /\ p > 0 => Within(item, p, r.open)
        /\ item.kind = "eor" => r.open # <<>>
        /\ wire' = Tail(wire) /\ UNCHANGED <<sent, taken>>
    BY ReadingFacts
  <1>0. /\ Buffers /\ wire # <<>> /\ Position(k, p) /\ item = sent[k + 1] /\ r = History(sent)[k]
        /\ wire' = Tail(wire) /\ sent' = sent
    BY <1>1 DEF Reading
  <1>2. CASE p = 0
    <2>1. b = "IAC" /\ p + 1 < Len(Encode(item))
      <3>1. \/ Encode(item) = <<"IAC", "EOR">> \/ Encode(item) = <<"IAC", "NOP">>
            \/ Encode(item) = <<"IAC", item.verb, item.what>>
        BY <1>1, EncodeFacts
      <3>2. Encode(item)[1] = "IAC" /\ Len(Encode(item)) \in {2, 3}
        BY <3>1
      <3>3. p + 1 = 1
        BY <1>2
      <3>4. p + 1 < Len(Encode(item))
        BY ONLY <3>2, <3>3
      <3>5. b = Encode(item)[p + 1]
        BY <1>1
      <3> QED
        BY <3>2, <3>3, <3>4, <3>5
    <2>2. ReadData(b)
      BY <1>1, <1>2, ReadsWhere DEF Reading
    <2>3. state' = "HAVE_IAC" /\ UNCHANGED <<current, records>>
      BY <2>1, <2>2 DEF ReadData
    <2>4. Within(item, p + 1, r.open)'
      BY <1>1, <1>2, <2>3 DEF Within
    <2>5. taken' \o records' = r.done /\ p + 1 # Len(Encode(item))
      BY <1>1, <2>1, <2>3
    <2> QED
      BY <1>1, <2>4, <2>5, Progress DEF Reading
  <1>3. CASE p = 1 /\ item.kind # "verb"
    <2>1. state = "HAVE_IAC" /\ current = r.open
      BY <1>1, <1>3 DEF Within
    <2>2. p + 1 = Len(Encode(item)) /\ (item.kind = "eor" => b = "EOR") /\ (item.kind = "nop" => b = "NOP")
      BY <1>1, <1>3, EncodeFacts
    <2>3. state' = "DATA" /\ taken' \o records' = Extended(r, item).done /\ current' = Extended(r, item).open
      <3>1. CASE item.kind = "eor"
        <4>1. ReadEndOfRecord(b)
          BY <2>1, <2>2, <3>1, ReadsWhere DEF Reading
        <4>2. state' = "DATA" /\ records' = Append(records, current) /\ current' = <<>>
          BY <1>1, <2>1, <3>1, <4>1 DEF ReadEndOfRecord, EndRecord
        <4>3. taken' \o records' = Append(r.done, r.open)
          BY <1>1, <2>1, <4>2, RecordEnded DEF Reading, Buffers
        <4>4. Extended(r, item) = [done |-> Append(r.done, r.open), open |-> <<>>]
          BY <3>1 DEF Extended
        <4> QED
          BY <4>2, <4>3, <4>4
      <3>2. CASE item.kind = "nop"
        <4>1. ReadUnknown(b)
          BY <2>1, <2>2, <3>2, ReadsWhere DEF Reading
        <4>2. Extended(r, item) = r
          BY <3>2 DEF Extended
        <4> QED
          BY <1>1, <2>1, <4>1, <4>2 DEF ReadUnknown
      <3> QED
        BY <1>3, <3>1, <3>2
    <2> QED
      BY <1>1, <2>2, <2>3, Progress DEF Reading
  <1>4. CASE p = 1 /\ item.kind = "verb"
    <2>1. state = "HAVE_IAC" /\ current = r.open
      BY <1>1, <1>4 DEF Within
    <2>2. p + 1 < Len(Encode(item)) /\ b = item.verb /\ b \in Verbs
      BY <1>1, <1>4, EncodeFacts, ItemKinds, StreamAssumption
    <2>3. ReadVerb(b)
      BY <2>1, <2>2, ReadsWhere DEF Reading
    <2>4. state' = "HAVE_VERB" /\ UNCHANGED <<current, records>>
      BY <2>3 DEF ReadVerb
    <2>5. Within(item, p + 1, r.open)'
      BY <1>4, <2>1, <2>4 DEF Within
    <2>6. taken' \o records' = r.done /\ p + 1 # Len(Encode(item))
      BY <1>1, <2>2, <2>4
    <2> QED
      BY <1>1, <2>5, <2>6, Progress DEF Reading
  <1>5. CASE p = 2 /\ item.kind = "verb"
    <2>1. state = "HAVE_VERB" /\ current = r.open
      BY <1>1, <1>5 DEF Within
    <2>2. p + 1 = Len(Encode(item))
      BY <1>1, <1>5, EncodeFacts
    <2>3. CASE ReadOption(b)
      <3>1. state' = "DATA" /\ UNCHANGED <<current, records>>
        BY <2>3 DEF ReadOption
      <3>2. Extended(r, item) = r
        BY <1>5 DEF Extended
      <3>3. taken' \o records' = r.done
        BY <1>1, <3>1
      <3>4. p + 1 = Len(Encode(item)) /\ ~(p + 1 < Len(Encode(item))) /\ current' = r.open
        BY <1>1, <2>1, <2>2, <3>1
      <3> QED
        BY <1>0, <3>1, <3>2, <3>3, <3>4, Progress
    <2>4. CASE ReplyFails(b)
      BY <2>1, <2>4
    <2> QED
      BY <2>1, <2>3, <2>4, ReadsWhere DEF Reading
  <1>6. p = 0 \/ p = 1 \/ (p = 2 /\ item.kind = "verb")
    BY <1>1, EncodeFacts
  <1> QED
    BY <1>2, <1>3, <1>4, <1>5, <1>6

-----------------------------------------------------------------------------
(***************************************************************************)
(* Subnegotiations.                                                        *)
(***************************************************************************)
LEMMA StartsIsPrefix ==
    ASSUME NEW S, NEW a \in Seq(S), NEW b \in Seq(S), Starts(a, b)
    PROVE  IsPrefix(a, b)
  <1> DEFINE n == Len(a)
  <1>1. n \in Nat /\ Len(b) \in Nat /\ n <= Len(b)
    BY DEF Starts
  <1>2. SubSeq(a, 1, n) \in Seq(S) /\ Len(SubSeq(a, 1, n)) = n
        /\ \A i \in 1 .. n : SubSeq(a, 1, n)[i] = a[i]
    BY <1>1
  <1>3. SubSeq(b, 1, n) \in Seq(S) /\ Len(SubSeq(b, 1, n)) = n
        /\ \A i \in 1 .. n : SubSeq(b, 1, n)[i] = b[i]
    BY <1>1
  <1>4. SubSeq(a, 1, n) = SubSeq(b, 1, n)
    BY <1>2, <1>3, SeqEqual DEF Starts
  <1> QED
    BY <1>1, <1>4 DEF IsPrefix

\* UpTo finds the first IAC, if there is one.
LEMMA UpToFacts ==
    ASSUME NEW name \in Seq(Bytes)
    PROVE  LET u == UpTo(name, "IAC") IN
           \/ u = 0 /\ \A i \in 1 .. Len(name) : name[i] # "IAC"
           \/ u \in 1 .. Len(name) /\ name[u] = "IAC" /\ \A i \in 1 .. u - 1 : name[i] # "IAC"
  <1> DEFINE I == {i \in 1 .. Len(name) : name[i] = "IAC"}
  <1>1. UpTo(name, "IAC") = IF I # {} THEN Min(I) ELSE 0
    BY DEF UpTo, SelectInSeq
  <1>2. CASE I = {}
    BY <1>1, <1>2
  <1>3. CASE I # {}
    <2>1. I \subseteq Nat
      OBVIOUS
    <2>2. PICK x \in I : \A y \in I : x <= y
      <3> HIDE DEF I
      <3> QED
        BY <1>3, <2>1, Least
    <2>3. Min(I) \in I /\ \A y \in I : Min(I) <= y
      <3> HIDE DEF I
      <3> QED
        BY <2>2 DEF Min
    <2> DEFINE u == Min(I)
    <2> HIDE DEF u
    <2>4. u \in I /\ \A y \in I : u <= y
      BY <2>3 DEF u
    <2>5. \A i \in 1 .. u - 1 : name[i] # "IAC"
      <3> SUFFICES ASSUME NEW i \in 1 .. u - 1, name[i] = "IAC" PROVE FALSE
        OBVIOUS
      <3>1. Len(name) \in Nat /\ u \in 1 .. Len(name)
        BY <2>4
      <3>2. i \in 1 .. Len(name) /\ ~(u <= i)
        BY <3>1
      <3> QED
        BY <2>4, <3>2
    <2>6. UpTo(name, "IAC") = u
      BY <1>1, <1>3 DEF u
    <2> QED
      BY <2>4, <2>5, <2>6
  <1> QED
    BY <1>2, <1>3

\* What becomes of TERM.
LEMMA TermNamed ==
    ASSUME sb_buf \in Seq(Bytes), NEW CONSTANT s \in SbData, Kept(s, Len(s)),
           sb_buf # <<>>, sb_buf[1] = "TERMINAL_TYPE", HostSb(sb_buf) # <<>>
    PROVE  IsPrefix(<<"TERMINAL_TYPE", "IS">> \o HostSb(sb_buf), s)
  <1> DEFINE n == Len(s)
             w == Len(sb_buf)
             name == SubSeq(sb_buf, 3, w)
             u == UpTo(name, "IAC")
             t == HostSb(sb_buf)
  <1>1. /\ s \in Seq(Bytes) /\ n \in Nat /\ w \in Nat
        /\ n > 1 /\ s[1] = "TERMINAL_TYPE" => s[2] = "IS"
    BY PiecesTyped, StreamAssumption
  <1>2. t = IF u = 0 THEN name ELSE SubSeq(name, 1, u - 1)
    BY DEF HostSb
  <1>3. name \in Seq(Bytes) /\ \A i \in 1 .. Len(name) : i + 2 \in 1 .. w /\ name[i] = sb_buf[i + 2]
    <2>1. CASE 3 <= w
      <3>1. \A i \in 3 .. w : sb_buf[i] \in Bytes
        BY <1>1
      <3>2. name \in Seq(Bytes) /\ Len(name) = w - 2 /\ \A i \in 1 .. w - 2 : name[i] = sb_buf[3 + i - 1]
        BY <1>1, <2>1, <3>1, SubSeqProperties
      <3>3. \A i \in 1 .. w - 2 : 3 + i - 1 = i + 2 /\ i + 2 \in 1 .. w
        BY <1>1
      <3> QED
        BY <3>2, <3>3
    <2>2. CASE ~(3 <= w)
      <3>1. name = <<>>
        BY <1>1, <2>2
      <3> QED
        BY <3>1
    <2> QED
      BY <2>1, <2>2
  <1>4. \/ u = 0 /\ \A i \in 1 .. Len(name) : name[i] # "IAC"
        \/ u \in 1 .. Len(name) /\ name[u] = "IAC" /\ \A i \in 1 .. u - 1 : name[i] # "IAC"
    <2> HIDE DEF name
    <2> QED
      BY <1>3, UpToFacts
  <1> HIDE DEF name, u, t
  <1> DEFINE c == Len(t)
  <1>5. /\ t \in Seq(Bytes) /\ c \in Nat /\ c <= Len(name)
        /\ \A i \in 1 .. c : t[i] = name[i] /\ name[i] # "IAC"
    <2>1. CASE u = 0
      BY <1>2, <1>3, <1>4, <2>1
    <2>2. CASE u # 0
      <3>1. u \in 1 .. Len(name) /\ Len(name) \in Nat /\ t = SubSeq(name, 1, u - 1)
        BY <1>2, <1>3, <1>4, <2>2
      <3>2. t \in Seq(Bytes) /\ Len(t) = u - 1 /\ \A i \in 1 .. u - 1 : t[i] = name[i]
        BY <1>3, <3>1
      <3> QED
        BY <1>4, <2>2, <3>1, <3>2
    <2> QED
      BY <2>1, <2>2
  <1>6. c > 0
    <2>1. t # <<>>
      BY DEF t
    <2> QED
      BY <1>5, <2>1
  <1>7. \A i \in 1 .. c : i \in 1 .. Len(name) /\ i + 2 \in 1 .. w /\ t[i] = sb_buf[i + 2] /\ sb_buf[i + 2] # "IAC"
    <2> SUFFICES ASSUME NEW i \in 1 .. c
                 PROVE  i \in 1 .. Len(name) /\ i + 2 \in 1 .. w /\ t[i] = sb_buf[i + 2] /\ sb_buf[i + 2] # "IAC"
      OBVIOUS
    <2>1. Len(name) \in Nat
      BY <1>3
    <2>2. i \in 1 .. Len(name)
      BY <1>5, <2>1
    <2> QED
      BY <1>3, <1>5, <2>2
  <1>8. c + 2 <= w
    <2>1. c \in 1 .. c
      BY <1>5, <1>6
    <2>2. c + 2 \in 1 .. w
      BY <1>7, <2>1
    <2> QED
      BY <1>1, <2>2
  <1> HIDE DEF c, n, w
  <1>9. /\ \A i \in 1 .. n : (\A j \in 1 .. i - 1 : s[j] # "IAC") => i <= w /\ sb_buf[i] = s[i]
        /\ (\A j \in 1 .. n : s[j] # "IAC") => w = n
    BY DEF Kept, n, w
  <1>10. n > 0 => s[1] = "TERMINAL_TYPE"
    <2> SUFFICES ASSUME n > 0 PROVE s[1] = "TERMINAL_TYPE"
      OBVIOUS
    <2>1. 1 \in 1 .. n /\ \A j \in 1 .. 1 - 1 : s[j] # "IAC"
      BY <1>1
    <2> QED
      BY <1>9, <2>1
  <1>11. \A j \in 1 .. n : j <= c + 2 => s[j] # "IAC"
    <2> DEFINE J == {j \in 1 .. n : j <= c + 2 /\ s[j] = "IAC"}
    <2> SUFFICES ASSUME J # {} PROVE FALSE
      OBVIOUS
    <2>1. J \subseteq Nat
      BY <1>1
    <2>2. PICK x \in J : \A y \in J : x <= y
      <3> HIDE DEF J
      <3> QED
        BY <2>1, Least
    <2>3. \A j \in 1 .. x - 1 : s[j] # "IAC"
      <3> SUFFICES ASSUME NEW j \in 1 .. x - 1, s[j] = "IAC" PROVE FALSE
        OBVIOUS
      <3>1. j \in 1 .. n /\ j <= c + 2 /\ ~(x <= j)
        BY <1>1, <1>5, <2>2
      <3> QED
        BY <2>2, <3>1
    <2>4. x \in 1 .. n /\ x <= c + 2 /\ s[x] = "IAC" /\ sb_buf[x] = "IAC"
      BY <1>9, <2>2, <2>3
    <2>5. x # 1 /\ x # 2
      <3>1. n > 0 /\ (x = 2 => n > 1)
        BY <1>1, <2>4
      <3> QED
        BY <1>1, <1>10, <2>4, <3>1
    <2>6. x - 2 \in 1 .. c /\ (x - 2) + 2 = x
      BY <1>1, <1>5, <2>4, <2>5
    <2> QED
      BY <1>7, <2>4, <2>6
  <1>12. c + 2 <= n
    <2> SUFFICES ASSUME ~(c + 2 <= n) PROVE FALSE
      OBVIOUS
    <2>1. \A j \in 1 .. n : j <= c + 2
      BY <1>1, <1>5
    <2>2. w = n
      BY <1>9, <1>11, <2>1
    <2> QED
      BY <1>1, <1>5, <1>8, <2>2
  <1>13. \A i \in 1 .. c + 2 : i \in 1 .. n /\ sb_buf[i] = s[i]
    <2> SUFFICES ASSUME NEW i \in 1 .. c + 2 PROVE i \in 1 .. n /\ sb_buf[i] = s[i]
      OBVIOUS
    <2>1. i \in 1 .. n /\ \A j \in 1 .. i - 1 : j \in 1 .. n /\ j <= c + 2
      BY <1>1, <1>5, <1>12
    <2> QED
      BY <1>9, <1>11, <2>1
  <1> DEFINE h == <<"TERMINAL_TYPE", "IS">>
             a == h \o t
  <1>14. h \in Seq(Bytes \cup {"TERMINAL_TYPE", "IS"}) /\ Len(h) = 2 /\ h[1] = "TERMINAL_TYPE" /\ h[2] = "IS"
    OBVIOUS
  <1>15. t \in Seq(Bytes \cup {"TERMINAL_TYPE", "IS"}) /\ s \in Seq(Bytes \cup {"TERMINAL_TYPE", "IS"})
    BY <1>1, <1>5
  <1> HIDE DEF h
  <1>16. /\ a \in Seq(Bytes \cup {"TERMINAL_TYPE", "IS"}) /\ Len(a) = 2 + c
         /\ \A i \in 1 .. 2 + c : a[i] = IF i <= 2 THEN h[i] ELSE t[i - 2]
    <2>1. /\ a \in Seq(Bytes \cup {"TERMINAL_TYPE", "IS"}) /\ Len(a) = Len(h) + Len(t)
          /\ \A i \in 1 .. Len(h) + Len(t) : a[i] = IF i <= Len(h) THEN h[i] ELSE t[i - Len(h)]
      BY <1>14, <1>15, ConcatProperties
    <2> HIDE DEF a
    <2> QED
      BY <1>14, <2>1 DEF c
  <1> HIDE DEF a
  <1>17. s[1] = "TERMINAL_TYPE" /\ s[2] = "IS"
    <2>1. n > 1 /\ n > 0
      BY <1>1, <1>5, <1>6, <1>12
    <2> QED
      BY <1>1, <1>10, <2>1
  <1>18. ASSUME NEW i \in 1 .. Len(a) PROVE s[i] = a[i]
    <2>1. i \in 1 .. 2 + c
      BY <1>16
    <2>2. CASE i = 1 \/ i = 2
      BY <1>14, <1>16, <1>17, <2>1, <2>2
    <2>3. CASE ~(i = 1 \/ i = 2)
      <3>1. i - 2 \in 1 .. c /\ (i - 2) + 2 = i /\ ~(i <= 2) /\ i \in 1 .. c + 2
        BY <1>5, <2>1, <2>3
      <3> QED
        BY <1>7, <1>13, <1>16, <2>1, <3>1
    <2> QED
      BY <2>2, <2>3
  <1>19. Starts(a, s)
    <2>1. Len(a) <= Len(s)
      BY <1>1, <1>5, <1>12, <1>16 DEF n
    <2> QED
      BY <1>18, <2>1 DEF Starts
  <1> QED
    BY <1>15, <1>16, <1>19, StartsIsPrefix DEF a, h, t

\* The buffer of a subnegotiation takes the next byte, or, once there is an IAC
\* in it, any byte or none.
LEMMA KeptNext ==
    ASSUME sb_buf \in Seq(Bytes), NEW CONSTANT s \in Seq(Bytes), NEW CONSTANT q \in 0 .. Len(s) - 1,
           Kept(s, q), sb_buf' = Append(sb_buf, s[q + 1])
    PROVE  Kept(s, q + 1)'
  <1> DEFINE w == Len(sb_buf)
  <1>1. /\ w \in Nat /\ q \in Nat /\ Len(s) \in Nat
        /\ \A i \in 1 .. q : (\A j \in 1 .. i - 1 : s[j] # "IAC") => i <= w /\ sb_buf[i] = s[i]
        /\ (\A j \in 1 .. q : s[j] # "IAC") => w = q
    BY DEF Kept
  <1>2. Len(sb_buf') = w + 1 /\ sb_buf'[w + 1] = s[q + 1] /\ \A i \in 1 .. w : sb_buf'[i] = sb_buf[i]
    <2>1. s[q + 1] \in Bytes
      BY <1>1
    <2> QED
      BY <2>1, AppendProperties
  <1> HIDE DEF w
  <1>3. ASSUME NEW i \in 1 .. q + 1, \A j \in 1 .. i - 1 : s[j] # "IAC"
        PROVE  i <= Len(sb_buf') /\ sb_buf'[i] = s[i]
    <2>1. CASE i = q + 1
      <3>1. i - 1 = q
        BY <1>1, <2>1
      <3>2. w = q
        BY <1>1, <1>3, <3>1
      <3> QED
        BY <1>1, <1>2, <2>1, <3>2
    <2>2. CASE i # q + 1
      <3>1. i \in 1 .. q
        BY <1>1, <2>2
      <3>2. i <= w /\ sb_buf[i] = s[i]
        BY <1>1, <1>3, <3>1
      <3>3. i \in 1 .. w
        BY <1>1, <3>1, <3>2
      <3> QED
        BY <1>1, <1>2, <3>2, <3>3
    <2> QED
      BY <2>1, <2>2
  <1>4. ASSUME \A j \in 1 .. q + 1 : s[j] # "IAC" PROVE Len(sb_buf') = q + 1
    <2>1. \A j \in 1 .. q : j \in 1 .. q + 1
      BY <1>1
    <2> QED
      BY <1>1, <1>2, <1>4, <2>1
  <1> QED
    BY <1>3, <1>4 DEF Kept

\* Behind an IAC nothing more is asked of the buffer.
LEMMA KeptSame ==
    ASSUME sb_buf \in Seq(Bytes), NEW CONSTANT s \in Seq(Bytes), NEW CONSTANT q \in 1 .. Len(s),
           Kept(s, q), s[q] = "IAC",
           NEW CONSTANT b \in Bytes, sb_buf' = sb_buf \/ sb_buf' = Append(sb_buf, b),
           NEW CONSTANT x \in {q, q + 1}
    PROVE  Kept(s, x)'
  <1> DEFINE w == Len(sb_buf)
  <1>1. /\ w \in Nat /\ q \in Nat /\ q >= 1
        /\ \A i \in 1 .. q : (\A j \in 1 .. i - 1 : s[j] # "IAC") => i <= w /\ sb_buf[i] = s[i]
    BY DEF Kept
  <1>2. /\ Len(sb_buf') \in {w, w + 1} /\ \A i \in 1 .. w : sb_buf'[i] = sb_buf[i]
    BY AppendProperties
  <1> HIDE DEF w
  <1>3. ASSUME NEW i \in 1 .. x, \A j \in 1 .. i - 1 : s[j] # "IAC"
        PROVE  i <= Len(sb_buf') /\ sb_buf'[i] = s[i]
    <2>1. CASE i = q + 1
      <3>1. q \in 1 .. i - 1
        BY <1>1, <2>1
      <3> QED
        BY <1>3, <3>1
    <2>2. CASE i # q + 1
      <3>1. i \in 1 .. q
        BY <1>1, <2>2
      <3>2. i <= w /\ sb_buf[i] = s[i]
        BY <1>1, <1>3, <3>1
      <3>3. i \in 1 .. w
        BY <1>1, <3>1, <3>2
      <3> QED
        BY <1>1, <1>2, <3>2, <3>3
    <2> QED
      BY <2>1, <2>2
  <1>4. q \in 1 .. x
    BY <1>1
  <1> QED
    BY <1>3, <1>4 DEF Kept

\* A buffer that is left alone keeps what it has.
LEMMA KeptStays ==
    ASSUME NEW CONSTANT s, NEW CONSTANT q, Kept(s, q), sb_buf' = sb_buf
    PROVE  Kept(s, q)'
  BY DEF Kept

\* A byte of a subnegotiation.
LEMMA SbRead ==
    ASSUME NEW CONSTANT k, NEW CONSTANT p, NEW CONSTANT item, NEW CONSTANT r, NEW CONSTANT b,
           Reading(k, p, item, r, b), item.kind = "sb", TermFaithful
    PROVE  InPlace' /\ InOrder' /\ TermFaithful'
  <1> DEFINE s == item.bytes
             n == Len(s)
             m == Mark(s)
             e == Escape(s)
             L == Len(e)
  <1>1. /\ item \in Items /\ r \in Log /\ p \in Nat /\ p < Len(Encode(item)) /\ b \in Bytes
        /\ b = Encode(item)[p + 1] /\ taken \o records = r.done
        /\ p = 0 => state = "DATA" /\ current = r.open
        /\ p > 0 => Within(item, p, r.open)
        /\ wire' = Tail(wire) /\ UNCHANGED <<sent, taken>>
        /\ k \in Nat /\ k < Len(sent) /\ sb_buf \in Seq(Bytes) /\ Len(sent) \in Nat
    <2>1. sb_buf \in Seq(Bytes) /\ Len(sent) \in Nat
      BY DEF Reading, Buffers
    <2> QED
      BY <2>1, ReadingFacts
  <1>0. /\ Buffers /\ wire # <<>> /\ Position(k, p) /\ item = sent[k + 1] /\ r = History(sent)[k]
        /\ wire' = Tail(wire) /\ sent' = sent
    BY <1>1 DEF Reading
  <1>2. s \in SbData /\ s \in Seq(Bytes) /\ \A i \in 1 .. n - 1 : s[i] = "IAC" => s[i + 1] # "SE"
    BY <1>1, ItemKinds, PiecesTyped, StreamAssumption
  <1>3. /\ n \in Nat /\ m[0] = 0 /\ m[n] = L /\ L \in Nat
        /\ \A q \in 0 .. n : m[q] \in Nat /\ m[q] <= L
        /\ \A q \in 0 .. n - 1 :
              /\ m[q + 1] = m[q] + (IF s[q + 1] = "IAC" THEN 2 ELSE 1)
              /\ e[m[q] + 1] = s[q + 1] /\ (s[q + 1] = "IAC" => e[m[q] + 2] = "IAC")
    <2> HIDE DEF s
    <2> QED
      BY <1>2, MarkFacts
  <1>4. /\ Len(Encode(item)) = L + 4 /\ Encode(item)[1] = "IAC" /\ Encode(item)[2] = "SB"
        /\ Encode(item)[L + 3] = "IAC" /\ Encode(item)[L + 4] = "SE"
        /\ \A j \in 1 .. L : Encode(item)[j + 2] = e[j]
    BY <1>1, EncodeFacts
  <1> HIDE DEF s, n, m, e, L
  \* The item goes on.
  <1>5. ASSUME p + 1 < L + 4, Within(item, p + 1, r.open)', UNCHANGED <<records, term>>
        PROVE  InPlace' /\ InOrder' /\ TermFaithful'
    <2>1. taken' \o records' = r.done
      BY <1>1, <1>5
    <2>2. p + 1 < Len(Encode(item)) /\ p + 1 # Len(Encode(item))
      BY <1>1, <1>3, <1>4, <1>5
    <2>3. InPlace' /\ InOrder'
      BY <1>0, <1>5, <2>1, <2>2, Progress
    <2>4. TermFaithful'
      BY <1>1, <1>5 DEF TermFaithful
    <2> QED
      BY <2>3, <2>4
  <1>6. CASE p = 0
    <2>1. ReadData(b) /\ b = "IAC"
      BY <1>1, <1>4, <1>6, ReadsWhere DEF Reading
    <2>2. state' = "HAVE_IAC" /\ UNCHANGED <<current, records, term>>
      BY <2>1 DEF ReadData
    <2>3. Within(item, p + 1, r.open)'
      BY <1>1, <1>6, <2>2 DEF Within
    <2>4. p + 1 < L + 4
      BY <1>3, <1>6
    <2> QED
      BY <1>5, <2>2, <2>3, <2>4
  <1>7. CASE p = 1
    <2>1. state = "HAVE_IAC" /\ current = r.open
      BY <1>1, <1>7 DEF Within
    <2>2. b = "SB"
      BY <1>1, <1>4, <1>7
    <2>3. ReadSubnegotiation(b)
      BY <2>1, <2>2, ReadsWhere DEF Reading
    <2>4. state' = "HAVE_SB" /\ sb_buf' = <<>> /\ UNCHANGED <<current, records, term>>
      BY <2>3 DEF ReadSubnegotiation
    <2>5. Kept(s, 0)'
      BY <2>4 DEF Kept
    <2>6. 0 \in 0 .. n
      BY <1>3
    <2>7. InSb(s, 0)'
      BY <1>3, <2>4, <2>5, <2>6 DEF InSb, n, m
    <2>8. p + 1 = 2 /\ (p + 1) - 2 = 0 /\ p + 1 >= 2 /\ p + 1 < L + 4
      BY <1>3, <1>7
    <2>9. Within(item, p + 1, r.open)'
      BY <2>1, <2>4, <2>7, <2>8 DEF Within, s
    <2> QED
      BY <1>5, <2>4, <2>8, <2>9
  <1>8. CASE p >= 2
    <2> DEFINE x == p - 2
    <2>1. InSb(s, x) /\ current = r.open
      BY <1>1, <1>8 DEF Within, s
    <2>2. /\ x \in Nat /\ p = x + 2 /\ x <= L + 1
          /\ (p + 1) - 2 = x + 1 /\ p + 1 >= 2 /\ (x < L + 1 => p + 1 < L + 4) /\ (x = L + 1 => p + 1 = L + 4)
      BY <1>1, <1>3, <1>4, <1>8
    <2>3. /\ x < L => b = e[x + 1]
          /\ x = L => b = "IAC"
          /\ x = L + 1 => b = "SE"
      <3>1. x < L => x + 1 \in 1 .. L /\ (x + 1) + 2 = p + 1
        BY <1>3, <2>2
      <3>2. x = L => p + 1 = L + 3
        BY <1>3, <2>2
      <3> QED
        BY <1>1, <1>4, <2>2, <3>1, <3>2
    <2> HIDE DEF x
    <2>4. ASSUME x < L + 1, InSb(s, x + 1)', UNCHANGED <<current, records, term>>
          PROVE  InPlace' /\ InOrder' /\ TermFaithful'
      <3>1. Within(item, p + 1, r.open)'
        BY <2>1, <2>2, <2>4 DEF Within, s
      <3> QED
        BY <1>5, <2>2, <2>4, <3>1
    \* Between two bytes.
    <2>5. ASSUME NEW CONSTANT q \in 0 .. n, x = m[q], Kept(s, q),
                 state = "HAVE_SB" \/ (state = "HAVE_SB_IAC" /\ q > 0 /\ s[q] = "IAC")
          PROVE  InPlace' /\ InOrder' /\ TermFaithful'
      <3>1. x <= L /\ x < L + 1
        BY <1>3, <2>5
      <3>2. q > 0 => q \in 1 .. Len(s)
        BY <1>3 DEF n
      <3>3. CASE q = n
        <4>1. b = "IAC" /\ x = L
          BY <1>3, <2>3, <2>5, <3>3
        <4>2. /\ state' = "HAVE_SB_IAC" /\ UNCHANGED <<current, records, term>>
              /\ \/ sb_buf' = sb_buf
                 \/ sb_buf' = Append(sb_buf, b) /\ q > 0 /\ s[q] = "IAC"
          BY <2>5, <4>1, ReadsWhere DEF Reading, ReadSb, ReadSbEscaped
        <4>3. Kept(s, q)'
          BY <1>1, <1>2, <2>5, <3>2, <4>2, KeptSame, KeptStays
        <4>4. InSb(s, x + 1)'
          BY <3>3, <4>1, <4>2, <4>3 DEF InSb, n, e, L
        <4> QED
          BY <2>4, <3>1, <4>2, <4>4
      <3>4. CASE q # n
        <4>1. q \in 0 .. n - 1 /\ q + 1 \in 0 .. n
          BY <1>3, <3>4
        <4>2. x < L /\ b = s[q + 1]
          <5>1. m[q + 1] <= L /\ m[q + 1] = m[q] + (IF s[q + 1] = "IAC" THEN 2 ELSE 1) /\ e[m[q] + 1] = s[q + 1]
            BY <1>3, <4>1
          <5>2. x < L
            BY <1>3, <2>2, <2>5, <5>1
          <5> QED
            BY <2>3, <2>5, <5>1, <5>2
        <4>3. CASE b = "IAC"
          <5>1. /\ state' = "HAVE_SB_IAC" /\ UNCHANGED <<current, records, term>>
                /\ \/ sb_buf' = sb_buf
                   \/ sb_buf' = Append(sb_buf, b) /\ q > 0 /\ s[q] = "IAC"
            BY <2>5, <4>3, ReadsWhere DEF Reading, ReadSb, ReadSbEscaped
          <5>2. Kept(s, q)'
            BY <1>1, <1>2, <2>5, <3>2, <5>1, KeptSame, KeptStays
          <5>3. InSb(s, x + 1)'
            BY <2>5, <4>1, <4>2, <4>3, <5>1, <5>2 DEF InSb, n, m
          <5> QED
            BY <2>4, <3>1, <5>1, <5>3
        <4>4. CASE b # "IAC"
          <5>1. m[q + 1] = x + 1
            BY <1>3, <2>5, <4>1, <4>2, <4>4
          <5>2. state' = "HAVE_SB" /\ UNCHANGED <<current, records, term>> /\ Kept(s, q + 1)'
            <6>1. CASE state = "HAVE_SB"
              <7>1. state' = "HAVE_SB" /\ UNCHANGED <<current, records, term>> /\ sb_buf' = Append(sb_buf, s[q + 1])
                BY <4>2, <4>4, <6>1, ReadsWhere DEF Reading, ReadSb
              <7>2. Kept(s, q + 1)'
                BY <1>1, <1>2, <2>5, <4>1, <7>1, KeptNext DEF n
              <7> QED
                BY <7>1, <7>2
            <6>2. CASE state = "HAVE_SB_IAC" /\ q > 0 /\ s[q] = "IAC"
              <7>1. q \in 1 .. n - 1
                BY <1>3, <4>1, <6>2
              <7>2. b # "SE"
                BY <1>2, <4>2, <6>2, <7>1
              <7>3. state' = "HAVE_SB" /\ UNCHANGED <<current, records, term, sb_buf>>
                BY <4>4, <6>2, <7>2, ReadsWhere DEF Reading, ReadSbOther
              <7>4. Kept(s, q + 1)'
                BY <1>1, <1>2, <2>5, <3>2, <6>2, <7>3, KeptSame
              <7> QED
                BY <7>3, <7>4
            <6> QED
              BY <2>5, <6>1, <6>2
          <5>3. InSb(s, x + 1)'
            BY <4>1, <5>1, <5>2 DEF InSb, n, m
          <5> QED
            BY <2>4, <3>1, <5>2, <5>3
        <4> QED
          BY <4>3, <4>4
      <3> QED
        BY <3>3, <3>4
    \* Within an escaped IAC.
    <2>6. ASSUME NEW CONSTANT q \in 0 .. n - 1, x = m[q] + 1, s[q + 1] = "IAC", Kept(s, q), state = "HAVE_SB_IAC"
          PROVE  InPlace' /\ InOrder' /\ TermFaithful'
      <3>1. q \in 0 .. n /\ q + 1 \in 0 .. n /\ q + 1 > 0
        BY <1>3
      <3>2. m[q] \in Nat /\ m[q + 1] <= L /\ m[q + 1] = m[q] + 2 /\ e[m[q] + 2] = "IAC"
        BY <1>3, <2>6, <3>1
      <3>3. x < L /\ x + 1 = m[q] + 2 /\ x < L + 1
        BY <1>3, <2>6, <3>2
      <3>4. b = "IAC"
        BY <2>3, <3>2, <3>3
      <3>5. state' = "HAVE_SB_IAC" /\ UNCHANGED <<current, records, term>> /\ sb_buf' = Append(sb_buf, s[q + 1])
        BY <2>6, <3>4, ReadsWhere DEF Reading, ReadSbEscaped
      <3>6. Kept(s, q + 1)'
        BY <1>1, <1>2, <2>6, <3>5, KeptNext DEF n
      <3>7. InSb(s, x + 1)'
        BY <2>6, <3>1, <3>2, <3>3, <3>5, <3>6 DEF InSb, n, m
      <3> QED
        BY <2>4, <3>3, <3>5, <3>7
    \* Within IAC SE.
    <2>7. ASSUME x = L + 1, Kept(s, n), state = "HAVE_SB_IAC"
          PROVE  InPlace' /\ InOrder' /\ TermFaithful'
      <3>1. ReadSbEnd(b)
        BY <2>3, <2>7, ReadsWhere DEF Reading
      <3>2. state' = "DATA" /\ UNCHANGED <<current, records>> /\ term' = HostSb(sb_buf)
        BY <3>1 DEF ReadSbEnd
      <3>3. Extended(r, item) = r
        BY DEF Extended
      <3>4. p + 1 = Len(Encode(item)) /\ ~(p + 1 < Len(Encode(item)))
        BY <1>1, <1>3, <1>4, <2>2, <2>7
      <3>5. taken' \o records' = r.done /\ current' = r.open
        BY <1>1, <2>1, <3>2
      <3>6. InPlace' /\ InOrder'
        BY <1>0, <3>2, <3>3, <3>4, <3>5, Progress
      <3>7. TermFaithful'
        <4>1. CASE sb_buf # <<>> /\ sb_buf[1] = "TERMINAL_TYPE"
          <5>1. term' # <<>> => IsPrefix(<<"TERMINAL_TYPE", "IS">> \o HostSb(sb_buf), s)
            BY <1>1, <1>2, <2>7, <3>2, <4>1, TermNamed DEF n
          <5>2. k + 1 \in 1 .. Len(sent') /\ sent'[k + 1].kind = "sb" /\ sent'[k + 1].bytes = s
            BY <1>0, <1>1 DEF s
          <5> QED
            BY <3>2, <5>1, <5>2 DEF TermFaithful
        <4>2. CASE ~(sb_buf # <<>> /\ sb_buf[1] = "TERMINAL_TYPE")
          <5>1. term' = term
            BY <3>2, <4>2 DEF HostSb
          <5> QED
            BY <1>1, <5>1 DEF TermFaithful
        <4> QED
          BY <4>1, <4>2
      <3> QED
        BY <3>6, <3>7
    <2> QED
      BY <2>1, <2>5, <2>6, <2>7 DEF InSb, n, m, e, L
  <1>9. p = 0 \/ p = 1 \/ p >= 2
    BY <1>1
  <1> QED
    BY <1>6, <1>7, <1>8, <1>9

\* A read keeps the types: every byte comes from the wire, or is the code of
\* the end of record.
LEMMA ReadTyped ==
    ASSUME Control, Buffers, wire # <<>>, ReadByte
    PROVE  Control' /\ Buffers'
  <1> DEFINE b == Head(wire)
  <1>1. b \in Bytes /\ Tail(wire) \in Seq(Bytes)
    BY HeadTailProperties DEF Buffers
  <1> HIDE DEF b
  <1>2. wire' = Tail(wire) /\ UNCHANGED <<round, eof, sent, taken>> /\ Receiving
    BY ReadsWhere
  <1>3. /\ Append(current, b) \in Seq(Bytes) /\ Append(sb_buf, b) \in Seq(Bytes)
        /\ Append(records, current) \in Seq(Seq(Bytes)) /\ <<>> \in Seq(Bytes)
    BY <1>1, AppendProperties DEF Buffers
  <1>4. <<"231">> \in Seq(Bytes)
    BY PiecesTyped
  <1>5. HostSb(sb_buf) \in Seq(Bytes)
    <2> DEFINE w == Len(sb_buf)
               name == SubSeq(sb_buf, 3, w)
               u == UpTo(name, "IAC")
    <2>1. sb_buf \in Seq(Bytes) /\ w \in Nat /\ term \in Seq(Bytes)
      BY DEF Buffers
    <2>2. name \in Seq(Bytes)
      <3>1. CASE 3 <= w
        <4>1. \A i \in 3 .. w : sb_buf[i] \in Bytes
          BY <2>1
        <4> QED
          BY <2>1, <3>1, <4>1, SubSeqProperties
      <3>2. CASE ~(3 <= w)
        <4>1. name = <<>>
          BY <2>1, <3>2
        <4> QED
          BY <1>3, <4>1
      <3> QED
        BY <3>1, <3>2
    <2>3. HostSb(sb_buf) = IF sb_buf # <<>> /\ sb_buf[1] = "TERMINAL_TYPE"
                             THEN IF u = 0 THEN name ELSE SubSeq(name, 1, u - 1)
                             ELSE term
      BY DEF HostSb
    <2> HIDE DEF name
    <2>4. \/ u = 0
          \/ u \in 1 .. Len(name)
      BY <2>2, UpToFacts
    <2> HIDE DEF u
    <2>5. u # 0 => SubSeq(name, 1, u - 1) \in Seq(Bytes)
      BY <2>2, <2>4
    <2> QED
      BY <2>1, <2>2, <2>3, <2>5
  <1>6. ReadData(b) \/ ReadEscaped(b) \/ ReadEndOfRecord(b) \/ ReadVerb(b) \/ ReadSubnegotiation(b)
        \/ ReadUnknown(b) \/ ReadOption(b) \/ ReplyFails(b)
        \/ ReadSb(b) \/ ReadSbEscaped(b) \/ ReadSbEnd(b) \/ ReadSbOther(b)
    BY DEF ReadByte, b
  <1>7. Buffers'
    <2>1. wire' \in Seq(Bytes) /\ taken' \in Seq(Seq(Bytes)) /\ sent' \in Seq(Items)
      BY <1>1, <1>2 DEF Buffers
    <2>2. current' \in Seq(Bytes) /\ records' \in Seq(Seq(Bytes))
      BY <1>3, <1>4, <1>6 DEF Buffers, ReadData, ReadEscaped, ReadEndOfRecord, ReadVerb, ReadSubnegotiation,
         ReadUnknown, ReadOption, ReplyFails, ReadSb, ReadSbEscaped, ReadSbEnd, ReadSbOther, AppendByte,
         EndRecord, streamVars
    <2>3. sb_buf' \in Seq(Bytes) /\ term' \in Seq(Bytes)
      BY <1>3, <1>5, <1>6 DEF Buffers, ReadData, ReadEscaped, ReadEndOfRecord, ReadVerb, ReadSubnegotiation,
         ReadUnknown, ReadOption, ReplyFails, ReadSb, ReadSbEscaped, ReadSbEnd, ReadSbOther, streamVars
    <2> QED
      BY <2>1, <2>2, <2>3 DEF Buffers
  <1>8. Control'
    BY <1>2, <1>6 DEF Control, ReadData, ReadEscaped, ReadEndOfRecord, ReadVerb, ReadSubnegotiation,
       ReadUnknown, ReadOption, ReplyFails, ReadSb, ReadSbEscaped, ReadSbEnd, ReadSbOther, streamVars, Verbs, Ends
  <1> QED
    BY <1>7, <1>8

\* Only the end of a subnegotiation sets TERM.
LEMMA TermStays ==
    ASSUME ReadByte, state # "HAVE_SB_IAC"
    PROVE  term' = term
  BY DEF ReadByte, ReadData, ReadEscaped, ReadEndOfRecord, ReadVerb, ReadSubnegotiation, ReadUnknown,
         ReadOption, ReplyFails, ReadSb, ReadSbEscaped, ReadSbEnd, ReadSbOther, streamVars

\* A read leaves the host in its place, or the answer fails and it ends.
LEMMA ReadKeeps ==
    ASSUME DecodeInv, wire # <<>>, ReadByte
    PROVE  DecodeInv'
  <1>1. Control' /\ Buffers'
    BY ReadTyped DEF DecodeInv
  <1>2. Receiving /\ UNCHANGED <<sent, taken>>
    BY ReadsWhere
  <1>3. phase \notin Ends
    BY <1>2 DEF Receiving, Ends
  <1>4. PICK k, p : Position(k, p) /\ Decoding(k, p)
    BY <1>3 DEF DecodeInv, InPlace
  <1>5. PICK item, r, b : item = sent[k + 1] /\ r = History(sent)[k] /\ b = Head(wire)
    OBVIOUS
  <1>6. Reading(k, p, item, r, b) /\ TermFaithful /\ InOrder
    BY <1>4, <1>5 DEF Reading, DecodeInv
  <1>7. EndsBegun'
    BY <1>2 DEF EndsBegun, DecodeInv
  <1>8. CASE item.kind = "sb"
    BY <1>1, <1>6, <1>7, <1>8, SbRead DEF DecodeInv
  <1>9. CASE item.kind # "sb"
    <2>1. /\ item \in Items /\ p \in Nat
          /\ p = 0 => state = "DATA"
          /\ p > 0 => Within(item, p, r.open)
      BY <1>6, ReadingFacts
    <2>2. state # "HAVE_SB_IAC"
      <3>1. p = 0 \/ p > 0
        BY <2>1
      <3> QED
        BY <1>9, <2>1, <3>1 DEF Within, InData
    <2>3. term' = term
      BY <2>2, TermStays
    <2>4. TermFaithful'
      BY <1>2, <1>6, <2>3 DEF TermFaithful
    <2>5. item.kind = "data" \/ item.kind \in {"eor", "nop", "verb"}
      BY <1>9, <2>1, ItemKinds
    <2>6. (InPlace' /\ InOrder') \/ ReplyFails(b)
      BY <1>6, <2>5, DataRead, CodeRead
    <2>7. ReplyFails(b) => phase' \in Ends /\ InOrder'
      BY <1>2, <1>6 DEF ReplyFails, Ends, InOrder, streamVars
    <2> QED
      BY <1>1, <1>7, <2>4, <2>6, <2>7 DEF DecodeInv
  <1> QED
    BY <1>8, <1>9

\* Nothing else moves the decoder; the bottom half takes a record that is
\* complete.
LEMMA OtherKeeps ==
    ASSUME DecodeInv,
           UNCHANGED <<state, sb_buf, current, term, wire, sent>>,
           taken' \o records' = taken \o records,
           phase' \notin Ends => phase \notin Ends
    PROVE  EndsBegun' /\ TermFaithful' /\ InOrder' /\ (phase' \notin Ends => InPlace')
  <1>1. EndsBegun' /\ TermFaithful' /\ InOrder'
    BY DEF DecodeInv, EndsBegun, TermFaithful, InOrder
  <1>2. ASSUME phase' \notin Ends PROVE InPlace'
    <2>1. PICK k, p : Position(k, p) /\ Decoding(k, p)
      BY <1>2 DEF DecodeInv, InPlace
    <2>2. Position(k, p)'
      <3>1. PICK at : Aligned(k, p, at)
        BY <2>1 DEF Position
      <3>2. Aligned(k, p, at)'
        BY <3>1 DEF Aligned
      <3> QED
        BY <2>1, <3>2 DEF Position
    <2>3. Decoding(k, p)'
      BY <2>1 DEF Decoding, Within, InData, InSb, Kept
    <2> QED
      BY <2>2, <2>3 DEF InPlace
  <1> QED
    BY <1>1, <1>2

\* The record that is taken moves from one list to the other.
LEMMA TakeKeeps ==
    ASSUME DecodeInv, TakeRecord
    PROVE  DecodeInv'
  <1>1. records \in Seq(Seq(Bytes)) /\ taken \in Seq(Seq(Bytes)) /\ records # <<>>
    BY DEF DecodeInv, Buffers, TakeRecord
  <1>2. Head(records) \in Seq(Bytes) /\ Tail(records) \in Seq(Seq(Bytes)) /\ records = <<Head(records)>> \o Tail(records)
    <2>1. Head(records) \in Seq(Bytes) /\ Tail(records) \in Seq(Seq(Bytes))
      BY <1>1, HeadTailProperties
    <2> QED
      BY <1>1, <2>1
  <1> DEFINE h == Head(records)
             t == Tail(records)
  <1>3. taken' = Append(taken, h) /\ records' = t
    BY DEF TakeRecord
  <1> HIDE DEF h, t
  <1>4. h \in Seq(Bytes) /\ t \in Seq(Seq(Bytes)) /\ records = <<h>> \o t /\ <<h>> \in Seq(Seq(Bytes))
    BY <1>2 DEF h, t
  <1>5. Append(taken, h) = taken \o <<h>> /\ Append(taken, h) \in Seq(Seq(Bytes))
    BY <1>1, <1>4, AppendIsConcat, AppendProperties
  <1>6. (taken \o <<h>>) \o t = taken \o (<<h>> \o t)
    BY <1>1, <1>4, ConcatAssociative
  <1>7. taken' \o records' = taken \o records
    BY <1>3, <1>4, <1>5, <1>6
  <1>8. UNCHANGED <<state, sb_buf, current, term, wire, sent>> /\ (phase' \notin Ends => phase \notin Ends)
    BY DEF TakeRecord, terminalVars, Ends
  <1>9. EndsBegun' /\ TermFaithful' /\ InOrder' /\ (phase' \notin Ends => InPlace')
    BY <1>7, <1>8, OtherKeeps
  <1>10. Control'
    BY <1>8 DEF DecodeInv, Control, TakeRecord, terminalVars, Ends
  <1>11. Buffers'
    BY <1>3, <1>4, <1>5, <1>8 DEF DecodeInv, Buffers
  <1> QED
    BY <1>9, <1>10, <1>11 DEF DecodeInv

\* What the terminal sends comes behind what it has sent.
LEMMA SendsKeeps ==
    ASSUME DecodeInv, NEW CONSTANT item \in Items, TerminalSends(item)
    PROVE  DecodeInv'
  <1>1. /\ sent \in Seq(Items) /\ wire \in Seq(Bytes) /\ Len(sent) \in Nat /\ Len(sent) < MaxItems
        /\ item.kind = "eor" => SentRecords(sent).open # <<>>
        /\ wire' = wire \o Encode(item) /\ sent' = Append(sent, item)
        /\ UNCHANGED <<phase, round, state, verb, sb_buf, current, records, term, out, eof, taken>>
    BY DEF DecodeInv, Buffers, TerminalSends, streamVars
  <1> DEFINE n == Len(sent)
  <1>2. /\ sent' \in Seq(Items) /\ Len(sent') = n + 1 /\ sent'[n + 1] = item
        /\ \A i \in 1 .. n : sent'[i] = sent[i]
    BY <1>1, AppendProperties
  <1>3. /\ \A k \in 0 .. n : History(sent')[k] = History(sent)[k]
        /\ History(sent')[n + 1] = Extended(History(sent)[n], item)
    BY <1>1, HistoryGoesOn
  <1>4. Encode(item) \in Seq(Bytes)
    BY EncodeFacts
  <1>5. Buffers'
    <2>1. wire' \in Seq(Bytes)
      BY <1>1, <1>4, ConcatProperties
    <2> QED
      BY <1>1, <1>2, <2>1 DEF DecodeInv, Buffers
  <1>6. Control'
    <2>1. Len(sent') <= MaxItems
      BY <1>1, <1>2, StreamAssumption
    <2> QED
      BY <1>1, <2>1 DEF DecodeInv, Control
  <1>7. SentRecords(sent) = History(sent)[n] /\ SentRecords(sent') = History(sent')[n + 1]
    BY <1>1, <1>2, HistoryFacts
  <1>8. EndsBegun'
    <2> SUFFICES ASSUME NEW i \in 1 .. Len(sent'), sent'[i].kind = "eor"
                 PROVE  History(sent')[i - 1].open # <<>>
      BY DEF EndsBegun
    <2>1. CASE i = n + 1
      <3>1. i - 1 = n /\ n \in 0 .. n
        BY <1>1, <2>1
      <3> QED
        BY <1>1, <1>2, <1>3, <1>7, <2>1, <3>1
    <2>2. CASE i # n + 1
      <3>1. i \in 1 .. n /\ i - 1 \in 0 .. n
        BY <1>1, <1>2, <2>2
      <3> QED
        BY <1>2, <1>3, <3>1 DEF DecodeInv, EndsBegun
    <2> QED
      BY <2>1, <2>2
  <1>9. TermFaithful'
    <2> SUFFICES ASSUME term' # <<>>
                 PROVE  \E i \in 1 .. Len(sent') : /\ sent'[i].kind = "sb"
                                                   /\ IsPrefix(<<"TERMINAL_TYPE", "IS">> \o term', sent'[i].bytes)
      BY DEF TermFaithful
    <2>1. PICK i \in 1 .. n : sent[i].kind = "sb" /\ IsPrefix(<<"TERMINAL_TYPE", "IS">> \o term, sent[i].bytes)
      BY <1>1 DEF DecodeInv, TermFaithful
    <2>2. i \in 1 .. Len(sent') /\ sent'[i] = sent[i]
      BY <1>1, <1>2
    <2> QED
      BY <1>1, <2>1, <2>2
  <1>10. InOrder'
    <2>1. Starts(taken \o records, SentRecords(sent).done)
      BY DEF DecodeInv, InOrder
    <2>2. n \in 0 .. n + 1 /\ n \in 0 .. n
      BY <1>1
    <2>3. Starts(History(sent')[n].done, SentRecords(sent').done)
      BY <1>2, <2>2, HistoryGrows
    <2>4. Starts(SentRecords(sent).done, SentRecords(sent').done)
      BY <1>3, <1>7, <2>2, <2>3
    <2>5. /\ SentRecords(sent).done \in Seq(Seq(Bytes)) /\ SentRecords(sent').done \in Seq(Seq(Bytes))
          /\ taken \o records \in Seq(Seq(Bytes))
      <3>1. n \in 0 .. Len(sent) /\ n + 1 \in 0 .. Len(sent')
        BY <1>1, <1>2
      <3>2. History(sent)[n] \in Log /\ History(sent')[n + 1] \in Log
        BY <1>1, <1>2, <3>1, HistoryFacts DEF Recorded
      <3> QED
        BY <1>7, <3>2, ConcatProperties DEF Log, DecodeInv, Buffers
    <2>6. Starts(taken \o records, SentRecords(sent').done)
      BY <2>1, <2>4, <2>5, StartsTransitive
    <2> QED
      BY <1>1, <2>6 DEF InOrder
  <1>11. ASSUME phase' \notin Ends PROVE InPlace'
    <2>1. PICK k, p : Position(k, p) /\ Decoding(k, p)
      BY <1>1, <1>11 DEF DecodeInv, InPlace
    <2>2. Position(k, p)'
      BY <1>1, <2>1, SendKeeps
    <2>3. k \in 0 .. n /\ p \in Nat
      BY <2>1 DEF Position
    <2>4. Decoding(k, p)'
      <3>1. History(sent')[k] = History(sent)[k] /\ taken' \o records' = taken \o records
        BY <1>1, <1>3, <2>3
      <3>2. CASE p = 0
        BY <1>1, <2>1, <3>1, <3>2 DEF Decoding
      <3>3. CASE p > 0
        <4>1. k < n
          <5>1. PICK at : Aligned(k, p, at)
            BY <2>1 DEF Position
          <5>2. k = n => at[n] = 0 - p /\ at[n] = Len(wire) /\ Len(wire) \in Nat
            BY <1>1, <5>1 DEF Aligned
          <5> QED
            BY <1>1, <2>3, <3>3, <5>2
        <4>2. sent'[k + 1] = sent[k + 1]
          BY <1>1, <1>2, <2>3, <4>1
        <4>3. PICK j, o : j = sent[k + 1] /\ o = History(sent)[k].open
          OBVIOUS
        <4>4. Within(j, p, o)
          BY <2>1, <3>3, <4>3 DEF Decoding
        <4>5. Within(j, p, o)'
          BY <1>1, <4>4 DEF Within, InData, InSb, Kept
        <4> QED
          BY <2>1, <2>3, <3>1, <3>3, <4>2, <4>3, <4>5 DEF Decoding
      <3> QED
        BY <2>3, <3>2, <3>3
    <2> QED
      BY <2>2, <2>4 DEF InPlace
  <1> QED
    BY <1>5, <1>6, <1>8, <1>9, <1>10, <1>11 DEF DecodeInv

\* The invariant holds when the client is accepted, ...
LEMMA DecodeInit ==
    ASSUME StreamInit
    PROVE  DecodeInv
  <1>1. sent = <<>> /\ wire = <<>> /\ Len(sent) = 0 /\ Len(wire) = 0 /\ sent \in Seq(Items)
    BY DEF StreamInit
  <1>2. Control /\ Buffers
    <2>1. Len(sent) <= MaxItems
      BY <1>1, StreamAssumption
    <2>2. round \in 1 .. Rounds
      BY DEF StreamInit, Rounds
    <2>3. phase = "offer" /\ state = "DATA" /\ verb = "unset" /\ eof = FALSE
      BY DEF StreamInit
    <2>4. Control
      BY <2>1, <2>2, <2>3 DEF Control
    <2>5. Buffers
      BY DEF StreamInit, Buffers
    <2> QED
      BY <2>4, <2>5
  <1>3. Recorded(sent, History(sent)) /\ SentRecords(sent) = History(sent)[Len(sent)]
    BY <1>1, HistoryFacts
  <1>4. History(sent)[0] = [done |-> <<>>, open |-> <<>>]
    BY <1>3 DEF Recorded, Nothing
  <1>5. taken \o records = <<>>
    BY DEF StreamInit
  <1>6. InOrder
    BY <1>5 DEF InOrder, Starts
  <1>7. EndsBegun /\ TermFaithful
    BY <1>1 DEF StreamInit, EndsBegun, TermFaithful
  <1>8. Position(0, 0)
    <2> DEFINE at == [i \in 0 .. 0 |-> 0]
    <2>1. Aligned(0, 0, at)
      BY <1>1 DEF Aligned
    <2> QED
      BY <1>1, <2>1 DEF Position
  <1>9. Decoding(0, 0)
    BY <1>4, <1>5 DEF Decoding, StreamInit
  <1> QED
    BY <1>2, <1>6, <1>7, <1>8, <1>9 DEF DecodeInv, InPlace

\* ... every step keeps it, ...
LEMMA DecodeStep ==
    ASSUME DecodeInv, [StreamNext]_connectionVars
    PROVE  DecodeInv'
  <1> DEFINE Quiet == /\ UNCHANGED <<state, sb_buf, current, records, term, out, wire, sent, taken>>
                      /\ phase' \notin Ends => phase \notin Ends
                      /\ phase' \in {"offer", "await", "negotiate", "idle", "receive"} \cup Ends
                      /\ round' \in 1 .. Rounds /\ verb' \in Verbs \cup {"unset"} /\ eof' \in BOOLEAN
  <1>1. ASSUME Quiet PROVE DecodeInv'
    <2>1. EndsBegun' /\ TermFaithful' /\ InOrder' /\ (phase' \notin Ends => InPlace')
      BY <1>1, OtherKeeps
    <2>2. Control' /\ Buffers'
      BY <1>1 DEF DecodeInv, Control, Buffers
    <2> QED
      BY <2>1, <2>2 DEF DecodeInv
  <1>2. Control
    BY DEF DecodeInv
  <1>3. CASE Terminal
    <2>1. CASE TerminalCloses
      <3>1. Quiet
        BY <1>2, <2>1 DEF Control, TerminalCloses, streamVars
      <3> QED
        BY <1>1, <3>1
    <2>2. CASE \E i \in Items : TerminalSends(i)
      BY <2>2, SendsKeeps
    <2> QED
      BY <1>3, <2>1, <2>2 DEF Terminal
  <1>4. CASE wire # <<>> /\ ReadByte
    BY <1>4, ReadKeeps
  <1>5. CASE TakeRecord
    BY <1>5, TakeKeeps
  <1>6. CASE Offer \/ OfferFails \/ Answered \/ NoAnswer \/ Readable \/ Disconnected
    <2>1. Quiet
      BY <1>2, <1>6 DEF Control, Offer, OfferFails, Answered, NoAnswer, Readable, Disconnected, Receiving,
         streamVars, terminalVars, Ends
    <2> QED
      BY <1>1, <2>1
  <1>7. CASE NegotiationGoesOn \/ NoRecord
    <2>1. Quiet
      <3>1. /\ UNCHANGED <<state, sb_buf, current, records, term, out, wire, sent, taken, eof>>
            /\ phase \notin Ends /\ phase' \in {"offer", "idle"} /\ verb' = "unset"
            /\ round' = round \/ (round < Rounds /\ round' = round + 1)
        BY <1>7 DEF NegotiationGoesOn, NoRecord, terminalVars, Ends
      <3>2. round' \in 1 .. Rounds
        BY <1>2, <3>1 DEF Control, Rounds
      <3> QED
        BY <1>2, <3>1, <3>2 DEF Control
    <2> QED
      BY <1>1, <2>1
  <1>8. CASE UNCHANGED connectionVars
    <2>1. Quiet
      BY <1>2, <1>8 DEF Control, connectionVars, streamVars, terminalVars
    <2> QED
      BY <1>1, <2>1
  <1> QED
    BY <1>3, <1>4, <1>5, <1>6, <1>7, <1>8 DEF StreamNext, Host

\* ... and it implies what is to be shown.
LEMMA DecodeFaithful ==
    ASSUME DecodeInv
    PROVE  Faithful
  <1>1. Control /\ Buffers
    BY DEF DecodeInv
  <1>2. \A t \in Seq(Bytes) : ToSet(t) \subseteq Bytes
    BY DEF ToSet
  <1>3. StreamTyped
    <2>1. ToSet(sb_buf) \cup ToSet(current) \cup ToSet(term) \cup ToSet(wire) \subseteq Bytes
      BY <1>1, <1>2 DEF Buffers
    <2>2. taken \o records \in Seq(Seq(Bytes)) /\ records \o taken \in Seq(Seq(Bytes))
      BY <1>1, ConcatProperties DEF Buffers
    <2>3. \A x \in ToSet(records \o taken) : ToSet(x) \subseteq Bytes
      <3>1. ToSet(records \o taken) \subseteq Seq(Bytes)
        BY <2>2 DEF ToSet
      <3> QED
        BY <1>2, <3>1
    <2> QED
      BY <1>1, <2>1, <2>3 DEF StreamTyped, Control
  <1>4. RecordsFaithful
    <2>1. sent \in Seq(Items) /\ Len(sent) \in Nat /\ Len(sent) \in 0 .. Len(sent)
      BY <1>1 DEF Buffers
    <2>2. Recorded(sent, History(sent)) /\ SentRecords(sent) = History(sent)[Len(sent)]
      BY <2>1, HistoryFacts
    <2>3. SentRecords(sent) \in Log
      BY <2>1, <2>2 DEF Recorded
    <2>4. IsPrefix(taken \o records, SentRecords(sent).done)
      <3>1. taken \o records \in Seq(Seq(Bytes)) /\ SentRecords(sent).done \in Seq(Seq(Bytes))
        BY <1>1, <2>3, ConcatProperties DEF Buffers, Log
      <3> QED
        BY <3>1, StartsIsPrefix DEF DecodeInv, InOrder
    <2>5. ASSUME wire = <<>>, phase \notin Ends
          PROVE  taken \o records = SentRecords(sent).done /\ current = SentRecords(sent).open
      <3>1. PICK k, p : Position(k, p) /\ Decoding(k, p)
        BY <2>5 DEF DecodeInv, InPlace
      <3>2. k = Len(sent) /\ p = 0
        BY <2>1, <2>5, <3>1, AllRead
      <3> QED
        BY <2>2, <3>1, <3>2 DEF Decoding
    <2> QED
      BY <2>4, <2>5 DEF RecordsFaithful
  <1> QED
    BY <1>3, <1>4 DEF Faithful, DecodeInv

\* What the host has decoded is what the terminal sent, for every sequence of
\* what the terminal may send and wherever the stream is cut: the records in
\* order and byte by byte, none missing once all bytes are read, and TERM a name
\* the terminal gave (telnet_stream_get_byte, telnet_stream_handle_receive and
\* telnet_stream_host_sb).
THEOREM StreamDecodedFaithfully == StreamSpec => []Faithful
  <1>1. StreamInit => DecodeInv
    BY DecodeInit
  <1>2. DecodeInv /\ [StreamNext]_connectionVars => DecodeInv'
    BY DecodeStep
  <1>3. DecodeInv => Faithful
    BY DecodeFaithful
  <1> QED
    BY <1>1, <1>2, <1>3, PTL DEF StreamSpec
=============================================================================
