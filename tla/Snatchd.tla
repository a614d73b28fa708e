------------------------------ MODULE Snatchd ------------------------------
(***************************************************************************)
(* The attach daemon (src/snatchd/snatchd.c) and the attach manager of the *)
(* kernel it listens to (src/patch-o-matic/net-fun.patch: sna_attach.c and *)
(* sna_stub_attach.c).  The SNA stack queues the attach of a remote        *)
(* program; snatchd takes it from the queue, forks the transaction program *)
(* it names, no more often than the program's limit, and tells the kernel  *)
(* which process serves it.                                                *)
(*                                                                         *)
(* FillsName says whether sna_attach_listen hands the name of the program  *)
(* to snatchd: the lines that do are compiled out (#ifdef NOT), so FALSE   *)
(* is the kernel as built, and TRUE the one that snatchd is written for.   *)
(***************************************************************************)
EXTENDS Integers, Sequences, FiniteSets, SequencesExt

CONSTANTS Tps,          \* the configured transaction programs, tp_list
          NoName,       \* a name that is not configured
          Limit,        \* l_tp->limit
          CntIntvl,     \* CNT_INTVL, in seconds
          FillsName,
          Unknown,      \* tcb_ids that are not on tp_list of the resource manager
          MaxTime,      \* bound on the clock
          MaxAttaches,  \* bound on the attaches that arrive
          MaxStarts     \* bound on how often snatchd is started

ASSUME SnatchdAssumption ==
    /\ NoName \notin Tps
    /\ {Limit, CntIntvl, MaxTime, MaxAttaches, MaxStarts} \subseteq Nat
    /\ FillsName \in BOOLEAN

VARIABLES
    \* snatchd
    pc,             \* where snatch_director is
    cur,            \* r_tp, the attach in hand
    count, time,    \* l_tp->count and l_tp->time.tv_sec
    epoch,          \* how often snatchd was started: names the open attach file
    \* kernel
    queue,          \* attach_queue
    attach_tp_list, \* names of the registered programs
    arrived,        \* attaches that have arrived; the next tcb_id
    children,       \* running programs: their tcb_id and the attach file they hold
    correlated,     \* tcb_ids that know their process
    now,            \* gettimeofday
    \* history
    log,            \* per program: starts, failed forks and refusals, with their time
    registered,     \* attach_tp_list as this daemon found it when it began to listen
    elders          \* the earlier daemons whose attach file was held at that time

directorVars == <<pc, cur, count, time, epoch>>
kernelVars   == <<queue, attach_tp_list, arrived, children, correlated>>
registryVars == <<registered, elders>>
vars == <<directorVars, kernelVars, now, log, registryVars>>

Attach == [tp : Tps \cup {NoName}, tcb : 1..MaxAttaches]
NoAttach == [tp |-> NoName, tcb |-> 0]

Init ==
    /\ pc = "down" /\ cur = NoAttach /\ epoch = 0
    /\ count = [t \in Tps |-> 0] /\ time = [t \in Tps |-> 0]
    /\ queue = <<>> /\ attach_tp_list = {}
    /\ arrived = 0 /\ children = {} /\ correlated = {}
    /\ now = 0
    /\ log = [t \in Tps |-> <<>>]
    /\ registered = {} /\ elders = {}

-----------------------------------------------------------------------------
(***************************************************************************)
(* Start and end of the daemon.                                            *)
(***************************************************************************)

\* The attach file of an epoch is held by the daemon and by its children.
HeldByChildren(e) == \E c \in children : c.epoch = e

\* attach_open and snatch_load_tp_list.  What snatch_setup_tp returns is not
\* looked at: a name that is registered already (-EEXIST) stays, one for which
\* there is no memory is left out.
Start ==
    /\ pc = "down" /\ epoch < MaxStarts
    /\ epoch' = epoch + 1
    /\ \E loaded \in SUBSET Tps : attach_tp_list' = attach_tp_list \cup loaded
    /\ registered' = attach_tp_list' /\ elders' = {e \in 1..epoch : HeldByChildren(e)}
    /\ count' = [t \in Tps |-> 0] /\ time' = [t \in Tps |-> 0]
    /\ log' = [t \in Tps |-> <<>>]
    /\ pc' = "listen" /\ cur' = NoAttach
    /\ UNCHANGED <<queue, arrived, children, correlated, now>>

\* snatch_goaway.  tp_unregister is given index 0, which no program has, and
\* does nothing; ATTACH_CLOSE reaches sna_attach_release, which empties the list.
Goaway ==
    /\ pc # "down"
    /\ attach_tp_list' = {}
    /\ pc' = "down" /\ cur' = NoAttach
    /\ UNCHANGED <<count, time, epoch, queue, arrived, children, correlated, now, log, registryVars>>

\* The daemon dies.  The kernel releases its file if no child holds it.
Dies ==
    /\ pc # "down"
    /\ attach_tp_list' = IF HeldByChildren(epoch) THEN attach_tp_list ELSE {}
    /\ pc' = "down" /\ cur' = NoAttach
    /\ UNCHANGED <<count, time, epoch, queue, arrived, children, correlated, now, log, registryVars>>

\* Fault: the file counts as released when the last program closes it.
ChildExitsReleases(c) ==
    /\ c \in children
    /\ children' = children \ {c}
    /\ attach_tp_list' = IF children' = {} THEN {} ELSE attach_tp_list
    /\ pc' = IF pc \in {"empty", "asleep"} /\ c.epoch = epoch THEN "nap" ELSE pc
    /\ UNCHANGED <<cur, count, time, epoch, queue, arrived, correlated, now, log, registryVars>>

\* A program ends.  Its SIGCHLD interrupts a listener that sleeps or is about
\* to (the signal is pending when it goes to sleep); and if it
\* was the last holder of the file of a daemon that is gone, sna_attach_release
\* empties the list.
ChildExits(c) ==
    LET last == /\ \A d \in children \ {c} : d.epoch # c.epoch
                /\ pc = "down" \/ c.epoch # epoch
    IN  /\ c \in children
        /\ children' = children \ {c}
        /\ attach_tp_list' = IF last THEN {} ELSE attach_tp_list
        /\ pc' = IF pc \in {"empty", "asleep"} /\ c.epoch = epoch THEN "nap" ELSE pc
        /\ UNCHANGED <<cur, count, time, epoch, queue, arrived, correlated, now, log, registryVars>>

Tick ==
    /\ now < MaxTime
    /\ now' = now + 1
    /\ UNCHANGED <<directorVars, kernelVars, log, registryVars>>

-----------------------------------------------------------------------------
(***************************************************************************)
(* sna_attach_execute_tp and sna_attach_listen.                            *)
(***************************************************************************)
ExecuteTp(t) ==
    /\ arrived < MaxAttaches
    /\ arrived' = arrived + 1
    /\ queue' = Append(queue, [tp |-> t, tcb |-> arrived + 1])
    /\ pc' = IF pc = "asleep" THEN "listen" ELSE pc
    /\ UNCHANGED <<cur, count, time, epoch, attach_tp_list, children, correlated, now, log, registryVars>>

\* skb_dequeue finds an attach; its name reaches snatchd only if it is filled in.
ListenDequeues ==
    /\ pc = "listen" /\ queue # <<>>
    /\ cur' = Head(queue) /\ queue' = Tail(queue)
    /\ pc' = "found"
    /\ UNCHANGED <<count, time, epoch, attach_tp_list, arrived, children, correlated, now, log, registryVars>>

\* skb_dequeue finds nothing ...
ListenEmpty ==
    /\ pc = "listen" /\ queue = <<>>
    /\ pc' = "empty"
    /\ UNCHANGED <<cur, count, time, epoch, kernelVars, now, log, registryVars>>

\* ... and interruptible_sleep_on does not look again.
ListenSleeps ==
    /\ pc = "empty"
    /\ pc' = "asleep"
    /\ UNCHANGED <<cur, count, time, epoch, kernelVars, now, log, registryVars>>

\* There is no memory for the answer: the attach is lost, snatchd naps.
ListenNoMemory ==
    /\ pc = "found"
    /\ pc' = "nap" /\ cur' = NoAttach
    /\ UNCHANGED <<count, time, epoch, kernelVars, now, log, registryVars>>

NapEnds ==
    /\ pc = "nap"
    /\ pc' = "listen"
    /\ UNCHANGED <<cur, count, time, epoch, kernelVars, now, log, registryVars>>

-----------------------------------------------------------------------------
(***************************************************************************)
(* snatch_director, snatch_launch and snatch_fork_tp.                      *)
(***************************************************************************)
NameSeen == IF FillsName THEN cur.tp ELSE NoName

\* Fault: the director goes back to sleep without a look at the queue.
DropUnknownSleeps ==
    /\ pc = "found" /\ NameSeen \notin Tps
    /\ pc' = "asleep" /\ cur' = NoAttach
    /\ UNCHANGED <<count, time, epoch, kernelVars, now, log, registryVars>>

DropUnknown ==
    /\ pc = "found" /\ NameSeen \notin Tps
    /\ pc' = "listen" /\ cur' = NoAttach
    /\ UNCHANGED <<count, time, epoch, kernelVars, now, log, registryVars>>

Logged(t, what) == log' = [log EXCEPT ![t] = Append(@, [what |-> what, at |-> now])]

Launching(t) == pc = "found" /\ NameSeen = t

\* Fault: the parent does not correlate.
ForksUncorrelated(t, ok) ==
    /\ IF ok
         THEN /\ children' = children \cup {[tcb |-> cur.tcb, epoch |-> epoch]}
              /\ pc' = "listen" /\ cur' = NoAttach
              /\ Logged(t, "start")
         ELSE /\ children' = children
              /\ pc' = "nap" /\ cur' = NoAttach
              /\ Logged(t, "fail")
    /\ UNCHANGED <<epoch, queue, attach_tp_list, arrived, correlated, now, registryVars>>

\* fork() succeeds, or fails and the attach is lost.
Forks(t, ok) ==
    /\ IF ok
         THEN /\ children' = children \cup {[tcb |-> cur.tcb, epoch |-> epoch]}
              /\ pc' = "correlate" /\ cur' = cur
              /\ Logged(t, "start")
         ELSE /\ children' = children
              /\ pc' = "nap" /\ cur' = NoAttach
              /\ Logged(t, "fail")
    /\ UNCHANGED <<epoch, queue, attach_tp_list, arrived, correlated, now, registryVars>>

AtLimit(t) == count[t] + 1 >= Limit

\* Fault: the interval ends one second early.
ExpiredEarly(t) == now - time[t] >= CntIntvl

Expired(t) == now - time[t] > CntIntvl

LaunchFirst(t, ok) ==
    /\ Launching(t) /\ count[t] = 0
    /\ count' = [count EXCEPT ![t] = 1]
    /\ time' = [time EXCEPT ![t] = now]
    /\ Forks(t, ok)

\* Fault: the limit is not looked at.
LaunchUnlimited(t, ok) ==
    /\ Launching(t) /\ count[t] # 0
    /\ count' = [count EXCEPT ![t] = @ + 1]
    /\ time' = time
    /\ Forks(t, ok)

LaunchCounted(t, ok) ==
    /\ Launching(t) /\ count[t] # 0 /\ ~AtLimit(t)
    /\ count' = [count EXCEPT ![t] = @ + 1]
    /\ time' = time
    /\ Forks(t, ok)

\* Fault: the count of the old interval is kept.
LaunchRenewedKeepsCount(t, ok) ==
    /\ Launching(t) /\ count[t] # 0 /\ AtLimit(t) /\ Expired(t)
    /\ count' = [count EXCEPT ![t] = @ + 1]
    /\ time' = [time EXCEPT ![t] = now]
    /\ Forks(t, ok)

LaunchRenewed(t, ok) ==
    /\ Launching(t) /\ count[t] # 0 /\ AtLimit(t) /\ Expired(t)
    /\ count' = [count EXCEPT ![t] = 1]
    /\ time' = [time EXCEPT ![t] = now]
    /\ Forks(t, ok)

LaunchRefused(t) ==
    /\ Launching(t) /\ count[t] # 0 /\ AtLimit(t) /\ ~Expired(t)
    /\ count' = [count EXCEPT ![t] = 0]
    /\ pc' = "nap" /\ cur' = NoAttach
    /\ Logged(t, "refuse")
    /\ UNCHANGED <<time, epoch, kernelVars, now, registryVars>>

\* tp_correlate: sna_tp_correlate returns -EINVAL for a conversation that the
\* resource manager does not know, and nobody hears of it.
Correlate ==
    /\ pc = "correlate"
    /\ correlated' = correlated \cup ({cur.tcb} \ Unknown)
    /\ pc' = "listen" /\ cur' = NoAttach
    /\ UNCHANGED <<count, time, epoch, queue, attach_tp_list, arrived, children, now, log, registryVars>>

-----------------------------------------------------------------------------
Director ==
    \/ ListenDequeues \/ ListenEmpty \/ ListenSleeps \/ ListenNoMemory \/ NapEnds
    \/ DropUnknown \/ Correlate
    \/ \E t \in Tps :
          \/ \E ok \in BOOLEAN : LaunchFirst(t, ok) \/ LaunchCounted(t, ok) \/ LaunchRenewed(t, ok)
          \/ LaunchRefused(t)

Environment ==
    \/ Start \/ Goaway \/ Dies \/ Tick
    \/ \E c \in children : ChildExits(c)
    \/ \E t \in Tps \cup {NoName} : ExecuteTp(t)

Next == Director \/ Environment

\* The daemon is one process that the kernel keeps scheduling; nothing obliges
\* anyone to attach, to end or to restart.
Spec == Init /\ [][Next]_vars /\ WF_vars(Director)

-----------------------------------------------------------------------------
\* With a limit of 0 or 1 the second attach is already at the limit.
EffectiveLimit == IF Limit > 2 THEN Limit ELSE 2

TypeOK ==
    /\ pc \in {"down", "listen", "empty", "asleep", "found", "correlate", "nap"}
    /\ cur \in Attach \cup {NoAttach}
    /\ count \in [Tps -> Nat] /\ time \in [Tps -> 0..MaxTime]
    /\ \A t \in Tps : count[t] <= EffectiveLimit
    /\ epoch \in 0..MaxStarts /\ now \in 0..MaxTime /\ arrived \in 0..MaxAttaches
    /\ ToSet(queue) \subseteq Attach
    /\ attach_tp_list \subseteq Tps
    /\ \A c \in children : c.tcb \in 1..arrived /\ c.epoch \in 1..epoch
    /\ correlated \subseteq (1..arrived) \ Unknown
    /\ registered \subseteq Tps /\ elders \subseteq 1..epoch

Starts(t, i, j) == Cardinality({k \in i..j : log[t][k].what = "start"})

(***************************************************************************)
(* Between two refusals, no span of CNT_INTVL seconds sees more than       *)
(* 2 * limit - 3 starts of a program: the end of one counting interval and *)
(* the whole of the next (snatch_fork_tp counts in intervals that it opens *)
(* at a start, not in a sliding one).                                      *)
(***************************************************************************)
BurstBounded ==
    \A t \in Tps : \A i, j \in 1..Len(log[t]) :
        /\ i <= j
        /\ \A k \in i..j : log[t][k].what # "refuse"
        /\ log[t][j].at - log[t][i].at <= CntIntvl
        => Starts(t, i, j) <= 2 * EffectiveLimit - 3

(***************************************************************************)
(* An attach is refused only if limit - 1 forks of its program came just   *)
(* before it, all within CNT_INTVL seconds.                                *)
(***************************************************************************)
RefusalJustified ==
    \A t \in Tps : \A j \in 1..Len(log[t]) :
        log[t][j].what = "refuse" =>
            /\ j >= EffectiveLimit
            /\ \A k \in (j - EffectiveLimit + 1)..(j - 1) :
                  /\ log[t][k].what # "refuse"
                  /\ log[t][j].at - log[t][k].at <= CntIntvl

(***************************************************************************)
(* snatchd does not listen again before the program it launched is known   *)
(* to the kernel: a program of this daemon whose conversation the resource *)
(* manager has, and that is not correlated with it, is the one in hand.    *)
(***************************************************************************)
ChildrenCorrelated ==
    pc # "down" =>
        \A c \in children :
            c.epoch = epoch /\ c.tcb \notin correlated \cup Unknown => pc = "correlate" /\ cur.tcb = c.tcb

Queued(n) == \E i \in 1..Len(queue) : queue[i].tcb = n

(***************************************************************************)
(* An attach that waits while snatchd is busy is taken up, however many    *)
(* attaches before it are refused, fail to fork or name no program.        *)
(***************************************************************************)
TakenUp ==
    \A n \in 1..MaxAttaches :
        (Queued(n) /\ pc \notin {"empty", "asleep"}) ~> (~Queued(n) \/ pc = "down")

(***************************************************************************)
(* However its programs start and end, what a daemon has registered stays  *)
(* registered as long as none of the attach files of earlier daemons that  *)
(* were held when it started is released: sna_attach_release empties the   *)
(* list for all instances, so only the release of such a file may run      *)
(* while a daemon listens.                                                 *)
(***************************************************************************)
StaysRegistered ==
    pc # "down" /\ (\A e \in elders : HeldByChildren(e)) => attach_tp_list = registered

(***************************************************************************)
(* The launch limit works both ways: it bounds a burst of starts, and it   *)
(* refuses nothing else.                                                   *)
(***************************************************************************)
LimitKept == TypeOK /\ BurstBounded /\ RefusalJustified
=============================================================================
