---------------------------- MODULE AttachProofs ----------------------------
(***************************************************************************)
(* The safety properties of snatchd and of two pairs of programs that it   *)
(* starts, atell with atelld and arexec with arexecd.                      *)
(*                                                                         *)
(* Snatchd, for every set of transaction programs, every limit and         *)
(* interval, and every number of attaches and restarts: the launch limit   *)
(* needs the invariant Counting, which ties the two fields that            *)
(* snatch_fork_tp keeps of a program, count and time, to the end of the    *)
(* history of its launches: the current counting interval is the last      *)
(* count entries, it was opened at time, and one that was opened without a *)
(* refusal came after a full interval that had expired.                    *)
(*                                                                         *)
(* Atell and arexec, for every text, list of options, buffer size and      *)
(* output of the command: the invariant ToolsInv says that the versions    *)
(* are exchanged before anything else is sent, that the units of what is   *)
(* sent are spread in order over what the receiver holds, what is on its   *)
(* way and what the sender has yet to send, and that the partner is the    *)
(* one that the options choose.                                            *)
(***************************************************************************)
EXTENDS Snatchd, AsuiteTools, SequenceTheorems, FiniteSetTheorems,
        NaturalsInduction, WellFoundedInduction, TLAPS

Entry == [what : {"start", "fail", "refuse"}, at : 0..MaxTime]

(***************************************************************************)
(* A history s, with the count n and the time T that snatch_fork_tp keeps, *)
(* as the clock stands.                                                    *)
(***************************************************************************)
\* Where the current counting interval begins.
Opening(s, n) == Len(s) - n + 1

\* The history is in the order of time.
Ordered(s, clock) ==
    \A i, j \in 1..Len(s) : i <= j => s[i].at <= s[j].at /\ s[j].at <= clock

\* No counting interval: nothing was launched yet, or the last was refused.
Idle(s, n) == n = 0 => Len(s) = 0 \/ s[Len(s)].what = "refuse"

\* The current interval: its forks are the end of the history, none is a
\* refusal, and T is the time of the first.
Current(s, n, T) ==
    n # 0 =>
        /\ n <= Len(s)
        /\ \A k \in Opening(s, n)..Len(s) : s[k].what # "refuse"
        /\ s[Opening(s, n)].at = T

\* An interval that no refusal separates from the one before it was opened
\* more than CNT_INTVL seconds after that one, which was full.
Renewal(s, n, T) ==
    n # 0 /\ Opening(s, n) > 1 /\ s[Opening(s, n) - 1].what # "refuse" =>
        /\ Opening(s, n) >= EffectiveLimit
        /\ T - s[Opening(s, n) - (EffectiveLimit - 1)].at > CntIntvl

\* BurstBounded for launches of any outcome.
Stretches(s) ==
    \A i, j \in 1..Len(s) :
        /\ i <= j
        /\ \A k \in i..j : s[k].what # "refuse"
        /\ s[j].at - s[i].at <= CntIntvl
        => j - i + 1 <= 2 * EffectiveLimit - 3

\* RefusalJustified for one program.
Justified(s) ==
    \A j \in 1..Len(s) :
        s[j].what = "refuse" =>
            /\ j >= EffectiveLimit
            /\ \A k \in (j - EffectiveLimit + 1)..(j - 1) :
                  /\ s[k].what # "refuse"
                  /\ s[j].at - s[k].at <= CntIntvl

Counting(s, n, T, clock) ==
    /\ Ordered(s, clock) /\ Idle(s, n) /\ Current(s, n, T) /\ Renewal(s, n, T)
    /\ Stretches(s) /\ Justified(s)

Child == [tcb : 1..MaxAttaches, epoch : 1..MaxStarts]

\* What TypeOK leaves open: attaches name a tcb_id that has been given out.
Types ==
    /\ queue \in Seq(Attach)
    /\ \A i \in 1..Len(queue) : queue[i].tcb <= arrived
    /\ children \subseteq Child
    /\ pc \in {"found", "correlate"} => cur \in Attach /\ cur.tcb <= arrived
    /\ pc # "down" => epoch >= 1
    /\ log \in [Tps -> Seq(Entry)]
    /\ \A t \in Tps : count[t] < EffectiveLimit

IInv ==
    /\ TypeOK
    /\ Types
    /\ \A t \in Tps : Counting(log[t], count[t], time[t], now)

\* A program that runs beside a daemon and is not its own is one of a daemon
\* that was there before it.
EldersKnown ==
    /\ elders \subseteq 1..(epoch - 1)
    /\ pc # "down" => \A c \in children : c.epoch = epoch \/ c.epoch \in elders

Registry == ChildrenCorrelated /\ StaysRegistered /\ EldersKnown

-----------------------------------------------------------------------------
LEMMA LimitFacts ==
    EffectiveLimit \in Nat /\ EffectiveLimit >= 2 /\ CntIntvl \in Nat
  BY SnatchdAssumption DEF EffectiveLimit

\* The members of a queue, when one is added and when the first is taken.
LEMMA QueueMembers ==
    ASSUME NEW S, NEW q \in Seq(S)
    PROVE  /\ ToSet(q) \subseteq S
           /\ q # <<>> => Head(q) = q[1] /\ Head(q) \in S /\ Len(q) >= 1
  BY DEF ToSet

\* The history with one more launch: every entry but the last is as it was.
LEMMA Appended ==
    ASSUME NEW s \in Seq(Entry), NEW e \in Entry
    PROVE  /\ Append(s, e) \in Seq(Entry)
           /\ Len(s) \in Nat
           /\ Len(Append(s, e)) = Len(s) + 1
           /\ \A k \in 1..Len(s) : Append(s, e)[k] = s[k] /\ s[k].at \in Nat
           /\ Append(s, e)[Len(s) + 1] = e
  <1>1. \A x \in Entry : x.at \in Nat
    BY SnatchdAssumption DEF Entry
  <1> QED
    BY <1>1

\* What a launch that is not refused keeps, whichever interval it falls in.
LEMMA OrderKept ==
    ASSUME NEW s \in Seq(Entry), NEW clock \in Nat, NEW e \in Entry, e.at = clock,
           Ordered(s, clock)
    PROVE  Ordered(Append(s, e), clock)
  <1> DEFINE u == Append(s, e)
  <1>1. \A k \in 1..Len(s) : u[k] = s[k] /\ s[k].at \in Nat
    BY Appended
  <1>2. Len(u) = Len(s) + 1 /\ Len(s) \in Nat /\ u[Len(s) + 1].at = clock
    BY Appended
  <1> HIDE DEF u
  <1>3. ASSUME NEW i \in 1..Len(u), NEW j \in 1..Len(u), i <= j
        PROVE  u[i].at <= u[j].at /\ u[j].at <= clock
    <2>1. CASE j = Len(s) + 1 /\ i = Len(s) + 1
      BY <1>2, <2>1
    <2>2. CASE j = Len(s) + 1 /\ i \in 1..Len(s)
      BY <1>1, <1>2, <2>2 DEF Ordered
    <2>3. CASE j \in 1..Len(s)
      BY <1>1, <1>2, <1>3, <2>3 DEF Ordered
    <2> QED
      BY <1>2, <2>1, <2>2, <2>3
  <1> QED
    BY <1>3 DEF u, Ordered

LEMMA JustifiedKept ==
    ASSUME NEW s \in Seq(Entry), NEW e \in Entry, e.what # "refuse", Justified(s)
    PROVE  Justified(Append(s, e))
  <1> DEFINE u == Append(s, e)
  <1>1. \A k \in 1..Len(s) : u[k] = s[k]
    BY Appended
  <1>2. Len(u) = Len(s) + 1 /\ Len(s) \in Nat /\ u[Len(s) + 1] = e
    BY Appended
  <1> HIDE DEF u
  <1>3. ASSUME NEW j \in 1..Len(u), u[j].what = "refuse"
        PROVE  /\ j >= EffectiveLimit
               /\ \A k \in (j - EffectiveLimit + 1)..(j - 1) :
                     u[k].what # "refuse" /\ u[j].at - u[k].at <= CntIntvl
    <2>1. j \in 1..Len(s) /\ s[j].what = "refuse"
      BY <1>1, <1>2, <1>3
    <2>2. j >= EffectiveLimit
      BY <2>1 DEF Justified
    <2>3. \A k \in (j - EffectiveLimit + 1)..(j - 1) : k \in 1..Len(s)
      BY <1>2, <2>1, <2>2, LimitFacts
    <2> QED
      BY <1>1, <2>1, <2>2, <2>3 DEF Justified
  <1> QED
    BY <1>3 DEF u, Justified

\* A new launch keeps the bound on stretches if those that end with it do.
LEMMA StretchesKept ==
    ASSUME NEW s \in Seq(Entry), NEW e \in Entry, Stretches(s),
           \A i \in 1..Len(s) :
              (/\ \A k \in i..Len(s) : s[k].what # "refuse"
               /\ e.what # "refuse"
               /\ e.at - s[i].at <= CntIntvl)
              => Len(s) + 1 - i + 1 <= 2 * EffectiveLimit - 3
    PROVE  Stretches(Append(s, e))
  <1> DEFINE u == Append(s, e)
  <1>1. \A k \in 1..Len(s) : u[k] = s[k]
    BY Appended
  <1>2. Len(u) = Len(s) + 1 /\ Len(s) \in Nat /\ u[Len(s) + 1] = e
    BY Appended
  <1> HIDE DEF u
  <1>3. ASSUME NEW i \in 1..Len(u), NEW j \in 1..Len(u), i <= j,
               \A k \in i..j : u[k].what # "refuse",
               u[j].at - u[i].at <= CntIntvl
        PROVE  j - i + 1 <= 2 * EffectiveLimit - 3
    <2>1. CASE j \in 1..Len(s)
      <3>1. i \in 1..Len(s) /\ \A k \in i..j : k \in 1..Len(s)
        BY <1>2, <1>3, <2>1
      <3> QED
        BY <1>1, <1>3, <2>1, <3>1 DEF Stretches
    <2>2. CASE j = Len(s) + 1 /\ i \in 1..Len(s)
      <3>1. \A k \in i..Len(s) : k \in 1..Len(s) /\ k \in i..j
        BY <1>2, <2>2
      <3>2. e.what # "refuse" /\ e.at - s[i].at <= CntIntvl
        BY <1>1, <1>2, <1>3, <2>2
      <3>3. \A k \in i..Len(s) : s[k].what # "refuse"
        BY <1>1, <1>3, <3>1
      <3> QED
        BY <2>2, <3>2, <3>3
    <2>3. CASE j = Len(s) + 1 /\ i = Len(s) + 1
      BY <1>2, <2>3, LimitFacts
    <2> QED
      BY <1>2, <2>1, <2>2, <2>3
  <1> QED
    BY <1>3 DEF u, Stretches

\* LaunchFirst opens an interval.
LEMMA FirstKeeps ==
    ASSUME NEW s \in Seq(Entry), NEW T \in Nat, NEW clock \in Nat, Counting(s, 0, T, clock),
           NEW e \in Entry, e.at = clock, e.what # "refuse"
    PROVE  Counting(Append(s, e), 1, clock, clock)
  <1> DEFINE u == Append(s, e)
  <1>1. /\ \A k \in 1..Len(s) : u[k] = s[k]
        /\ Len(u) = Len(s) + 1 /\ Len(s) \in Nat /\ u[Len(s) + 1] = e
    BY Appended
  <1>2. Ordered(u, clock) /\ Justified(u)
    BY OrderKept, JustifiedKept DEF Counting
  <1>3. Stretches(u)
    <2>1. \A i \in 1..Len(s) : ~\A k \in i..Len(s) : s[k].what # "refuse"
      BY <1>1 DEF Counting, Idle
    <2> QED
      BY <2>1, StretchesKept DEF Counting
  <1> HIDE DEF u
  <1>4. Opening(u, 1) = Len(s) + 1
    BY <1>1 DEF Opening
  <1>5. Current(u, 1, clock)
    BY <1>1, <1>4 DEF Current
  <1>6. Renewal(u, 1, clock)
    BY <1>1, <1>4 DEF Renewal, Counting, Idle
  <1> QED
    BY <1>2, <1>3, <1>5, <1>6 DEF u, Counting, Idle

\* LaunchCounted extends the interval: below the limit, the stretches that
\* reach back into the interval before leave out its first launch.
LEMMA CountedKeeps ==
    ASSUME NEW s \in Seq(Entry), NEW n \in Nat, NEW T \in Nat, NEW clock \in Nat,
           Counting(s, n, T, clock), n # 0, n + 1 < EffectiveLimit,
           NEW e \in Entry, e.at = clock, e.what # "refuse"
    PROVE  Counting(Append(s, e), n + 1, T, clock)
  <1> DEFINE u == Append(s, e)
             p == Opening(s, n)
             E == EffectiveLimit
  <1>1. /\ \A k \in 1..Len(s) : u[k] = s[k] /\ s[k].at \in Nat
        /\ Len(u) = Len(s) + 1 /\ Len(s) \in Nat /\ u[Len(s) + 1] = e
    BY Appended
  <1>2. Ordered(u, clock) /\ Justified(u)
    BY OrderKept, JustifiedKept DEF Counting
  <1>3. /\ p \in 1..Len(s) /\ p = Len(s) - n + 1 /\ s[p].at = T
        /\ \A k \in p..Len(s) : s[k].what # "refuse"
    BY <1>1 DEF Counting, Current, Opening
  <1>4. E \in Nat /\ E >= 2 /\ CntIntvl \in Nat
    BY LimitFacts
  <1>5. Stretches(u)
    <2>1. ASSUME NEW i \in 1..Len(s), \A k \in i..Len(s) : s[k].what # "refuse",
                 clock - s[i].at <= CntIntvl
          PROVE  Len(s) + 1 - i + 1 <= 2 * E - 3
      <3> HIDE DEF E, p, u
      <3>1. CASE i >= p
        BY <1>1, <1>3, <1>4, <3>1 DEF E
      <3>2. CASE i < p
        <4>1. p > 1 /\ s[p - 1].what # "refuse"
          BY <1>1, <1>3, <2>1, <3>2
        <4>2. p >= E /\ T - s[p - (E - 1)].at > CntIntvl
          BY <4>1 DEF Counting, Renewal, E, p
        <4>3. T <= clock
          BY <1>1, <1>3 DEF Counting, Ordered
        <4>4. i > p - (E - 1)
          <5> SUFFICES ASSUME i <= p - (E - 1) PROVE FALSE
            BY <1>3, <1>4
          <5>1. p - (E - 1) \in 1..Len(s)
            <6> DEFINE m == Len(s)
            <6>1. m \in Nat /\ p \in 1..m /\ E \in Nat /\ E >= 2 /\ p >= E
              BY <1>1, <1>3, <1>4, <4>2
            <6> HIDE DEF m, E, p
            <6>2. p - (E - 1) \in 1..m
              BY ONLY <6>1, SMT
            <6> QED
              BY <6>2 DEF m
          <5>2. s[i].at <= s[p - (E - 1)].at
            BY <5>1 DEF Counting, Ordered
          <5>3. s[p - (E - 1)].at \in Nat /\ s[i].at \in Nat
            BY <1>1, <5>1
          <5>4. clock - s[i].at <= CntIntvl /\ CntIntvl \in Nat
            BY <1>4, <2>1
          <5> DEFINE a == s[i].at
                     b == s[p - (E - 1)].at
          <5>5. a \in Nat /\ b \in Nat /\ a <= b /\ clock - a <= CntIntvl /\ T - b > CntIntvl
            BY <4>2, <5>2, <5>3, <5>4
          <5> HIDE DEF a, b
          <5> QED
            BY <4>3, <5>4, <5>5
        <4> QED
          BY <1>1, <1>3, <1>4, <4>4 DEF E
      <3> QED
        BY <1>3, <3>1, <3>2
    <2> QED
      BY <2>1, StretchesKept DEF Counting
  <1> HIDE DEF u, E, p
  <1>6. Opening(u, n + 1) = p
    BY <1>1, <1>3 DEF Opening
  <1>7. Current(u, n + 1, T)
    <2>1. ASSUME NEW k \in p..Len(u) PROVE u[k].what # "refuse"
      <3>1. k = Len(s) + 1 \/ (k \in p..Len(s) /\ k \in 1..Len(s))
        BY <1>1, <1>3
      <3> QED
        BY <1>1, <1>3, <3>1
    <2>2. n + 1 <= Len(u) /\ u[p].at = T
      BY <1>1, <1>3
    <2> QED
      BY <1>6, <2>1, <2>2 DEF Current
  <1>8. Renewal(u, n + 1, T)
    <2> SUFFICES ASSUME p > 1, u[p - 1].what # "refuse"
                 PROVE  p >= EffectiveLimit /\ T - u[p - (EffectiveLimit - 1)].at > CntIntvl
      BY <1>6 DEF Renewal
    <2>1. s[p - 1].what # "refuse"
      BY <1>1, <1>3
    <2>2. p >= EffectiveLimit /\ T - s[p - (EffectiveLimit - 1)].at > CntIntvl
      BY <2>1 DEF Renewal, Counting, p
    <2>3. p - (EffectiveLimit - 1) \in 1..Len(s)
      <3> DEFINE L == EffectiveLimit
                 m == Len(s)
      <3>1. L \in Nat /\ L >= 2
        BY LimitFacts
      <3>2. m \in Nat /\ p \in 1..m
        BY <1>1, <1>3
      <3>3. p >= L
        BY <2>2
      <3> HIDE DEF L, m
      <3>4. p - (L - 1) \in 1..m
        BY ONLY <3>1, <3>2, <3>3, SMT
      <3> QED
        BY <3>4 DEF L, m
    <2> QED
      BY <1>1, <2>2, <2>3
  <1> QED
    BY <1>2, <1>5, <1>7, <1>8 DEF u, Counting, Idle

\* LaunchRenewed opens an interval after a full one that has expired.
LEMMA RenewedKeeps ==
    ASSUME NEW s \in Seq(Entry), NEW n \in Nat, NEW T \in Nat, NEW clock \in Nat,
           Counting(s, n, T, clock), n = EffectiveLimit - 1, clock - T > CntIntvl,
           NEW e \in Entry, e.at = clock, e.what # "refuse"
    PROVE  Counting(Append(s, e), 1, clock, clock)
  <1> DEFINE u == Append(s, e)
             p == Opening(s, n)
             E == EffectiveLimit
  <1>1. /\ \A k \in 1..Len(s) : u[k] = s[k] /\ s[k].at \in Nat
        /\ Len(u) = Len(s) + 1 /\ Len(s) \in Nat /\ u[Len(s) + 1] = e
    BY Appended
  <1>2. Ordered(u, clock) /\ Justified(u)
    BY OrderKept, JustifiedKept DEF Counting
  <1>3. E \in Nat /\ E >= 2 /\ CntIntvl \in Nat
    BY LimitFacts
  <1>4. /\ p \in 1..Len(s) /\ p = Len(s) - n + 1 /\ s[p].at = T
        /\ \A k \in p..Len(s) : s[k].what # "refuse"
    BY <1>1, <1>3 DEF Counting, Current, Opening
  <1>5. Stretches(u)
    <2>1. ASSUME NEW i \in 1..Len(s), clock - s[i].at <= CntIntvl
          PROVE  Len(s) + 1 - i + 1 <= 2 * E - 3
      <3> HIDE DEF E, p, u
      <3>1. i > p
        <4> SUFFICES ASSUME i <= p PROVE FALSE
          BY <1>4
        <4>1. s[i].at <= s[p].at
          BY <1>4 DEF Counting, Ordered
        <4>2. s[i].at \in Nat /\ s[p].at = T
          BY <1>1, <1>4
        <4>3. clock - s[i].at >= clock - T
          BY <4>1, <4>2
        <4> QED
          BY <1>3, <2>1, <4>2, <4>3
      <3>2. n = E - 1 /\ p = Len(s) - n + 1 /\ Len(s) \in Nat
        BY <1>1, <1>4 DEF E
      <3> QED
        BY <1>3, <3>1, <3>2
    <2> QED
      BY <2>1, StretchesKept DEF Counting
  <1> HIDE DEF u, E, p
  <1>6. Opening(u, 1) = Len(s) + 1
    BY <1>1 DEF Opening
  <1>7. Current(u, 1, clock)
    BY <1>1, <1>6 DEF Current
  <1>8. Renewal(u, 1, clock)
    <2>1. Opening(u, 1) - (EffectiveLimit - 1) = p /\ Opening(u, 1) >= EffectiveLimit
      <3> DEFINE m == Len(s)
      <3>1. /\ m \in Nat /\ p \in 1..m /\ p = m - n + 1 /\ n = E - 1
            /\ E \in Nat /\ E >= 2 /\ Opening(u, 1) = m + 1
        BY <1>1, <1>3, <1>4, <1>6 DEF E
      <3> HIDE DEF m
      <3>2. (m + 1) - (E - 1) = p /\ m + 1 >= E
        BY ONLY <3>1, SMT
      <3> QED
        BY <3>1, <3>2 DEF E
    <2> QED
      BY <1>1, <1>4, <2>1 DEF Renewal
  <1> QED
    BY <1>2, <1>5, <1>7, <1>8 DEF u, Counting, Idle

\* LaunchRefused comes after a full interval that has not expired.
LEMMA RefusedKeeps ==
    ASSUME NEW s \in Seq(Entry), NEW n \in Nat, NEW T \in Nat, NEW clock \in Nat,
           Counting(s, n, T, clock), n = EffectiveLimit - 1, ~(clock - T > CntIntvl),
           NEW e \in Entry, e.at = clock, e.what = "refuse"
    PROVE  Counting(Append(s, e), 0, T, clock)
  <1> DEFINE u == Append(s, e)
             p == Opening(s, n)
             E == EffectiveLimit
  <1>1. /\ \A k \in 1..Len(s) : u[k] = s[k] /\ s[k].at \in Nat
        /\ Len(u) = Len(s) + 1 /\ Len(s) \in Nat /\ u[Len(s) + 1] = e
    BY Appended
  <1>2. Ordered(u, clock)
    BY OrderKept DEF Counting
  <1>3. E \in Nat /\ E >= 2 /\ CntIntvl \in Nat
    BY LimitFacts
  <1>4. /\ p \in 1..Len(s) /\ p = Len(s) - n + 1 /\ s[p].at = T
        /\ \A k \in p..Len(s) : s[k].what # "refuse"
    BY <1>1, <1>3 DEF Counting, Current, Opening
  <1>5. Stretches(u)
    BY StretchesKept DEF Counting
  <1>6. Justified(u)
    <2> HIDE DEF u, p
    <2>1. ASSUME NEW j \in 1..Len(u), u[j].what = "refuse"
          PROVE  /\ j >= E
                 /\ \A k \in (j - E + 1)..(j - 1) :
                       u[k].what # "refuse" /\ u[j].at - u[k].at <= CntIntvl
      <3>1. CASE j \in 1..Len(s)
        <4>1. j >= E
          BY <1>1, <2>1, <3>1 DEF Counting, Justified
        <4>2. \A k \in (j - E + 1)..(j - 1) : k \in 1..Len(s)
          BY <1>1, <1>3, <3>1, <4>1
        <4> QED
          BY <1>1, <2>1, <3>1, <4>1, <4>2 DEF Counting, Justified
      <3>2. CASE j = Len(s) + 1
        <4>1. j >= E /\ j - E + 1 = p
          BY <1>1, <1>3, <1>4, <3>2
        <4>2. ASSUME NEW k \in p..Len(s)
              PROVE  u[k].what # "refuse" /\ u[j].at - u[k].at <= CntIntvl
          <5>1. k \in 1..Len(s) /\ p <= k
            BY <1>1, <1>4
          <5>2. s[k].at >= T
            BY <1>4, <5>1 DEF Counting, Ordered
          <5>3. u[k].what # "refuse" /\ u[k].at = s[k].at /\ u[j].at = clock
            BY <1>1, <1>4, <3>2, <5>1
          <5> DEFINE a == s[k].at
          <5>4. a \in Nat /\ a >= T /\ T \in Nat /\ clock \in Nat /\ clock - T <= CntIntvl
            <6>1. a \in Nat
              BY <1>1, <5>1
            <6> QED
              BY <1>3, <5>2, <6>1
          <5> HIDE DEF a
          <5>5. clock - a <= CntIntvl
            BY <1>3, <5>4
          <5> QED
            BY <5>3, <5>5 DEF a
        <4> QED
          BY <1>1, <3>2, <4>1, <4>2
      <3> QED
        BY <1>1, <3>1, <3>2
    <2> QED
      BY <2>1 DEF Justified
  <1> HIDE DEF u, E, p
  <1>7. Idle(u, 0)
    BY <1>1 DEF Idle
  <1> QED
    BY <1>2, <1>5, <1>6, <1>7 DEF u, Counting, Current, Renewal
-----------------------------------------------------------------------------
\* A launch is made for an attach in hand; what a fork that succeeds or fails
\* leaves behind.
LEMMA ForkLogs ==
    ASSUME IInv, NEW t \in Tps, NEW ok \in BOOLEAN, Forks(t, ok)
    PROVE  \E w \in {"start", "fail"} : Logged(t, w)
  BY DEF Forks

LEMMA AtTheLimit ==
    ASSUME IInv, NEW t \in Tps, count[t] # 0
    PROVE  /\ AtLimit(t) => count[t] = EffectiveLimit - 1
           /\ ~AtLimit(t) => count[t] + 1 < EffectiveLimit
  <1> DEFINE c == count[t]
  <1>1. c \in Nat /\ c < EffectiveLimit /\ c # 0 /\ Limit \in Nat
    BY SnatchdAssumption DEF IInv, TypeOK, Types
  <1>2. AtLimit(t) <=> c + 1 >= Limit
    BY DEF AtLimit
  <1> HIDE DEF c
  <1>3. (c + 1 >= Limit => c = EffectiveLimit - 1) /\ (~(c + 1 >= Limit) => c + 1 < EffectiveLimit)
    BY ONLY <1>1, SMT DEF EffectiveLimit
  <1> QED
    BY <1>2, <1>3 DEF c

\* One launch of t: its history grows, the others' do not.
LEMMA LaunchTypes ==
    ASSUME IInv, NEW t \in Tps, NEW w \in {"start", "fail", "refuse"}, Logged(t, w)
    PROVE  /\ [what |-> w, at |-> now] \in Entry
           /\ log'[t] = Append(log[t], [what |-> w, at |-> now])
           /\ log[t] \in Seq(Entry)
           /\ \A r \in Tps : r # t => log'[r] = log[r]
           /\ log' \in [Tps -> Seq(Entry)]
           /\ now \in Nat /\ time[t] \in Nat /\ count[t] \in Nat
  <1> DEFINE e == [what |-> w, at |-> now]
  <1>1. e \in Entry
    BY DEF IInv, TypeOK, Entry
  <1>2. log[t] \in Seq(Entry) /\ log \in [Tps -> Seq(Entry)]
    BY DEF IInv, Types
  <1>3. Append(log[t], e) \in Seq(Entry)
    BY <1>1, <1>2, Appended
  <1>4. now \in Nat /\ time[t] \in Nat /\ count[t] \in Nat
    BY SnatchdAssumption DEF IInv, TypeOK
  <1> QED
    BY <1>1, <1>2, <1>3, <1>4 DEF Logged

\* The clock and the steps that launch nothing leave every history as it is.
LEMMA CountingStep ==
    ASSUME IInv, [Next]_vars
    PROVE  \A t \in Tps : Counting(log[t], count[t], time[t], now)'
  <1> USE DEF IInv
  <1>1. CASE UNCHANGED <<log, count, time, now>>
    BY <1>1
  <1>2. CASE Tick
    <2>1. SUFFICES ASSUME NEW t \in Tps PROVE Ordered(log[t], now)'
      BY <1>2, <2>1 DEF Tick, directorVars, Counting
    <2>2. \A i \in 1..Len(log[t]) : log[t][i].at \in Nat
      <3>1. \A x \in Entry : x.at \in Nat
        BY SnatchdAssumption DEF Entry
      <3> QED
        BY <3>1 DEF Types
    <2>3. now \in Nat /\ now' = now + 1 /\ log' = log
      BY <1>2, SnatchdAssumption DEF Tick, TypeOK
    <2> QED
      BY <2>2, <2>3 DEF Counting, Ordered
  <1>3. CASE Start
    <2>1. ASSUME NEW t \in Tps PROVE log'[t] = <<>> /\ count'[t] = 0
      BY <1>3 DEF Start
    <2> QED
      BY <2>1 DEF Counting, Ordered, Idle, Current, Renewal, Stretches, Justified
  <1>4. ASSUME NEW t \in Tps, NEW w \in {"start", "fail", "refuse"}, Logged(t, w), now' = now,
               \A r \in Tps : r # t => count'[r] = count[r] /\ time'[r] = time[r],
               Counting(Append(log[t], [what |-> w, at |-> now]), count'[t], time'[t], now)
        PROVE  \A r \in Tps : Counting(log[r], count[r], time[r], now)'
    <2>1. log'[t] = Append(log[t], [what |-> w, at |-> now]) /\ \A r \in Tps : r # t => log'[r] = log[r]
      BY <1>4, LaunchTypes
    <2>2. ASSUME NEW r \in Tps PROVE Counting(log'[r], count'[r], time'[r], now')
      <3>1. CASE r = t
        BY <1>4, <2>1, <3>1
      <3>2. CASE r # t
        BY <1>4, <2>1, <3>2
      <3> QED
        BY <3>1, <3>2
    <2> QED
      BY <2>2
  <1>5. ASSUME NEW t \in Tps, NEW ok \in BOOLEAN, LaunchFirst(t, ok) \/ LaunchCounted(t, ok) \/ LaunchRenewed(t, ok)
        PROVE  \A r \in Tps : Counting(log[r], count[r], time[r], now)'
    <2>1. Forks(t, ok) /\ now' = now
      BY <1>5 DEF LaunchFirst, LaunchCounted, LaunchRenewed, Forks
    <2>2. PICK w \in {"start", "fail"} : Logged(t, w)
      BY <2>1, ForkLogs
    <2>w. w \in {"start", "fail", "refuse"} /\ w # "refuse"
      BY <2>2
    <2> DEFINE e == [what |-> w, at |-> now]
    <2>3. /\ e \in Entry /\ log[t] \in Seq(Entry) /\ now \in Nat /\ time[t] \in Nat /\ count[t] \in Nat
          /\ e.at = now /\ e.what # "refuse"
      BY <2>2, <2>w, LaunchTypes
    <2>4. Counting(log[t], count[t], time[t], now)
      OBVIOUS
    <2>5. count \in [Tps -> Nat] /\ time \in [Tps -> 0..MaxTime]
      BY DEF TypeOK
    <2> HIDE DEF e, IInv
    <2>6. CASE LaunchFirst(t, ok)
      <3>1. count[t] = 0 /\ count'[t] = 1 /\ time'[t] = now
        BY <2>5, <2>6 DEF LaunchFirst
      <3>2. Counting(Append(log[t], e), 1, now, now)
        BY <2>3, <2>4, <3>1, FirstKeeps
      <3>3. \A r \in Tps : r # t => count'[r] = count[r] /\ time'[r] = time[r]
        BY <2>5, <2>6 DEF LaunchFirst
      <3> QED
        BY <1>4, <2>1, <2>2, <2>w, <3>1, <3>2, <3>3 DEF e
    <2>7. CASE LaunchCounted(t, ok)
      <3>1. count[t] # 0 /\ ~AtLimit(t) /\ count'[t] = count[t] + 1 /\ time'[t] = time[t]
        BY <2>5, <2>7 DEF LaunchCounted
      <3>2. count[t] + 1 < EffectiveLimit
        BY <3>1, AtTheLimit
      <3>3. Counting(Append(log[t], e), count[t] + 1, time[t], now)
        BY <2>3, <2>4, <3>1, <3>2, CountedKeeps
      <3>4. \A r \in Tps : r # t => count'[r] = count[r] /\ time'[r] = time[r]
        BY <2>5, <2>7 DEF LaunchCounted
      <3> QED
        BY <1>4, <2>1, <2>2, <2>w, <3>1, <3>3, <3>4 DEF e
    <2>8. CASE LaunchRenewed(t, ok)
      <3>1. /\ count[t] # 0 /\ AtLimit(t) /\ count'[t] = 1 /\ time'[t] = now
            /\ now - time[t] > CntIntvl
        BY <2>5, <2>8 DEF LaunchRenewed, Expired
      <3>2. count[t] = EffectiveLimit - 1
        BY <3>1, AtTheLimit
      <3>3. Counting(Append(log[t], e), 1, now, now)
        BY <2>3, <2>4, <3>1, <3>2, RenewedKeeps
      <3>4. \A r \in Tps : r # t => count'[r] = count[r] /\ time'[r] = time[r]
        BY <2>5, <2>8 DEF LaunchRenewed
      <3> QED
        BY <1>4, <2>1, <2>2, <2>w, <3>1, <3>3, <3>4 DEF e
    <2> QED
      BY <1>5, <2>6, <2>7, <2>8
  <1>6. ASSUME NEW t \in Tps, LaunchRefused(t)
        PROVE  \A r \in Tps : Counting(log[r], count[r], time[r], now)'
    <2>1. Logged(t, "refuse") /\ now' = now
      BY <1>6 DEF LaunchRefused
    <2> DEFINE e == [what |-> "refuse", at |-> now]
    <2>2. /\ e \in Entry /\ log[t] \in Seq(Entry) /\ now \in Nat /\ time[t] \in Nat /\ count[t] \in Nat
          /\ e.at = now /\ e.what = "refuse"
      BY <2>1, LaunchTypes
    <2>3. Counting(log[t], count[t], time[t], now)
      OBVIOUS
    <2>4. count \in [Tps -> Nat] /\ time \in [Tps -> 0..MaxTime]
      BY DEF TypeOK
    <2> HIDE DEF e, IInv
    <2>5. /\ count[t] # 0 /\ AtLimit(t) /\ count'[t] = 0 /\ time' = time
          /\ ~(now - time[t] > CntIntvl)
      BY <1>6, <2>4 DEF LaunchRefused, Expired
    <2>6. count[t] = EffectiveLimit - 1
      BY <2>5, AtTheLimit
    <2>7. Counting(Append(log[t], e), 0, time[t], now)
      BY <2>2, <2>3, <2>5, <2>6, RefusedKeeps
    <2>8. \A r \in Tps : r # t => count'[r] = count[r] /\ time'[r] = time[r]
      BY <1>6, <2>4, <2>5 DEF LaunchRefused
    <2> QED
      BY <1>4, <2>1, <2>5, <2>7, <2>8 DEF e
  <1>7. CASE UNCHANGED vars
    BY <1>1, <1>7 DEF vars, directorVars
  <1>8. CASE Director
    BY <1>1, <1>5, <1>6, <1>8 DEF Director, ListenDequeues, ListenEmpty, ListenSleeps, ListenNoMemory, NapEnds,
       DropUnknown, Correlate
  <1>9. CASE Environment
    BY <1>1, <1>2, <1>3, <1>9 DEF Environment, Goaway, Dies, ChildExits, ExecuteTp
  <1> QED
    BY <1>7, <1>8, <1>9 DEF Next
-----------------------------------------------------------------------------
\* The typing part, the steps of a launch.
LEMMA LaunchTyped ==
    ASSUME IInv, NEW t \in Tps,
           \/ LaunchRefused(t)
           \/ \E ok \in BOOLEAN : LaunchFirst(t, ok) \/ LaunchCounted(t, ok) \/ LaunchRenewed(t, ok)
    PROVE  TypeOK' /\ Types'
  <1> USE SnatchdAssumption, LimitFacts DEF IInv
  <1>1. pc = "found" /\ cur \in Attach /\ cur.tcb \in 1..arrived /\ epoch \in 1..MaxStarts
    BY DEF LaunchRefused, LaunchFirst, LaunchCounted, LaunchRenewed, Launching, TypeOK, Types, Attach
  <1>2. CASE LaunchRefused(t)
    <2>1. log' \in [Tps -> Seq(Entry)]
      BY <1>2, LaunchTypes DEF LaunchRefused
    <2>2. TypeOK'
      BY <1>2 DEF LaunchRefused, kernelVars, registryVars, TypeOK
    <2>3. Types'
      <3>1. \A r \in Tps : count'[r] < EffectiveLimit
        BY <1>2 DEF LaunchRefused, Types, TypeOK
      <3>2. pc' = "nap" /\ UNCHANGED <<queue, arrived, children, epoch>>
        BY <1>2 DEF LaunchRefused, kernelVars
      <3>3. epoch >= 1
        BY <1>1
      <3> QED
        BY <2>1, <3>1, <3>2, <3>3 DEF Types
    <2> QED
      BY <2>2, <2>3
  <1>3. ASSUME NEW ok \in BOOLEAN, LaunchFirst(t, ok) \/ LaunchCounted(t, ok) \/ LaunchRenewed(t, ok)
        PROVE  TypeOK' /\ Types'
    <2>1. Forks(t, ok)
      BY <1>3 DEF LaunchFirst, LaunchCounted, LaunchRenewed
    <2>2. PICK w \in {"start", "fail"} : Logged(t, w)
      BY <2>1, ForkLogs
    <2>3. log' \in [Tps -> Seq(Entry)]
      BY <2>2, LaunchTypes
    <2>4. /\ count' \in [Tps -> Nat] /\ time' \in [Tps -> 0..MaxTime]
          /\ \A r \in Tps : count'[r] < EffectiveLimit
      <3>0. count \in [Tps -> Nat] /\ time \in [Tps -> 0..MaxTime] /\ now \in 0..MaxTime
        BY DEF TypeOK
      <3>1. \A r \in Tps : count[r] < EffectiveLimit
        BY DEF Types
      <3>2. CASE LaunchFirst(t, ok)
        BY <3>0, <3>1, <3>2 DEF LaunchFirst
      <3>3. CASE LaunchCounted(t, ok)
        <4>1. count[t] + 1 < EffectiveLimit
          BY <3>3, AtTheLimit DEF LaunchCounted
        <4> QED
          BY <3>0, <3>1, <3>3, <4>1 DEF LaunchCounted
      <3>4. CASE LaunchRenewed(t, ok)
        BY <3>0, <3>1, <3>4 DEF LaunchRenewed
      <3> QED
        BY <1>3, <3>2, <3>3, <3>4
    <2>5. /\ pc' \in {"correlate", "nap"} /\ cur' \in Attach \cup {NoAttach}
          /\ pc' = "correlate" => cur' = cur
      BY <1>1, <2>1 DEF Forks
    <2>6. \A c \in children' : c \in children \/ c = [tcb |-> cur.tcb, epoch |-> epoch]
      BY <2>1 DEF Forks
    <2>7. [tcb |-> cur.tcb, epoch |-> epoch] \in Child /\ arrived \in 0..MaxAttaches
      BY <1>1 DEF Child, TypeOK
    <2>8. /\ children' \subseteq Child
          /\ \A c \in children' : c.tcb \in 1..arrived' /\ c.epoch \in 1..epoch'
      <3>1. children \subseteq Child /\ \A c \in children : c.tcb \in 1..arrived /\ c.epoch \in 1..epoch
        BY DEF TypeOK, Types
      <3>2. arrived' = arrived /\ epoch' = epoch
        BY <2>1 DEF Forks
      <3> QED
        BY <1>1, <2>6, <2>7, <3>1, <3>2
    <2>9. UNCHANGED <<epoch, queue, attach_tp_list, arrived, correlated, now, registryVars>>
      BY <2>1 DEF Forks
    <2>10. TypeOK'
      <3>1. \A r \in Tps : count'[r] <= EffectiveLimit
        BY <2>4
      <3> QED
        BY <2>4, <2>5, <2>8, <2>9, <3>1 DEF TypeOK, registryVars
    <2>11. Types'
      BY <1>1, <2>3, <2>4, <2>5, <2>8, <2>9 DEF Types
    <2> QED
      BY <2>10, <2>11
  <1> QED
    BY <1>2, <1>3

\* The typing part, every step.
LEMMA TypesStep ==
    ASSUME IInv, [Next]_vars
    PROVE  TypeOK' /\ Types'
  <1> USE SnatchdAssumption, LimitFacts DEF IInv
  <1>1. CASE Start
    <2>1. /\ log' \in [Tps -> Seq(Entry)] /\ count' \in [Tps -> Nat] /\ time' \in [Tps -> 0..MaxTime]
          /\ \A t \in Tps : count'[t] = 0
      BY <1>1 DEF Start
    <2>2. epoch' \in 1..MaxStarts /\ epoch' = epoch + 1 /\ epoch \in Nat
      BY <1>1 DEF Start, TypeOK
    <2>3. TypeOK'
      <3>1. PICK loaded \in SUBSET Tps : attach_tp_list' = attach_tp_list \cup loaded
        BY <1>1 DEF Start
      <3>2. attach_tp_list' \subseteq Tps /\ registered' \subseteq Tps
        BY <1>1, <3>1 DEF Start, TypeOK
      <3>3. elders' \subseteq 1..epoch'
        BY <1>1, <2>2 DEF Start
      <3>4. \A c \in children' : c.tcb \in 1..arrived' /\ c.epoch \in 1..epoch'
        BY <1>1, <2>2 DEF Start, TypeOK
      <3> QED
        BY <1>1, <2>1, <2>2, <3>2, <3>3, <3>4 DEF Start, TypeOK
    <2>4. Types'
      BY <1>1, <2>1, <2>2 DEF Start, Types
    <2> QED
      BY <2>3, <2>4
  <1>2. CASE Goaway
    BY <1>2 DEF Goaway, registryVars, TypeOK, Types
  <1>3. CASE Dies
    BY <1>3 DEF Dies, registryVars, TypeOK, Types
  <1>4. CASE Tick
    BY <1>4 DEF Tick, directorVars, kernelVars, registryVars, TypeOK, Types
  <1>5. ASSUME NEW c \in children, ChildExits(c)
        PROVE  TypeOK' /\ Types'
    BY <1>5 DEF ChildExits, registryVars, TypeOK, Types
  <1>6. ASSUME NEW t \in Tps \cup {NoName}, ExecuteTp(t)
        PROVE  TypeOK' /\ Types'
    <2> DEFINE a == [tp |-> t, tcb |-> arrived + 1]
    <2>1. a \in Attach /\ arrived \in Nat /\ arrived' = arrived + 1 /\ arrived' \in 0..MaxAttaches
      BY <1>6 DEF ExecuteTp, TypeOK, Attach
    <2>2. queue \in Seq(Attach) /\ queue' = Append(queue, a)
      BY <1>6 DEF ExecuteTp, Types
    <2> HIDE DEF a
    <2>3. queue' \in Seq(Attach) /\ ToSet(queue') \subseteq Attach
      <3>1. queue' \in Seq(Attach)
        BY <2>1, <2>2
      <3> QED
        BY <3>1, QueueMembers
    <2>4. \A i \in 1..Len(queue') : queue'[i].tcb <= arrived'
      <3>1. \A i \in 1..Len(queue) : queue[i].tcb \in Nat /\ queue[i].tcb <= arrived
        <4>1. \A x \in Attach : x.tcb \in Nat
          BY DEF Attach
        <4> QED
          BY <2>2, <4>1 DEF Types
      <3>2. a.tcb = arrived + 1
        BY DEF a
      <3> QED
        BY <2>1, <2>2, <3>1, <3>2
    <2>5. \A c \in children : c.tcb \in 1..arrived'
      BY <2>1 DEF TypeOK
    <2>6. correlated \subseteq (1..arrived') \ Unknown
      BY <2>1 DEF TypeOK
    <2>7. TypeOK'
      BY <1>6, <2>1, <2>3, <2>5, <2>6 DEF ExecuteTp, registryVars, TypeOK
    <2>8. pc' \in {"found", "correlate"} => cur' \in Attach /\ cur'.tcb <= arrived'
      BY <1>6, <2>1 DEF ExecuteTp, Types, Attach
    <2>9. Types'
      BY <1>6, <2>3, <2>4, <2>8 DEF ExecuteTp, Types
    <2> QED
      BY <2>7, <2>9
  <1>7. CASE ListenDequeues
    <2>1. queue \in Seq(Attach) /\ queue # <<>> /\ queue' = Tail(queue) /\ cur' = Head(queue)
      BY <1>7 DEF ListenDequeues, Types
    <2>2. queue' \in Seq(Attach) /\ ToSet(queue') \subseteq Attach
      <3>1. queue' \in Seq(Attach)
        BY <2>1
      <3> QED
        BY <3>1, QueueMembers
    <2>3. cur' \in Attach /\ cur'.tcb <= arrived
      BY <2>1, QueueMembers DEF Types
    <2>4. \A i \in 1..Len(queue') : queue'[i].tcb <= arrived
      BY <2>1 DEF Types
    <2> QED
      BY <1>7, <2>2, <2>3, <2>4 DEF ListenDequeues, registryVars, TypeOK, Types
  <1>8. CASE ListenEmpty \/ ListenSleeps \/ ListenNoMemory \/ NapEnds
    BY <1>8 DEF ListenEmpty, ListenSleeps, ListenNoMemory, NapEnds, kernelVars, registryVars, TypeOK, Types
  <1>9. CASE DropUnknown
    BY <1>9 DEF DropUnknown, kernelVars, registryVars, TypeOK, Types
  <1>10. CASE Correlate
    <2>1. cur.tcb \in 1..arrived
      BY <1>10 DEF Correlate, TypeOK, Types, Attach
    <2> QED
      BY <1>10, <2>1 DEF Correlate, registryVars, TypeOK, Types
  <1>11. CASE UNCHANGED vars
    BY <1>11 DEF vars, directorVars, kernelVars, registryVars, TypeOK, Types
  <1>12. CASE Director
    BY <1>7, <1>8, <1>9, <1>10, <1>12, LaunchTyped DEF Director
  <1>13. CASE Environment
    BY <1>1, <1>2, <1>3, <1>4, <1>5, <1>6, <1>13 DEF Environment
  <1> QED
    BY <1>11, <1>12, <1>13 DEF Next

-----------------------------------------------------------------------------
\* Launching and correlating, registering and releasing: every step.
LEMMA RegistryStep ==
    ASSUME IInv, Registry, [Next]_vars
    PROVE  Registry'
  <1> USE DEF Registry, ChildrenCorrelated, StaysRegistered, EldersKnown, HeldByChildren
  <1>0. /\ \A c \in children : c.tcb \in 1..arrived /\ c.epoch \in 1..epoch
        /\ epoch \in Nat /\ attach_tp_list \subseteq Tps /\ elders \subseteq 1..epoch
    BY DEF IInv, TypeOK
  <1>1. CASE Start
    <2>1. epoch' = epoch + 1 /\ children' = children /\ elders' = {e \in 1..epoch : HeldByChildren(e)}
      BY <1>1 DEF Start
    <2>2. EldersKnown'
      BY <1>0, <2>1
    <2>3. StaysRegistered'
      BY <1>1 DEF Start
    <2>4. ChildrenCorrelated'
      BY <1>0, <2>1
    <2> QED
      BY <2>2, <2>3, <2>4
  <1>2. CASE Goaway \/ Dies
    BY <1>2 DEF Goaway, Dies, registryVars
  <1>3. CASE Tick
    BY <1>3 DEF Tick, directorVars, kernelVars, registryVars
  <1>4. ASSUME NEW c \in children, ChildExits(c)
        PROVE  Registry'
    <2>1. pc' = "down" <=> pc = "down"
      BY <1>4 DEF ChildExits
    <2>2. /\ children' = children \ {c}
          /\ UNCHANGED <<epoch, cur, correlated, registered, elders>>
      BY <1>4 DEF ChildExits, registryVars
    <2>3. EldersKnown'
      BY <2>1, <2>2
    <2>4. ChildrenCorrelated'
      BY <1>4, <2>1, <2>2 DEF ChildExits
    <2>5. StaysRegistered'
      <3> SUFFICES ASSUME pc # "down", \A e \in elders : \E d \in children' : d.epoch = e
                   PROVE  attach_tp_list' = registered
        BY <2>1, <2>2
      <3>1. attach_tp_list = registered
        BY <2>2
      <3>2. CASE c.epoch = epoch
        BY <1>4, <3>1, <3>2 DEF ChildExits
      <3>3. CASE c.epoch \in elders
        <4>1. PICK d \in children' : d.epoch = c.epoch
          BY <3>3
        <4> QED
          BY <1>4, <2>2, <3>1, <4>1 DEF ChildExits
      <3> QED
        BY <3>2, <3>3
    <2> QED
      BY <2>3, <2>4, <2>5
  <1>5. ASSUME NEW t \in Tps \cup {NoName}, ExecuteTp(t)
        PROVE  Registry'
    BY <1>5 DEF ExecuteTp, registryVars
  <1>6. CASE ListenDequeues \/ ListenEmpty \/ ListenSleeps \/ ListenNoMemory \/ NapEnds \/ DropUnknown
    BY <1>6 DEF ListenDequeues, ListenEmpty, ListenSleeps, ListenNoMemory, NapEnds, DropUnknown, kernelVars, registryVars
  <1>7. CASE Correlate
    BY <1>7 DEF Correlate, registryVars
  <1>8. ASSUME NEW t \in Tps, NEW ok \in BOOLEAN,
               LaunchFirst(t, ok) \/ LaunchCounted(t, ok) \/ LaunchRenewed(t, ok)
        PROVE  Registry'
    <2>1. Forks(t, ok) /\ pc = "found"
      BY <1>8 DEF LaunchFirst, LaunchCounted, LaunchRenewed, Launching
    <2>2. /\ \/ children' = children
             \/ children' = children \cup {[tcb |-> cur.tcb, epoch |-> epoch]} /\ pc' = "correlate" /\ cur' = cur
          /\ UNCHANGED <<epoch, attach_tp_list, correlated, registered, elders>>
      BY <2>1 DEF Forks, registryVars
    <2>3. ChildrenCorrelated'
      BY <2>1, <2>2
    <2>4. StaysRegistered'
      BY <1>0, <2>1, <2>2
    <2>5. EldersKnown'
      BY <2>1, <2>2
    <2> QED
      BY <2>3, <2>4, <2>5
  <1>9. ASSUME NEW t \in Tps, LaunchRefused(t)
        PROVE  Registry'
    BY <1>9 DEF LaunchRefused, Launching, kernelVars, registryVars
  <1>10. CASE UNCHANGED vars
    BY <1>10 DEF vars, directorVars, kernelVars, registryVars
  <1> QED
    BY <1>1, <1>2, <1>3, <1>4, <1>5, <1>6, <1>7, <1>8, <1>9, <1>10 DEF Next, Director, Environment

-----------------------------------------------------------------------------
\* Both invariants hold before snatchd is started.
LEMMA IInvInit == Init => IInv /\ Registry
  <1> SUFFICES ASSUME Init PROVE IInv /\ Registry
    OBVIOUS
  <1> USE SnatchdAssumption, LimitFacts DEF Init
  <1>1. TypeOK
    BY DEF TypeOK, ToSet
  <1>2. Types
    BY DEF Types
  <1>3. \A t \in Tps : Counting(log[t], count[t], time[t], now)
    BY DEF Counting, Ordered, Idle, Current, Renewal, Stretches, Justified
  <1> QED
    BY <1>1, <1>2, <1>3 DEF IInv, Registry, ChildrenCorrelated, StaysRegistered, EldersKnown

\* They hold throughout every run of snatchd and the attach manager.
LEMMA IInvAlways == Spec => [](IInv /\ Registry)
  <1>1. IInv /\ Registry /\ [Next]_vars => (IInv /\ Registry)'
    BY CountingStep, TypesStep, RegistryStep DEF IInv
  <1> QED
    BY <1>1, IInvInit, PTL DEF Spec

\* A stretch of a program's history has no more starts than launches.
LEMMA StartsBounded ==
    ASSUME NEW t \in Tps, NEW i \in Nat, NEW j \in Nat, i <= j
    PROVE  Starts(t, i, j) \in Nat /\ Starts(t, i, j) <= j - i + 1
  <1>1. IsFiniteSet(i..j) /\ Cardinality(i..j) = j - i + 1
    BY FS_Interval
  <1>2. {k \in i..j : log[t][k].what = "start"} \subseteq i..j
    OBVIOUS
  <1>3. /\ IsFiniteSet({k \in i..j : log[t][k].what = "start"})
        /\ Cardinality({k \in i..j : log[t][k].what = "start"}) <= Cardinality(i..j)
    BY <1>1, <1>2, FS_Subset
  <1> QED
    BY <1>1, <1>3, FS_CardinalityType DEF Starts

\* The launch limit works both ways, for every limit and every interval:
\* between two refusals no span of CNT_INTVL seconds sees more than
\* 2 * limit - 3 starts of a program, and an attach is refused only after
\* limit - 1 launches of its program within the interval.
THEOREM LaunchLimit == Spec => []LimitKept
  <1>1. ASSUME IInv PROVE LimitKept
    <2>1. TypeOK
      BY <1>1 DEF IInv
    <2>2. RefusalJustified
      BY <1>1 DEF IInv, Counting, Justified, RefusalJustified
    <2>3. BurstBounded
      <3> SUFFICES ASSUME NEW t \in Tps, NEW i \in 1..Len(log[t]), NEW j \in 1..Len(log[t]), i <= j,
                          \A k \in i..j : log[t][k].what # "refuse",
                          log[t][j].at - log[t][i].at <= CntIntvl
                   PROVE  Starts(t, i, j) <= 2 * EffectiveLimit - 3
        BY DEF BurstBounded
      <3>1. j - i + 1 <= 2 * EffectiveLimit - 3
        BY <1>1 DEF IInv, Counting, Stretches
      <3>2. i \in Nat /\ j \in Nat
        BY <1>1 DEF IInv, Types
      <3>3. Starts(t, i, j) \in Nat /\ Starts(t, i, j) <= j - i + 1
        BY <3>2, StartsBounded
      <3> QED
        BY <3>1, <3>2, <3>3, LimitFacts
    <2> QED
      BY <2>1, <2>2, <2>3 DEF LimitKept
  <1> QED
    BY <1>1, IInvAlways, PTL

\* snatchd never listens again before it has told the kernel the process of
\* the program it launched last: a program of the daemon whose conversation is
\* known to the resource manager and that is not correlated with it is the one
\* in hand, whichever conversations the resource manager knows.
THEOREM ChildrenAreCorrelated == Spec => []ChildrenCorrelated
  BY IInvAlways, PTL DEF Registry

\* What any daemon, the first or a restarted one, has registered stays
\* registered while it runs and no attach file of an earlier daemon is
\* released: no end of a program of its own empties the list, and whoever does
\* is the last program of a daemon that ended before it started.
THEOREM ProgramsStayRegistered == Spec => []StaysRegistered
  BY IInvAlways, PTL DEF Registry

-----------------------------------------------------------------------------
(***************************************************************************)
(* The invariant of atell and arexec.                                      *)
(***************************************************************************)
\* A unit of a text, or one that the programs add.
Unit == STRING \cup {"version", "error", " ", Nul, "?"}
Item == [d : Seq(Unit), s : {"none"} \cup Status]

\* The exchange of versions, as it is on the conversation.
Version == <<[d |-> <<"version">>, s |-> "none"], [d |-> <<>>, s |-> "send"]>>

\* The records of q are the units a + 1 .. e of u.
Runs(q, u, a, e) ==
    \E at \in [0 .. Len(q) -> 0 .. Len(u)] :
        /\ at[0] = a /\ at[Len(q)] = e
        /\ \A i \in 1 .. Len(q) :
              /\ at[i] = at[i - 1] + Len(q[i].d)
              /\ \A j \in 1 .. Len(q[i].d) : u[at[i - 1] + j] = q[i].d[j]

\* What is on the conversation, and how the programs may have ended.
Queues ==
    /\ toS \in Seq(Item) /\ toC \in Seq(Item) /\ outage \in BOOLEAN
    /\ cexit \in {"running", "success", "failure", "crashed"} /\ sexit \in {"running", "success", "failure", "crashed"}

\* Until the versions are exchanged; a client that has gone on without an
\* answer has lost the conversation.
VersionsFirst ==
    /\ cpc \in {"arguments", "allocate", "version"} => spc = "accept" /\ toS = <<>>
    /\ spc \in {"accept", "version"} => toS = <<>> \/ toS = Version
    /\ spc \in {"accept", "version"} =>
          cpc \in {"arguments", "allocate", "version", "version_wait"} \/ Broken
    /\ spc \in {"accept", "version", "receive"} =>
          toC = <<>> \/ (toC = Version /\ cpc = "version_wait" /\ spc = "receive")
    /\ spc = "receive" /\ cpc = "version_wait" => toS = <<>>
    /\ spc \notin {"accept", "version", "receive"} => cpc \in {"confirm", "output"}

-----------------------------------------------------------------------------
\* What arexec has printed, what is on the way and what is still to be sent
\* are the output of the command.
OutputSpread ==
    /\ produced \in Outputs /\ printed \in Seq(Unit) /\ output \in Seq(Unit)
    /\ \A j \in 1 .. Len(printed) : printed[j] = produced[j]
    /\ Len(output) <= Len(produced)
    /\ \A j \in 1 .. Len(output) : output[j] = produced[Len(produced) - Len(output) + j]
    /\ \E e \in 0 .. Len(produced) :
          /\ Runs(toC, produced, Len(printed), e)
          /\ Broken \/ e = Len(produced) - Len(output)
          /\ \A i \in 1 .. Len(toC) :
                \/ toC[i].s = "none" /\ toC[i].d # <<>>
                \/ /\ toC[i].s = "dealloc" /\ toC[i].d = <<>>
                   /\ i = Len(toC) /\ sexit # "running" /\ e = Len(produced)

\* The command is the words that arexec takes for it, and fits its buffer.
CommandKept ==
    /\ command \in Seq(Unit) /\ Len(command) < CommandSize
    /\ cpc # "arguments" => command = CommandOf(Operands(asked.dest, asked.words))

\* A run of arexec and arexecd.
ArexecInv ==
    /\ cpc \in {"arguments", "allocate", "version", "version_wait", "command", "output"}
    /\ spc \in {"accept", "version", "receive", "send", "popen_failed"}
    /\ CommandKept
    /\ spc = "receive" => toS = <<>> \/ (toS = Data(command) \o Stat("send") /\ cpc = "output")
    /\ spc \in {"send", "popen_failed"} => toS = <<>> \/ toS = Stat("send")
    /\ spc # "send" => executed = <<>>
    /\ spc \in {"accept", "version", "receive"} => printed = <<>>
    /\ spc = "popen_failed" => printed \in Seq(Unit) /\ \A i \in 1 .. Len(toC) : toC[i].s # "dealloc"
    /\ spc = "send" => executed = <<command>> /\ OutputSpread
    /\ cexit = "success" /\ cpc = "output" => spc = "send" /\ printed = produced

-----------------------------------------------------------------------------
\* The user that the message is for, if the server takes one; what atell sends
\* for a plain command line, and how much of it is sent.
Addressee == IF UseridSupported THEN given.user ELSE <<>>
Letter ==
    Data(given.text \o <<Nul>>) \o (IF Addressee # <<>> THEN Data(Addressee) ELSE <<>>) \o Stat("confirm_dealloc")
Posted ==
    CASE cpc = "message" -> 0
      [] cpc = "userid" -> 1
      [] cpc = "deallocate" -> Len(Letter) - 1
      [] cpc = "confirm" -> Len(Letter)

\* atelld has read a parts of the letter, b have got through.
LetterSpread ==
    \E a, b \in 0 .. Posted :
        /\ a <= b /\ (Broken \/ b = Posted) /\ a < Len(Letter)
        /\ toS = SubSeq(Letter, a + 1, b)
        /\ message = IF a = 0 THEN <<>> ELSE given.text
        /\ userid = IF a < 2 THEN <<>> ELSE Addressee

\* atell has its answer to the version and sends the letter.
Writing == cpc \in {"message", "userid", "deallocate", "confirm"}

\* What the programs keep of the message and its user.
MessageKept ==
    /\ message \in Seq(Unit) /\ Len(message) <= MessageSize
    /\ userid \in Seq(Unit) /\ Len(userid) < UseridSize
    /\ send_buf \in Seq(Unit) /\ dest_userid \in Seq(Unit)
    /\ given.user \in Seq(Unit) /\ given.text \in Seq(Unit)
    /\ \A i \in DOMAIN given.user : given.user[i] # Nul
    /\ \A i \in DOMAIN given.text : given.text[i] # Nul
    /\ cpc # "arguments" /\ Plain => send_buf = given.text \o <<Nul>> /\ dest_userid = given.user

\* The message is shown once, on the console only when it is for nobody else.
Shows ==
    \E tty \in {<<"stderr">>, <<"console">>, userid} :
        /\ shown = <<[text |-> message, user |-> userid, tty |-> tty]>>
        /\ tty = <<"console">> => userid = <<>> \/ userid = tty

\* A run of atell and atelld.
AtellInv ==
    /\ cpc \in {"arguments", "allocate", "version", "version_wait", "message", "userid", "deallocate", "confirm"}
    /\ spc \in {"accept", "version", "receive", "display", "confirmed"}
    /\ MessageKept
    /\ spc \in {"accept", "version"} \/ (spc = "receive" /\ ~Writing) => message = <<>> /\ userid = <<>>
    /\ spc # "confirmed" => shown = <<>>
    /\ spc = "confirmed" => Shows
    /\ spc = "receive" =>
          \A i \in 1 .. Len(toS) : \/ toS[i].s = "none"
                                   \/ toS[i].s = "confirm_dealloc" /\ i = Len(toS) /\ cpc = "confirm"
    /\ spc = "receive" /\ Writing /\ Plain => LetterSpread
    /\ spc \in {"display", "confirmed"} => toS = <<>> /\ cpc = "confirm"
    /\ spc \in {"display", "confirmed"} /\ Plain => message = given.text /\ userid = Addressee
    /\ spc = "display" => toC = <<>>
    /\ spc = "confirmed" => toC = <<>> \/ (toC = Stat("confirmed") /\ sexit # "running")
    /\ cexit = "success" /\ cpc = "confirm" => spc = "confirmed"

-----------------------------------------------------------------------------
\* What the options and the partner of a command line make of a session, and
\* what a session makes of the conversation.
Selected(This, opts, dest) ==
    /\ This.symbolic <=> tool = "atell" /\ ~Qualified(dest)
    /\ Fits("sym_dest_name", dest) /\ This.symbolic => This.sym_dest_name = dest
    /\ ~This.symbolic => This.destination \in {dest, Unset}
    /\ This.mode_name # "side" /\ This.tp_name # "side"
    /\ Chosen(This.mode_name, opts, "m", "mode_name", "#INTER")
    /\ Chosen(This.tp_name, opts, "t", "tp_name", IF tool = "atell" THEN "ATELLD" ELSE "AREXECD")

\* The session, and then the conversation, are the ones the command line asks for.
Directed(opts, dest) ==
    /\ cpc = "allocate" => Selected(session, opts, dest)
    /\ cpc \notin {"arguments", "allocate"} =>
          /\ Fits("sym_dest_name", dest) \/ Qualified(dest) => target.partner = dest
          /\ target.mode_name = "side" <=> tool = "atell" /\ ~Qualified(dest)
          /\ target.mode_name # "side" => Chosen(target.mode_name, opts, "m", "mode_name", "#INTER")
          /\ target.tp_name # "side" =>
                Chosen(target.tp_name, opts, "t", "tp_name", IF tool = "atell" THEN "ATELLD" ELSE "AREXECD")

\* A session on which nothing is set.
Fresh == session = [symbolic |-> Unset, sym_dest_name |-> Unset, destination |-> Unset,
                    tp_name |-> Unset, mode_name |-> Unset, userid |-> Unset, security_type |-> Unset]

\* The inductive invariant.
ToolsInv ==
    /\ tool \in {"atell", "arexec"} /\ Queues /\ VersionsFirst
    /\ cpc = "arguments" /\ cexit = "running" => Fresh
    /\ tool = "atell" => AtellInv /\ ArexecInit /\ Directed(given.opts, given.dest)
    /\ tool = "arexec" => ArexecInv /\ AtellInit /\ Directed(asked.opts, asked.dest)

\* Every set of naturals that is not empty has a least member.
LEMMA Least ==
    ASSUME NEW T \in SUBSET Nat, T # {}
    PROVE  \E x \in T : \A y \in T : x <= y
  <1> DEFINE R == OpToRel(<, Nat)
  <1>1. IsWellFoundedOn(R, Nat)
    BY NatLessThanWellFounded
  <1>2. \A a, b \in Nat : a < b => <<a, b>> \in R
    BY DEF OpToRel
  <1> HIDE DEF R
  <1>3. PICK x \in T : \A y \in T : ~(<<y, x>> \in R)
    BY <1>1, WFMin
  <1>4. ASSUME NEW y \in T PROVE x <= y
    <2>1. ~(y < x)
      BY <1>2, <1>3
    <2>2. x \in Nat /\ y \in Nat
      OBVIOUS
    <2> QED
      BY <2>1, <2>2
  <1> QED
    BY <1>4

\* Induction, with a set in the place of a predicate.
LEMMA SetInduction ==
    ASSUME NEW S, 0 \in S, \A n \in Nat : n \in S => n + 1 \in S
    PROVE  Nat \subseteq S
  <1> SUFFICES ASSUME Nat \ S # {} PROVE FALSE
    OBVIOUS
  <1>1. PICK x \in Nat \ S : \A y \in Nat \ S : x <= y
    BY Least
  <1>2. x # 0 /\ x - 1 \in Nat
    BY <1>1
  <1>3. x - 1 \in S
    BY <1>1, <1>2
  <1> QED
    BY <1>1, <1>2, <1>3

\* A recursion over an interval, given by a function for each step ...
Solves(f, N, st) == \A i \in 1 .. N : f[i] = st[i][f[i - 1]]

\* ... has a solution.
LEMMA RecursionExists ==
    ASSUME NEW V, NEW b \in V, NEW N \in Nat, NEW st \in [1 .. N -> [V -> V]]
    PROVE  \E f : f \in [0 .. N -> V] /\ f[0] = b /\ Solves(f, N, st)
  <1> DEFINE Upto(g, n) == g[0] = b /\ \A i \in 1 .. N : i <= n => g[i] = st[i][g[i - 1]]
             P == {n \in Nat : \E g \in [0 .. N -> V] : Upto(g, n)}
  <1>1. 0 \in P
    <2>1. [i \in 0 .. N |-> b] \in [0 .. N -> V] /\ Upto([i \in 0 .. N |-> b], 0)
      OBVIOUS
    <2> QED
      BY <2>1
  <1>2. ASSUME NEW n \in Nat, n \in P PROVE n + 1 \in P
    <2>1. PICK g \in [0 .. N -> V] : Upto(g, n)
      BY <1>2
    <2> DEFINE h == [i \in 0 .. N |-> IF i = 0 THEN b ELSE st[i][g[i - 1]]]
    <2>2. h \in [0 .. N -> V]
      <3>1. ASSUME NEW i \in 0 .. N, i # 0 PROVE st[i][g[i - 1]] \in V
        <4>1. i \in 1 .. N /\ i - 1 \in 0 .. N
          BY <3>1
        <4> QED
          BY <4>1
      <3> QED
        BY <3>1
    <2>3. ASSUME NEW i \in 1 .. N, i <= n + 1 PROVE h[i] = st[i][h[i - 1]]
      <3>1. i \in 0 .. N /\ i # 0 /\ i - 1 \in 0 .. N
        OBVIOUS
      <3>2. h[i] = st[i][g[i - 1]]
        BY <3>1
      <3>3. h[i - 1] = g[i - 1]
        <4>1. CASE i - 1 = 0
          BY <2>1, <3>1, <4>1
        <4>2. CASE i - 1 # 0
          <5>1. i - 1 \in 1 .. N /\ i - 1 <= n
            BY <2>3, <4>2
          <5>2. g[i - 1] = st[i - 1][g[(i - 1) - 1]]
            BY <2>1, <5>1
          <5> QED
            BY <3>1, <4>2, <5>2
        <4> QED
          BY <4>1, <4>2
      <3> QED
        BY <3>2, <3>3
    <2>4. h[0] = b
      OBVIOUS
    <2> HIDE DEF h
    <2>5. Upto(h, n + 1)
      BY <2>3, <2>4
    <2> QED
      BY <2>2, <2>5
  <1>3. N \in P
    <2> HIDE DEF P
    <2> QED
      BY <1>1, <1>2, SetInduction
  <1>4. PICK g \in [0 .. N -> V] : Upto(g, N)
    BY <1>3
  <1> QED
    BY <1>4 DEF Solves

\* FlattenSeq puts the sequences one behind the other.
LEMMA FlattenFacts ==
    ASSUME NEW S, NEW ss \in Seq(Seq(S))
    PROVE  \E f \in [0 .. Len(ss) -> Seq(S)] :
              /\ f[0] = <<>> /\ \A i \in 1 .. Len(ss) : f[i] = f[i - 1] \o ss[i]
              /\ FlattenSeq(ss) = f[Len(ss)]
  <1> DEFINE N == Len(ss)
             st == [i \in 1 .. N |-> [v \in Seq(S) |-> v \o ss[i]]]
             fl == CHOOSE g : g = [i \in 1 .. N |-> IF i = 1 THEN ss[i] ELSE g[i - 1] \o ss[i]]
  <1>1. N \in Nat /\ \A i \in 1 .. N : ss[i] \in Seq(S)
    OBVIOUS
  <1>2. st \in [1 .. N -> [Seq(S) -> Seq(S)]]
    <2>1. ASSUME NEW i \in 1 .. N, NEW v \in Seq(S) PROVE v \o ss[i] \in Seq(S)
      BY <1>1, ConcatProperties
    <2> QED
      BY <2>1
  <1>3. <<>> \in Seq(S)
    OBVIOUS
  <1>4. PICK f \in [0 .. N -> Seq(S)] : f[0] = <<>> /\ \A i \in 1 .. N : f[i] = st[i][f[i - 1]]
    <2> HIDE DEF st, N
    <2>1. \E f : f \in [0 .. N -> Seq(S)] /\ f[0] = <<>> /\ Solves(f, N, st)
      BY <1>1, <1>2, <1>3, RecursionExists, Zenon
    <2> QED
      BY <2>1 DEF Solves
  <1>5. \A i \in 1 .. N : f[i - 1] \in Seq(S) /\ f[i] = f[i - 1] \o ss[i]
    <2> SUFFICES ASSUME NEW i \in 1 .. N PROVE f[i - 1] \in Seq(S) /\ f[i] = f[i - 1] \o ss[i]
      OBVIOUS
    <2>1. i - 1 \in 0 .. N
      BY <1>1
    <2> HIDE DEF N
    <2> QED
      BY <1>4, <2>1
  <1>6. N # 0 => f[1] = ss[1]
    <2> SUFFICES ASSUME N # 0 PROVE f[1] = ss[1]
      OBVIOUS
    <2>1. 1 \in 1 .. N /\ 1 - 1 = 0
      BY <1>1
    <2>2. f[1] = <<>> \o ss[1]
      BY <1>4, <1>5, <2>1
    <2>3. ss[1] \in Seq(S)
      BY <1>1, <2>1
    <2> QED
      BY <2>2, <2>3, ConcatEmptySeq
  <1> DEFINE w == [i \in 1 .. N |-> f[i]]
  <1>7. w = [i \in 1 .. N |-> IF i = 1 THEN ss[i] ELSE w[i - 1] \o ss[i]]
    <2> SUFFICES ASSUME NEW i \in 1 .. N PROVE w[i] = IF i = 1 THEN ss[i] ELSE w[i - 1] \o ss[i]
      OBVIOUS
    <2>1. CASE i = 1
      BY <1>6, <2>1
    <2>2. CASE i # 1
      <3>1. i - 1 \in 1 .. N
        BY <1>1, <2>2
      <3> QED
        BY <1>5, <2>2, <3>1
    <2> QED
      BY <2>1, <2>2
  <1> HIDE DEF w
  <1>8. fl = [i \in 1 .. N |-> IF i = 1 THEN ss[i] ELSE fl[i - 1] \o ss[i]]
    BY <1>7
  <1> HIDE DEF fl
  <1>9. \A n \in Nat : n + 1 <= N => fl[n + 1] = f[n + 1]
    <2> DEFINE P == {n \in Nat : n + 1 <= N => fl[n + 1] = f[n + 1]}
    <2>1. 0 \in P
      <3>1. ASSUME 1 <= N PROVE fl[1] = f[1]
        <4>1. 1 \in 1 .. N /\ N # 0
          BY <1>1, <3>1
        <4> HIDE DEF N
        <4> QED
          BY <1>6, <1>8, <4>1
      <3> QED
        BY <3>1
    <2>2. ASSUME NEW n \in Nat, n \in P PROVE n + 1 \in P
      <3> SUFFICES ASSUME (n + 1) + 1 <= N PROVE fl[(n + 1) + 1] = f[(n + 1) + 1]
        OBVIOUS
      <3> DEFINE m == (n + 1) + 1
      <3>1. m \in 1 .. N /\ m # 1 /\ m - 1 = n + 1 /\ n + 1 <= N
        BY <1>1
      <3>2. fl[m - 1] = f[m - 1]
        BY <2>2, <3>1
      <3> HIDE DEF N, m
      <3>3. fl[m] = f[m]
        BY <1>5, <1>8, <3>1, <3>2
      <3> QED
        BY <3>3 DEF m
    <2> HIDE DEF P
    <2>3. Nat \subseteq P
      BY <2>1, <2>2, SetInduction
    <2> QED
      BY <2>3 DEF P
  <1>10. FlattenSeq(ss) = f[N]
    <2>1. CASE N = 0
      <3>1. FlattenSeq(ss) = ss
        BY <2>1 DEF FlattenSeq
      <3>2. ss = <<>>
        BY <2>1, EmptySeq
      <3> QED
        BY <1>4, <2>1, <3>1, <3>2
    <2>2. CASE N # 0
      <3>1. FlattenSeq(ss) = fl[N]
        BY <2>2 DEF FlattenSeq, fl
      <3>2. N - 1 \in Nat /\ (N - 1) + 1 = N /\ N <= N
        BY <1>1, <2>2
      <3>3. fl[(N - 1) + 1] = f[(N - 1) + 1]
        <4> HIDE DEF N
        <4> QED
          BY <1>9, <3>2
      <3> QED
        BY <3>1, <3>2, <3>3
    <2> QED
      BY <2>1, <2>2
  <1> QED
    BY <1>4, <1>5, <1>10


-----------------------------------------------------------------------------
\* The units that the programs add are units.
LEMMA Units ==
    STRING \subseteq Unit /\ "version" \in Unit /\ "error" \in Unit /\ " " \in Unit /\ Nul \in Unit /\ "?" \in Unit
  BY Zenon DEF Unit

\* Sequences over a larger set, and of one element.
LEMMA SeqOfMore ==
    ASSUME NEW S, NEW T, S \subseteq T, NEW w \in Seq(S)
    PROVE  w \in Seq(T)
  OBVIOUS

LEMMA SeqOfOne ==
    ASSUME NEW S, NEW x \in S
    PROVE  <<x>> \in Seq(S)
  OBVIOUS

\* Sequences put together from single elements.
LEMMA TupleOfTwo ==
    ASSUME NEW a, NEW b
    PROVE  <<a>> \o <<b>> = <<a, b>>
  <1> DEFINE S == {a, b}
             x == <<a>> \o <<b>>
             y == <<a, b>>
  <1>1. x \in Seq(S) /\ y \in Seq(S) /\ Len(x) = 2 /\ Len(y) = 2 /\ x[1] = a /\ x[2] = b /\ y[1] = a /\ y[2] = b
    OBVIOUS
  <1> HIDE DEF x, y
  <1>2. \A i \in 1 .. 2 : x[i] = y[i]
    BY <1>1
  <1>3. x = y
    BY <1>1, <1>2, SeqEqual
  <1> QED
    BY <1>3 DEF x, y

\* The same for three.
LEMMA TupleOfThree ==
    ASSUME NEW a, NEW b, NEW c
    PROVE  <<a, b>> \o <<c>> = <<a, b, c>>
  <1> DEFINE S == {a, b, c}
             x == <<a, b>> \o <<c>>
             y == <<a, b, c>>
  <1>1. x \in Seq(S) /\ y \in Seq(S)
    OBVIOUS
  <1>2. Len(x) = 3 /\ Len(y) = 3 /\ x[1] = a /\ x[2] = b /\ y[1] = a /\ y[2] = b /\ x[3] = c /\ y[3] = c
    OBVIOUS
  <1> HIDE DEF x, y
  <1>3. \A i \in 1 .. 3 : x[i] = y[i]
    BY <1>2
  <1>4. x = y
    BY <1>1, <1>2, <1>3, SeqEqual
  <1> QED
    BY <1>4 DEF x, y

\* The command is a sequence of units.
LEMMA CommandTyped ==
    ASSUME NEW given_words \in Commands, NEW dest \in Destinations
    PROVE  CommandOf(Operands(dest, given_words)) \in Seq(Unit)
  <1> DEFINE words == Operands(dest, given_words)
             ss == [i \in DOMAIN words |-> words[i] \o <<" ">>]
  <1>1. words \in Seq(Seq(Unit))
    <2>1. given_words \in Seq(Seq(STRING)) /\ dest \in STRING
      BY ToolsAssumption
    <2>2. ASSUME NEW w \in Seq(STRING) PROVE w \in Seq(Unit)
      BY Units, SeqOfMore, Zenon
    <2>3. given_words \in Seq(Seq(Unit))
      BY <2>1, <2>2
    <2>4. <<dest>> \in Seq(Unit)
      <3>1. <<dest>> \in Seq(STRING)
        BY <2>1, SeqOfOne, Zenon
      <3> QED
        BY <2>2, <3>1
    <2>5. <<<<dest>>>> \in Seq(Seq(Unit))
      BY <2>4, SeqOfOne, Zenon
    <2> QED
      BY <2>3, <2>5, ConcatProperties DEF Operands
  <1> HIDE DEF words
  <1>2. DOMAIN words = 1 .. Len(words) /\ Len(words) \in Nat /\ \A i \in 1 .. Len(words) : words[i] \in Seq(Unit)
    BY <1>1
  <1>3. ASSUME NEW w \in Seq(Unit) PROVE w \o <<" ">> \in Seq(Unit)
    <2>1. <<" ">> \in Seq(Unit)
      BY Units, SeqOfOne, Zenon
    <2> QED
      BY <2>1, ConcatProperties
  <1>4. ss \in [1 .. Len(words) -> Seq(Unit)]
    BY <1>2, <1>3
  <1> HIDE DEF ss
  <1>5. ss \in Seq(Seq(Unit)) /\ Len(ss) \in Nat
    BY <1>2, <1>4
  <1>6. PICK f \in [0 .. Len(ss) -> Seq(Unit)] : FlattenSeq(ss) = f[Len(ss)]
    BY <1>5, FlattenFacts
  <1>7. Len(ss) \in 0 .. Len(ss)
    BY <1>5
  <1>8. FlattenSeq(ss) \in Seq(Unit)
    BY <1>6, <1>7
  <1> QED
    BY <1>8 DEF CommandOf, ss, words

-----------------------------------------------------------------------------
(***************************************************************************)
(* The conversation.                                                       *)
(***************************************************************************)
LEMMA DataTyped ==
    ASSUME NEW r \in Seq(Unit), NEW x \in Status
    PROVE  Data(r) \in Seq(Item) /\ Stat(x) \in Seq(Item)
  BY DEF Data, Stat, Item

\* What cmrcv returns: a part of the first record that is longer than the
\* buffer, a record, or a record with the status that follows it.
LEMMA Received ==
    ASSUME NEW q \in Seq(Item), NEW max \in Nat \ {0}, NEW m \in cmrcv(q, max)
    PROVE  /\ q # <<>> /\ m.d \in Seq(Unit) /\ Len(m.d) <= max /\ m.rest \in Seq(Item)
           /\ \/ /\ Len(q[1].d) > max /\ m.d = SubSeq(q[1].d, 1, max) /\ m.s = "none"
                 /\ m.rest = Data(SubSeq(q[1].d, max + 1, Len(q[1].d))) \o Tail(q)
              \/ Len(q[1].d) <= max /\ m.d = q[1].d /\ m.s = q[1].s /\ m.rest = Tail(q)
              \/ /\ Len(q[1].d) <= max /\ m.d = q[1].d /\ q[1].d # <<>> /\ Len(q) >= 2 /\ q[2].d = <<>>
                 /\ m.s = q[2].s /\ m.rest = Tail(Tail(q))
  <1> DEFINE r == q[1].d
  <1>1. q # <<>>
    BY DEF cmrcv
  <1>2. /\ Head(q) = q[1] /\ q[1] \in Item /\ r \in Seq(Unit) /\ Len(r) \in Nat /\ Len(q) \in Nat /\ Len(q) >= 1
        /\ Tail(q) \in Seq(Item) /\ Len(Tail(q)) = Len(q) - 1
    <2>1. Len(q) \in Nat \ {0}
      BY <1>1, EmptySeq
    <2>2. Tail(q) \in Seq(Item) /\ Len(Tail(q)) = Len(q) - 1 /\ q[1] \in Item
      BY <1>1, <2>1, HeadTailProperties
    <2> QED
      BY <2>1, <2>2 DEF Item
  <1>3. CASE Len(r) > max
    <2>1. m = [d |-> SubSeq(r, 1, max), s |-> "none", rest |-> Data(SubSeq(r, max + 1, Len(r))) \o Tail(q)]
      BY <1>1, <1>2, <1>3 DEF cmrcv
    <2>2. SubSeq(r, 1, max) \in Seq(Unit) /\ Len(SubSeq(r, 1, max)) = max
      <3> HIDE DEF r
      <3> QED
        BY <1>2, <1>3
    <2>3. SubSeq(r, max + 1, Len(r)) \in Seq(Unit)
      <3> HIDE DEF r
      <3>1. \A i \in max + 1 .. Len(r) : i \in 1 .. Len(r)
        BY <1>2
      <3>2. \A i \in max + 1 .. Len(r) : r[i] \in Unit
        BY <1>2, <3>1
      <3> QED
        BY <1>2, <3>2, SubSeqProperties
    <2>4. Data(SubSeq(r, max + 1, Len(r))) \in Seq(Item)
      BY <2>3 DEF Data, Item
    <2>5. Data(SubSeq(r, max + 1, Len(r))) \o Tail(q) \in Seq(Item)
      BY <1>2, <2>4, ConcatProperties
    <2>6. m.d = SubSeq(r, 1, max) /\ m.s = "none" /\ m.rest = Data(SubSeq(r, max + 1, Len(r))) \o Tail(q)
      BY <2>1
    <2>7. Len(m.d) <= max
      BY ONLY <2>2, <2>6, max \in Nat
    <2> QED
      BY <1>1, <1>3, <2>2, <2>5, <2>6, <2>7, Zenon
  <1>4. CASE ~(Len(r) > max)
    <2>1. \/ m = [d |-> r, s |-> q[1].s, rest |-> Tail(q)]
          \/ \E i \in {j \in DOMAIN q : j = 2 /\ r # <<>> /\ q[j].d = <<>>} :
                m = [d |-> r, s |-> q[i].s, rest |-> Tail(Tail(q))]
      BY <1>1, <1>2, <1>4 DEF cmrcv
    <2>2. Len(r) <= max
      BY <1>2, <1>4
    <2>3. CASE m = [d |-> r, s |-> q[1].s, rest |-> Tail(q)]
      BY <1>1, <1>2, <2>2, <2>3
    <2>4. CASE \E i \in {j \in DOMAIN q : j = 2 /\ r # <<>> /\ q[j].d = <<>>} :
                m = [d |-> r, s |-> q[i].s, rest |-> Tail(Tail(q))]
      <3>1. m = [d |-> r, s |-> q[2].s, rest |-> Tail(Tail(q))] /\ 2 \in DOMAIN q /\ r # <<>> /\ q[2].d = <<>>
        BY <2>4
      <3>2. Len(q) >= 2
        BY <1>2, <3>1
      <3>3. Tail(q) # <<>>
        <4>1. ASSUME NEW t, Len(t) = Len(q) - 1 PROVE t # <<>>
          BY <1>2, <3>2, <4>1
        <4> QED
          BY <1>2, <4>1, Zenon
      <3>4. Tail(Tail(q)) \in Seq(Item)
        BY <1>2, <3>3, HeadTailProperties
      <3> QED
        BY <1>1, <1>2, <2>2, <3>1, <3>2, <3>4
    <2> QED
      BY <2>1, <2>3, <2>4
  <1> QED
    BY <1>3, <1>4

\* What can be received of the versions, with room for one unit.
LEMMA VersionReceived ==
    ASSUME NEW m \in cmrcv(Version, 1), m.s = "send"
    PROVE  m.rest = <<>>
  BY DEF cmrcv, Version, Data

-----------------------------------------------------------------------------
(***************************************************************************)
(* The session and its options.                                            *)
(***************************************************************************)
Name == STRING \cup {Unset, "ATELLD", "AREXECD", "#INTER", "program", "none"}

Session == [symbolic : BOOLEAN, sym_dest_name : Name, destination : Name,
            tp_name : Name, mode_name : Name, userid : Name, security_type : Name]

Option == {"m", "t", "u", "p", "n"} \X STRING

\* What one option does.
LEMMA OptionSet ==
    ASSUME NEW This \in Session, NEW opt \in Option
    PROVE  LET That == SetOption(This, opt) IN
           /\ That \in Session
           /\ That.symbolic = This.symbolic /\ That.sym_dest_name = This.sym_dest_name
           /\ That.destination = This.destination
           /\ That.mode_name = IF opt[1] = "m" /\ Fits("mode_name", opt[2]) THEN opt[2] ELSE This.mode_name
           /\ That.tp_name = IF opt[1] = "t" /\ Fits("tp_name", opt[2]) THEN opt[2] ELSE This.tp_name
  <1>1. opt[1] \in {"m", "t", "u", "p", "n"} /\ opt[2] \in STRING
    BY DEF Option
  <1>2. opt[2] \in Name /\ "program" \in Name /\ "none" \in Name
    BY <1>1, Zenon DEF Name
  <1> HIDE DEF Name
  <1>3. CASE opt[1] = "m"
    <2>1. SetOption(This, opt) = cpic_session_set_mode_name(This, opt[2])
      BY <1>3 DEF SetOption
    <2> QED
      BY <1>2, <1>3, <2>1 DEF cpic_session_set_mode_name, Session
  <1>4. CASE opt[1] = "t"
    <2>1. SetOption(This, opt) = cpic_session_set_tp_name(This, opt[2])
      BY <1>4 DEF SetOption
    <2> QED
      BY <1>2, <1>4, <2>1 DEF cpic_session_set_tp_name, Session
  <1>5. CASE opt[1] = "u"
    <2>1. SetOption(This, opt) = cpic_session_set_userid(This, opt[2])
      BY <1>5 DEF SetOption
    <2> QED
      BY <1>2, <1>5, <2>1 DEF cpic_session_set_userid, Session
  <1>6. CASE opt[1] = "p"
    <2>1. SetOption(This, opt) = cpic_session_set_password(This, opt[2])
      BY <1>6 DEF SetOption
    <2> QED
      BY <1>2, <1>6, <2>1 DEF cpic_session_set_password, Session
  <1>7. CASE opt[1] = "n"
    <2>1. SetOption(This, opt) = cpic_session_set_security_type(This, "none")
      BY <1>7 DEF SetOption
    <2> QED
      BY <1>2, <1>7, <2>1 DEF cpic_session_set_security_type, Session
  <1> QED
    BY <1>1, <1>3, <1>4, <1>5, <1>6, <1>7

\* SetOptions takes one option after the other.
LEMMA OptionsSet ==
    ASSUME NEW This \in Session, NEW opts \in Seq(Option)
    PROVE  \E f \in [0 .. Len(opts) -> Session] :
              /\ f[0] = This /\ \A i \in 1 .. Len(opts) : f[i] = SetOption(f[i - 1], opts[i])
              /\ SetOptions(This, opts) = f[Len(opts)]
  <1> DEFINE N == Len(opts)
             st == [i \in 1 .. N |-> [v \in Session |-> SetOption(v, opts[i])]]
             after == CHOOSE g : g = [n \in 0 .. N |-> IF n = 0 THEN This ELSE SetOption(g[n - 1], opts[n])]
  <1>1. N \in Nat /\ \A i \in 1 .. N : opts[i] \in Option
    OBVIOUS
  <1>2. st \in [1 .. N -> [Session -> Session]]
    <2>1. ASSUME NEW i \in 1 .. N, NEW v \in Session PROVE SetOption(v, opts[i]) \in Session
      BY <1>1, OptionSet
    <2> HIDE DEF N
    <2> QED
      BY <2>1
  <1>3. PICK f \in [0 .. N -> Session] : f[0] = This /\ \A i \in 1 .. N : f[i] = st[i][f[i - 1]]
    <2> HIDE DEF st, N
    <2>1. \E f : f \in [0 .. N -> Session] /\ f[0] = This /\ Solves(f, N, st)
      BY <1>1, <1>2, RecursionExists, Zenon
    <2> QED
      BY <2>1 DEF Solves
  <1>4. \A i \in 1 .. N : f[i] = SetOption(f[i - 1], opts[i])
    <2> SUFFICES ASSUME NEW i \in 1 .. N PROVE f[i] = SetOption(f[i - 1], opts[i])
      OBVIOUS
    <2>1. i - 1 \in 0 .. N
      BY <1>1
    <2> HIDE DEF N
    <2> QED
      BY <1>3, <2>1
  <1>5. f = [n \in 0 .. N |-> IF n = 0 THEN This ELSE SetOption(f[n - 1], opts[n])]
    <2> SUFFICES ASSUME NEW n \in 0 .. N PROVE f[n] = IF n = 0 THEN This ELSE SetOption(f[n - 1], opts[n])
      OBVIOUS
    <2>1. n # 0 => n \in 1 .. N
      BY <1>1
    <2> HIDE DEF N
    <2> QED
      BY <1>3, <1>4, <2>1
  <1>6. after = [n \in 0 .. N |-> IF n = 0 THEN This ELSE SetOption(after[n - 1], opts[n])]
    BY <1>5
  <1>7. SetOptions(This, opts) = after[N]
    BY DEF SetOptions
  <1> HIDE DEF after
  <1>8. \A n \in Nat : n <= N => after[n] = f[n]
    <2> DEFINE P == {n \in Nat : n <= N => after[n] = f[n]}
    <2>1. 0 \in P
      <3>1. 0 \in 0 .. N
        BY <1>1
      <3>2. after[0] = This
        BY <1>6, <3>1
      <3> QED
        BY <1>3, <3>2
    <2>2. ASSUME NEW n \in Nat, n \in P PROVE n + 1 \in P
      <3> SUFFICES ASSUME n + 1 <= N PROVE after[n + 1] = f[n + 1]
        OBVIOUS
      <3> DEFINE k == n + 1
      <3>1. k \in 0 .. N /\ k \in 1 .. N /\ k # 0 /\ k - 1 = n /\ n <= N
        BY <1>1
      <3>2. after[k - 1] = f[k - 1]
        BY <2>2, <3>1
      <3> HIDE DEF N, k
      <3>3. after[k] = f[k]
        BY <1>4, <1>6, <3>1, <3>2
      <3> QED
        BY <3>3 DEF k
    <2> HIDE DEF P
    <2>3. Nat \subseteq P
      BY <2>1, <2>2, SetInduction
    <2> QED
      BY <2>3 DEF P
  <1>9. after[N] = f[N]
    <2>1. N <= N
      BY <1>1
    <2> HIDE DEF N
    <2> QED
      BY <1>1, <1>8, <2>1
  <1> QED
    BY <1>3, <1>4, <1>7, <1>9

\* What an option leaves behind is what the last one that fits says.
LEMMA LastCounts ==
    ASSUME NEW opts \in Seq(Option), NEW flag, NEW field, NEW default, NEW v, v[0] = default,
           \A i \in 1 .. Len(opts) :
              v[i] = IF opts[i][1] = flag /\ Fits(field, opts[i][2]) THEN opts[i][2] ELSE v[i - 1]
    PROVE  Chosen(v[Len(opts)], opts, flag, field, default)
  <1> DEFINE N == Len(opts)
             F == Fitting(opts, flag, field)
             Upto(n) == \/ (\A i \in F : i > n) /\ v[n] = default
                        \/ \E i \in F : i <= n /\ (\A j \in F : j <= n => j <= i) /\ v[n] = opts[i][2]
             P == {n \in Nat : n <= N => Upto(n)}
  <1>1. N \in Nat /\ DOMAIN opts = 1 .. N
    OBVIOUS
  <1>2. \A i : i \in F <=> i \in 1 .. N /\ opts[i][1] = flag /\ Fits(field, opts[i][2])
    BY DEF Fitting
  <1>3. \A i \in 1 .. N : v[i] = IF i \in F THEN opts[i][2] ELSE v[i - 1]
    BY <1>2
  <1>4. \A i \in F : i \in 1 .. N
    BY <1>2
  <1> HIDE DEF F, N
  <1>5. 0 \in P
    <2>1. \A i \in F : i > 0
      BY <1>1, <1>4
    <2> QED
      BY <2>1
  <1>6. ASSUME NEW n \in Nat, n \in P PROVE n + 1 \in P
    <2> SUFFICES ASSUME n + 1 <= N PROVE Upto(n + 1)
      OBVIOUS
    <2>1. n + 1 \in 1 .. N /\ (n + 1) - 1 = n /\ Upto(n)
      BY <1>1, <1>6
    <2>2. CASE n + 1 \in F
      <3>1. v[n + 1] = opts[n + 1][2]
        BY <1>3, <2>1, <2>2
      <3>2. n + 1 <= n + 1
        OBVIOUS
      <3> QED
        BY <2>2, <3>1, <3>2
    <2>3. CASE n + 1 \notin F
      <3>1. v[n + 1] = v[n]
        BY <1>3, <2>1, <2>3
      <3>2. \A j \in F : (j > n => j > n + 1) /\ (j <= n + 1 => j <= n) /\ (j <= n => j <= n + 1)
        BY <1>1, <1>4, <2>3
      <3>3. CASE (\A i \in F : i > n) /\ v[n] = default
        BY <3>1, <3>2, <3>3
      <3>4. CASE \E i \in F : i <= n /\ (\A j \in F : j <= n => j <= i) /\ v[n] = opts[i][2]
        <4>1. PICK i \in F : i <= n /\ (\A j \in F : j <= n => j <= i) /\ v[n] = opts[i][2]
          BY <3>4
        <4>2. i <= n + 1 /\ (\A j \in F : j <= n + 1 => j <= i) /\ v[n + 1] = opts[i][2]
          BY <3>1, <3>2, <4>1
        <4> QED
          BY <4>2
      <3> QED
        BY <2>1, <3>3, <3>4
    <2> QED
      BY <2>2, <2>3
  <1>7. Nat \subseteq P
    <2> HIDE DEF P
    <2> QED
      BY <1>5, <1>6, SetInduction
  <1>8. Upto(N)
    <2>1. N <= N
      BY <1>1
    <2> QED
      BY <1>1, <1>7, <2>1
  <1>9. CASE (\A i \in F : i > N) /\ v[N] = default
    <2>1. F = {}
      BY <1>1, <1>4, <1>9
    <2> QED
      BY <1>9, <2>1 DEF Chosen, F, N
  <1>10. CASE \E i \in F : i <= N /\ (\A j \in F : j <= N => j <= i) /\ v[N] = opts[i][2]
    <2>1. PICK i \in F : i <= N /\ (\A j \in F : j <= N => j <= i) /\ v[N] = opts[i][2]
      BY <1>10
    <2>2. \A j \in F : j <= i
      BY <1>1, <1>4, <2>1
    <2>3. \E k \in F : (\A j \in F : j <= k) /\ v[N] = opts[k][2]
      BY <2>1, <2>2
    <2> QED
      BY <2>3, Zenon DEF Chosen, F, N
  <1> QED
    BY <1>8, <1>9, <1>10

\* What all of the options of a command line do.
LEMMA OptionsChosen ==
    ASSUME NEW This \in Session, NEW opts \in Options
    PROVE  LET That == SetOptions(This, opts) IN
           /\ That \in Session
           /\ That.symbolic = This.symbolic /\ That.sym_dest_name = This.sym_dest_name
           /\ That.destination = This.destination
           /\ Chosen(That.mode_name, opts, "m", "mode_name", This.mode_name)
           /\ Chosen(That.tp_name, opts, "t", "tp_name", This.tp_name)
           /\ This.mode_name # "side" => That.mode_name # "side"
           /\ This.tp_name # "side" => That.tp_name # "side"
  <1> DEFINE N == Len(opts)
  <1>1. opts \in Seq(Option) /\ \A i \in DOMAIN opts : opts[i][2] # "side"
    BY ToolsAssumption, Zenon DEF Option
  <1>2. N \in Nat /\ \A i \in 1 .. N : opts[i] \in Option
    BY <1>1
  <1>3. PICK f \in [0 .. N -> Session] :
            /\ f[0] = This /\ \A i \in 1 .. N : f[i] = SetOption(f[i - 1], opts[i])
            /\ SetOptions(This, opts) = f[N]
    BY <1>1, OptionsSet
  <1>4. ASSUME NEW i \in 1 .. N
        PROVE  /\ f[i].symbolic = f[i - 1].symbolic /\ f[i].sym_dest_name = f[i - 1].sym_dest_name
               /\ f[i].destination = f[i - 1].destination
               /\ f[i].mode_name = IF opts[i][1] = "m" /\ Fits("mode_name", opts[i][2]) THEN opts[i][2] ELSE f[i - 1].mode_name
               /\ f[i].tp_name = IF opts[i][1] = "t" /\ Fits("tp_name", opts[i][2]) THEN opts[i][2] ELSE f[i - 1].tp_name
    <2>1. f[i - 1] \in Session
      <3>1. i - 1 \in 0 .. N
        BY <1>2
      <3> HIDE DEF N
      <3> QED
        BY <3>1
    <2>2. f[i] = SetOption(f[i - 1], opts[i]) /\ opts[i] \in Option
      BY <1>2, <1>3
    <2> QED
      BY <2>1, <2>2, OptionSet
  <1> HIDE DEF N
  <1>5. f[N] \in Session
    <2>1. N \in 0 .. N
      BY <1>2
    <2> QED
      BY <2>1
  <1>6. /\ f[N].symbolic = This.symbolic /\ f[N].sym_dest_name = This.sym_dest_name
        /\ f[N].destination = This.destination
    <2> DEFINE Same(n) == /\ f[n].symbolic = This.symbolic /\ f[n].sym_dest_name = This.sym_dest_name
                          /\ f[n].destination = This.destination
               P == {n \in Nat : n <= N => Same(n)}
    <2>1. 0 \in P
      BY <1>3
    <2>2. ASSUME NEW n \in Nat, n \in P PROVE n + 1 \in P
      <3> SUFFICES ASSUME n + 1 <= N PROVE Same(n + 1)
        OBVIOUS
      <3>1. n + 1 \in 1 .. N /\ (n + 1) - 1 = n /\ n <= N
        BY <1>2
      <3>2. Same(n)
        BY <2>2, <3>1
      <3>3. /\ f[n + 1].symbolic = f[(n + 1) - 1].symbolic /\ f[n + 1].sym_dest_name = f[(n + 1) - 1].sym_dest_name
            /\ f[n + 1].destination = f[(n + 1) - 1].destination
        BY <1>4, <3>1, Zenon
      <3> QED
        BY <3>1, <3>2, <3>3
    <2> HIDE DEF P
    <2>3. Nat \subseteq P
      BY <2>1, <2>2, SetInduction
    <2>4. N <= N
      BY <1>2
    <2> QED
      BY <1>2, <2>3, <2>4 DEF P
  <1>7. Chosen(f[N].mode_name, opts, "m", "mode_name", This.mode_name)
    <2> DEFINE v == [n \in 0 .. N |-> f[n].mode_name]
    <2>1. v[0] = This.mode_name /\ v[N] = f[N].mode_name
      BY <1>2, <1>3
    <2>2. \A i \in 1 .. N : v[i] = IF opts[i][1] = "m" /\ Fits("mode_name", opts[i][2]) THEN opts[i][2] ELSE v[i - 1]
      <3>1. ASSUME NEW i \in 1 .. N PROVE v[i] = f[i].mode_name /\ v[i - 1] = f[i - 1].mode_name
        <4>1. i \in 0 .. N /\ i - 1 \in 0 .. N
          BY <1>2
        <4> QED
          BY <4>1
      <3> HIDE DEF v
      <3> QED
        BY <1>4, <3>1
    <2> HIDE DEF v
    <2>3. Chosen(v[N], opts, "m", "mode_name", This.mode_name)
      BY <1>1, <2>1, <2>2, LastCounts DEF N
    <2> QED
      BY <2>1, <2>3
  <1>8. Chosen(f[N].tp_name, opts, "t", "tp_name", This.tp_name)
    <2> DEFINE v == [n \in 0 .. N |-> f[n].tp_name]
    <2>1. v[0] = This.tp_name /\ v[N] = f[N].tp_name
      BY <1>2, <1>3
    <2>2. \A i \in 1 .. N : v[i] = IF opts[i][1] = "t" /\ Fits("tp_name", opts[i][2]) THEN opts[i][2] ELSE v[i - 1]
      <3>1. ASSUME NEW i \in 1 .. N PROVE v[i] = f[i].tp_name /\ v[i - 1] = f[i - 1].tp_name
        <4>1. i \in 0 .. N /\ i - 1 \in 0 .. N
          BY <1>2
        <4> QED
          BY <4>1
      <3> HIDE DEF v
      <3> QED
        BY <1>4, <3>1
    <2> HIDE DEF v
    <2>3. Chosen(v[N], opts, "t", "tp_name", This.tp_name)
      BY <1>1, <2>1, <2>2, LastCounts DEF N
    <2> QED
      BY <2>1, <2>3
  <1>9. ASSUME NEW x, NEW flag, NEW field, NEW default, Chosen(x, opts, flag, field, default), default # "side"
        PROVE  x # "side"
    BY <1>1, <1>9 DEF Chosen, Fitting
  <1> QED
    BY <1>3, <1>5, <1>6, <1>7, <1>8, <1>9

-----------------------------------------------------------------------------
(***************************************************************************)
(* Records that are a part of a text.                                      *)
(***************************************************************************)
\* The record r is the units from a + 1 on of u.
Covers(r, u, a) == a + Len(r) <= Len(u) /\ \A j \in 1 .. Len(r) : u[a + j] = r[j]

\* Runs of an empty queue, and the places where a run begins and ends.
LEMMA RunsNone ==
    ASSUME NEW u \in Seq(Unit), NEW a \in 0 .. Len(u)
    PROVE  Runs(<<>>, u, a, a)
  <1> DEFINE at == [i \in 0 .. 0 |-> a]
  <1>1. at \in [0 .. Len(<<>>) -> 0 .. Len(u)] /\ at[0] = a /\ at[Len(<<>>)] = a
    OBVIOUS
  <1> HIDE DEF at
  <1>2. Len(<<>>) = 0 /\ \A i \in 1 .. 0 : FALSE
    OBVIOUS
  <1> QED
    BY <1>1, <1>2 DEF Runs

LEMMA RunsBounds ==
    ASSUME NEW q \in Seq(Item), NEW u \in Seq(Unit), NEW a, NEW e, Runs(q, u, a, e)
    PROVE  a \in 0 .. Len(u) /\ e \in 0 .. Len(u) /\ (q = <<>> => a = e)
  <1>1. PICK at \in [0 .. Len(q) -> 0 .. Len(u)] : at[0] = a /\ at[Len(q)] = e
    BY DEF Runs
  <1>2. 0 \in 0 .. Len(q) /\ Len(q) \in 0 .. Len(q) /\ Len(<<>>) = 0
    OBVIOUS
  <1> QED
    BY <1>1, <1>2

\* One more record at the end.
LEMMA RunsOn ==
    ASSUME NEW q \in Seq(Item), NEW u \in Seq(Unit), NEW a, NEW e, Runs(q, u, a, e),
           NEW it \in Item, Covers(it.d, u, e)
    PROVE  Runs(q \o <<it>>, u, a, e + Len(it.d))
  <1> DEFINE N == Len(q)
             r == it.d
             p == q \o <<it>>
  <1>1. N \in Nat /\ r \in Seq(Unit) /\ Len(r) \in Nat /\ Len(u) \in Nat /\ e \in 0 .. Len(u)
    <2>1. e \in 0 .. Len(u)
      BY RunsBounds, Zenon
    <2> QED
      BY <2>1 DEF Item
  <1>2. Len(p) = N + 1 /\ p[N + 1] = it /\ \A i \in 1 .. N : p[i] = q[i]
    OBVIOUS
  <1>3. PICK at \in [0 .. N -> 0 .. Len(u)] :
            /\ at[0] = a /\ at[N] = e
            /\ \A i \in 1 .. N : /\ at[i] = at[i - 1] + Len(q[i].d)
                                 /\ \A j \in 1 .. Len(q[i].d) : u[at[i - 1] + j] = q[i].d[j]
    BY DEF Runs
  <1> DEFINE to == [i \in 0 .. N + 1 |-> IF i = N + 1 THEN e + Len(r) ELSE at[i]]
  <1>4. e + Len(r) \in 0 .. Len(u)
    BY <1>1 DEF Covers
  <1> HIDE DEF N, r, p
  <1>5. to \in [0 .. N + 1 -> 0 .. Len(u)]
    BY <1>1, <1>4
  <1>6. to[0] = a /\ to[N + 1] = e + Len(r)
    BY <1>1, <1>3
  <1>7. \A i \in 0 .. N : to[i] = at[i]
    BY <1>1
  <1> HIDE DEF to
  <1>8. ASSUME NEW i \in 1 .. N + 1
        PROVE  to[i] = to[i - 1] + Len(p[i].d) /\ \A j \in 1 .. Len(p[i].d) : u[to[i - 1] + j] = p[i].d[j]
    <2>1. CASE i = N + 1
      <3>1. to[i] = e + Len(r) /\ to[i - 1] = e /\ p[i].d = r
        BY <1>1, <1>2, <1>3, <1>6, <1>7, <2>1 DEF r
      <3>2. \A j \in 1 .. Len(r) : u[e + j] = r[j]
        BY DEF Covers, r
      <3> QED
        BY <3>1, <3>2
    <2>2. CASE i # N + 1
      <3>1. i \in 1 .. N /\ i \in 0 .. N /\ i - 1 \in 0 .. N
        BY <1>1, <2>2
      <3>2. to[i] = at[i] /\ to[i - 1] = at[i - 1] /\ p[i] = q[i]
        BY <1>2, <1>7, <3>1
      <3> QED
        BY <1>3, <3>1, <3>2
    <2> QED
      BY <2>1, <2>2
  <1>9. Runs(p, u, a, e + Len(r))
    <2>1. to \in [0 .. Len(p) -> 0 .. Len(u)] /\ to[0] = a /\ to[Len(p)] = e + Len(r)
      BY <1>2, <1>5, <1>6, Zenon
    <2>2. \A i \in 1 .. Len(p) :
             to[i] = to[i - 1] + Len(p[i].d) /\ \A j \in 1 .. Len(p[i].d) : u[to[i - 1] + j] = p[i].d[j]
      BY <1>2, <1>8, Zenon
    <2> QED
      BY <2>1, <2>2, Zenon DEF Runs
  <1> QED
    BY <1>9 DEF p, r

\* Without the first record.
LEMMA RunsOff ==
    ASSUME NEW q \in Seq(Item), NEW u \in Seq(Unit), NEW a, NEW e, Runs(q, u, a, e), q # <<>>
    PROVE  Covers(q[1].d, u, a) /\ Runs(Tail(q), u, a + Len(q[1].d), e)
  <1> DEFINE N == Len(q)
             r == q[1].d
             p == Tail(q)
  <1>1. N \in Nat /\ N >= 1 /\ q[1] \in Item /\ Len(u) \in Nat /\ a \in 0 .. Len(u)
    BY RunsBounds, EmptySeq
  <1>2. r \in Seq(Unit) /\ Len(r) \in Nat
    BY <1>1 DEF Item
  <1>3. Len(p) = N - 1 /\ \A i \in 1 .. N - 1 : p[i] = q[i + 1]
    BY <1>1
  <1>4. PICK at \in [0 .. N -> 0 .. Len(u)] :
            /\ at[0] = a /\ at[N] = e
            /\ \A i \in 1 .. N : /\ at[i] = at[i - 1] + Len(q[i].d)
                                 /\ \A j \in 1 .. Len(q[i].d) : u[at[i - 1] + j] = q[i].d[j]
    BY DEF Runs
  <1>5. at[1] = a + Len(r) /\ (\A j \in 1 .. Len(r) : u[a + j] = r[j]) /\ at[1] \in 0 .. Len(u)
    <2>1. 1 \in 1 .. N /\ 1 \in 0 .. N /\ 1 - 1 = 0
      BY <1>1
    <2> HIDE DEF N
    <2> QED
      BY <1>4, <2>1
  <1>6. Covers(r, u, a)
    BY <1>1, <1>2, <1>5 DEF Covers
  <1> DEFINE to == [i \in 0 .. N - 1 |-> at[i + 1]]
  <1> HIDE DEF N, r, p
  <1>7. to \in [0 .. N - 1 -> 0 .. Len(u)]
    <2>1. ASSUME NEW i \in 0 .. N - 1 PROVE at[i + 1] \in 0 .. Len(u)
      <3>1. i + 1 \in 0 .. N
        BY <1>1
      <3> QED
        BY <3>1
    <2> QED
      BY <2>1
  <1>8. to[0] = a + Len(r) /\ to[N - 1] = e
    <2>1. 0 \in 0 .. N - 1 /\ N - 1 \in 0 .. N - 1 /\ 0 + 1 = 1 /\ (N - 1) + 1 = N
      BY <1>1
    <2> QED
      BY <1>4, <1>5, <2>1
  <1>9. ASSUME NEW i \in 1 .. N - 1
        PROVE  to[i] = to[i - 1] + Len(p[i].d) /\ \A j \in 1 .. Len(p[i].d) : u[to[i - 1] + j] = p[i].d[j]
    <2>1. i \in 0 .. N - 1 /\ i - 1 \in 0 .. N - 1 /\ i + 1 \in 1 .. N /\ (i - 1) + 1 = i /\ (i + 1) - 1 = i
      BY <1>1
    <2>2. to[i] = at[i + 1] /\ to[i - 1] = at[i] /\ p[i] = q[i + 1]
      BY <1>3, <2>1
    <2> HIDE DEF to
    <2>3. at[i + 1] = at[i] + Len(q[i + 1].d) /\ \A j \in 1 .. Len(q[i + 1].d) : u[at[i] + j] = q[i + 1].d[j]
      BY <1>4, <2>1
    <2> QED
      BY <2>2, <2>3
  <1> HIDE DEF to
  <1>10. Runs(p, u, a + Len(r), e)
    <2>1. to \in [0 .. Len(p) -> 0 .. Len(u)] /\ to[0] = a + Len(r) /\ to[Len(p)] = e
      BY <1>3, <1>7, <1>8, Zenon
    <2>2. \A i \in 1 .. Len(p) :
             to[i] = to[i - 1] + Len(p[i].d) /\ \A j \in 1 .. Len(p[i].d) : u[to[i - 1] + j] = p[i].d[j]
      BY <1>3, <1>9, Zenon
    <2> QED
      BY <2>1, <2>2, Zenon DEF Runs
  <1> QED
    BY <1>6, <1>10 DEF p, r

\* One more record in front.
LEMMA RunsBefore ==
    ASSUME NEW q \in Seq(Item), NEW u \in Seq(Unit), NEW a \in Nat, NEW e, NEW it \in Item,
           Covers(it.d, u, a), Runs(q, u, a + Len(it.d), e)
    PROVE  Runs(<<it>> \o q, u, a, e)
  <1> DEFINE N == Len(q)
             r == it.d
             p == <<it>> \o q
  <1>1. N \in Nat /\ Len(u) \in Nat /\ r \in Seq(Unit) /\ Len(r) \in Nat
    BY DEF Item
  <1>2. Len(p) = N + 1 /\ p[1] = it /\ \A i \in 2 .. N + 1 : p[i] = q[i - 1]
    OBVIOUS
  <1>3. PICK at \in [0 .. N -> 0 .. Len(u)] :
            /\ at[0] = a + Len(r) /\ at[N] = e
            /\ \A i \in 1 .. N : /\ at[i] = at[i - 1] + Len(q[i].d)
                                 /\ \A j \in 1 .. Len(q[i].d) : u[at[i - 1] + j] = q[i].d[j]
    BY DEF Runs
  <1> DEFINE to == [i \in 0 .. N + 1 |-> IF i = 0 THEN a ELSE at[i - 1]]
  <1> HIDE DEF N, r, p
  <1>4. a \in 0 .. Len(u)
    BY <1>1 DEF Covers, r
  <1>5. \A i \in 1 .. N + 1 : i \in 0 .. N + 1 /\ i # 0 /\ i - 1 \in 0 .. N
    BY <1>1
  <1>6. to \in [0 .. N + 1 -> 0 .. Len(u)]
    <2>1. ASSUME NEW i \in 0 .. N + 1, i # 0 PROVE at[i - 1] \in 0 .. Len(u)
      <3>1. i - 1 \in 0 .. N
        BY <1>1, <2>1
      <3> QED
        BY <3>1
    <2> QED
      BY <1>4, <2>1
  <1>7. to[0] = a /\ to[N + 1] = e
    <2>1. 0 \in 0 .. N + 1 /\ N + 1 \in 0 .. N + 1 /\ N + 1 # 0 /\ (N + 1) - 1 = N
      BY <1>1
    <2> QED
      BY <1>3, <2>1
  <1>8. \A i \in 1 .. N + 1 : to[i] = at[i - 1]
    BY <1>5
  <1> HIDE DEF to
  <1>9. ASSUME NEW i \in 1 .. N + 1
        PROVE  to[i] = to[i - 1] + Len(p[i].d) /\ \A j \in 1 .. Len(p[i].d) : u[to[i - 1] + j] = p[i].d[j]
    <2>1. CASE i = 1
      <3>1. to[i] = a + Len(r) /\ to[i - 1] = a /\ p[i].d = r
        BY <1>1, <1>2, <1>3, <1>7, <1>8, <2>1 DEF r
      <3>2. \A j \in 1 .. Len(r) : u[a + j] = r[j]
        BY DEF Covers, r
      <3> QED
        BY <3>1, <3>2
    <2>2. CASE i # 1
      <3>1. i \in 2 .. N + 1 /\ i - 1 \in 1 .. N /\ i - 1 \in 1 .. N + 1
        BY <1>1, <2>2
      <3> DEFINE k == i - 1
      <3>2. to[i] = at[k] /\ to[k] = at[k - 1] /\ p[i] = q[k]
        BY <1>2, <1>8, <3>1
      <3>3. k \in 1 .. N
        BY <3>1
      <3> HIDE DEF k
      <3>4. at[k] = at[k - 1] + Len(q[k].d) /\ \A j \in 1 .. Len(q[k].d) : u[at[k - 1] + j] = q[k].d[j]
        BY <1>3, <3>3
      <3>5. to[i] = to[k] + Len(p[i].d) /\ \A j \in 1 .. Len(p[i].d) : u[to[k] + j] = p[i].d[j]
        BY <3>2, <3>4
      <3> QED
        BY <3>5 DEF k
    <2> QED
      BY <2>1, <2>2
  <1>10. Runs(p, u, a, e)
    <2>1. to \in [0 .. Len(p) -> 0 .. Len(u)] /\ to[0] = a /\ to[Len(p)] = e
      BY <1>2, <1>6, <1>7, Zenon
    <2>2. \A i \in 1 .. Len(p) :
             to[i] = to[i - 1] + Len(p[i].d) /\ \A j \in 1 .. Len(p[i].d) : u[to[i - 1] + j] = p[i].d[j]
      BY <1>2, <1>9, Zenon
    <2> QED
      BY <2>1, <2>2, Zenon DEF Runs
  <1> QED
    BY <1>10 DEF p

-----------------------------------------------------------------------------
(***************************************************************************)
(* Texts and messages.                                                     *)
(***************************************************************************)
LEMMA CStringFacts ==
    ASSUME NEW b \in Seq(Unit)
    PROVE  \/ CString(b) = 0 /\ \A i \in 1 .. Len(b) : b[i] # Nul
           \/ CString(b) \in 1 .. Len(b) /\ b[CString(b)] = Nul /\ \A i \in 1 .. CString(b) - 1 : b[i] # Nul
  <1> DEFINE I == {i \in 1 .. Len(b) : b[i] = Nul}
  <1>1. CString(b) = IF I # {} THEN Min(I) ELSE 0
    BY DEF CString, SelectInSeq
  <1>2. CASE I = {}
    BY <1>1, <1>2
  <1>3. CASE I # {}
    <2>1. I \in SUBSET Nat
      OBVIOUS
    <2>2. \E x \in I : \A y \in I : x <= y
      <3> HIDE DEF I
      <3> QED
        BY <1>3, <2>1, Least
    <2>3. Min(I) \in I /\ \A y \in I : Min(I) <= y
      <3> HIDE DEF I
      <3> QED
        BY <2>2 DEF Min
    <2>4. CString(b) \in 1 .. Len(b) /\ b[CString(b)] = Nul
      BY <1>1, <1>3, <2>3
    <2>5. ASSUME NEW i \in 1 .. CString(b) - 1 PROVE b[i] # Nul
      <3>1. i \in 1 .. Len(b) /\ ~(CString(b) <= i)
        BY <2>4
      <3> QED
        BY <1>1, <1>3, <2>3, <3>1
    <2> QED
      BY <2>4, <2>5
  <1> QED
    BY <1>2, <1>3

\* Text cuts a buffer at its first Nul.
LEMMA TextTyped ==
    ASSUME NEW b \in Seq(Unit)
    PROVE  Text(b) \in Seq(Unit) /\ Len(Text(b)) \in Nat /\ Len(Text(b)) <= Len(b)
  <1>1. CASE CString(b) = 0
    BY <1>1 DEF Text
  <1>2. CASE CString(b) # 0
    <2> DEFINE n == CString(b) - 1
    <2>1. n \in Nat /\ n <= Len(b)
      BY <1>2, CStringFacts
    <2>2. Text(b) = SubSeq(b, 1, n)
      BY <1>2 DEF Text
    <2> HIDE DEF n
    <2>3. SubSeq(b, 1, n) \in Seq(Unit) /\ Len(SubSeq(b, 1, n)) = n
      BY <2>1
    <2> QED
      BY <2>1, <2>2, <2>3
  <1> QED
    BY <1>1, <1>2

\* A text without Nul is its own text, with or without one behind it.
LEMMA TextOfString ==
    ASSUME NEW t \in Seq(Unit), \A i \in DOMAIN t : t[i] # Nul
    PROVE  Text(t) = t /\ Text(t \o <<Nul>>) = t /\ t \o <<Nul>> \in Seq(Unit) /\ Len(t \o <<Nul>>) = Len(t) + 1
  <1>1. DOMAIN t = 1 .. Len(t) /\ Len(t) \in Nat
    OBVIOUS
  <1>2. Text(t) = t
    <2>1. CString(t) = 0
      BY <1>1, CStringFacts
    <2> QED
      BY <2>1 DEF Text
  <1> DEFINE b == t \o <<Nul>>
  <1>3. b \in Seq(Unit) /\ Len(b) = Len(t) + 1 /\ b[Len(t) + 1] = Nul /\ \A i \in 1 .. Len(t) : b[i] = t[i]
    <2>1. Nul \in Unit
      BY Units, Zenon
    <2> QED
      BY <2>1
  <1>4. Text(b) = t
    <2> HIDE DEF b
    <2>1. CString(b) # 0
      BY <1>1, <1>3, CStringFacts
    <2>2. CString(b) = Len(t) + 1
      <3>1. CString(b) \in 1 .. Len(b) /\ b[CString(b)] = Nul
        BY <1>3, <2>1, CStringFacts
      <3>2. CString(b) \notin 1 .. Len(t)
        BY <1>1, <1>3, <3>1
      <3> QED
        BY <1>1, <1>3, <3>1, <3>2
    <2>3. Text(b) = SubSeq(b, 1, Len(t))
      BY <1>1, <2>1, <2>2 DEF Text
    <2>4. SubSeq(b, 1, Len(t)) \in Seq(Unit) /\ Len(SubSeq(b, 1, Len(t))) = Len(t)
          /\ \A i \in 1 .. Len(t) : SubSeq(b, 1, Len(t))[i] = b[i]
      BY <1>1, <1>3
    <2>5. SubSeq(b, 1, Len(t)) = t
      BY <1>1, <1>3, <2>4, SeqEqual
    <2> QED
      BY <2>3, <2>5
  <1> QED
    BY <1>2, <1>3, <1>4

\* The texts and users of a command line are C strings.
LEMMA TextsTyped ==
    ASSUME NEW t \in Texts \cup Users \cup {Environ}
    PROVE  t \in Seq(Unit) /\ \A i \in DOMAIN t : t[i] # Nul
  <1>1. t \in Seq(STRING) /\ \A i \in DOMAIN t : t[i] # Nul
    BY ToolsAssumption, Zenon
  <1>2. t \in Seq(Unit)
    BY <1>1, Units, SeqOfMore, Zenon
  <1> QED
    BY <1>1, <1>2

\* What main copies of a message; whole when it fits.
LEMMA MessageTyped ==
    ASSUME NEW t \in Seq(Unit), NEW beyond \in Unit
    PROVE  /\ MessageOf(t, beyond) \in Seq(Unit)
           /\ Len(t) + 1 < MessageSize => MessageOf(t, beyond) = t \o <<Nul>>
  <1>1. Nul \in Unit
    BY Units, Zenon
  <1>2. CASE Len(t) + 1 < MessageSize
    BY <1>1, <1>2 DEF MessageOf
  <1>3. CASE ~(Len(t) + 1 < MessageSize)
    <2> DEFINE N == Len(t) + 1
    <2>1. N \in Nat /\ MessageSize <= N /\ PointerSize \in Nat /\ PointerSize < MessageSize /\ MessageSize \in Nat
      BY <1>3, AtellAssumption
    <2>2. ASSUME NEW i \in 1 .. N
          PROVE  (IF i <= PointerSize THEN t[i] ELSE IF i <= MessageSize THEN Nul ELSE beyond) \in Unit
      <3>1. i <= PointerSize => i \in 1 .. Len(t)
        BY <2>1
      <3>2. i \in 1 .. Len(t) => t[i] \in Unit
        OBVIOUS
      <3> QED
        BY <1>1, <3>1, <3>2, Zenon
    <2>3. MessageOf(t, beyond) =
            [i \in 1 .. N |-> IF i <= PointerSize THEN t[i] ELSE IF i <= MessageSize THEN Nul ELSE beyond]
      BY <1>3 DEF MessageOf
    <2> HIDE DEF N
    <2>4. [i \in 1 .. N |-> IF i <= PointerSize THEN t[i] ELSE IF i <= MessageSize THEN Nul ELSE beyond] \in [1 .. N -> Unit]
      BY <2>2
    <2>5. ASSUME NEW f \in [1 .. N -> Unit] PROVE f \in Seq(Unit)
      BY <2>1
    <2> QED
      BY <1>3, <2>3, <2>4, <2>5
  <1> QED
    BY <1>2, <1>3

\* A command line without options leaves the message as it is.
LEMMA NoOptionsNoWords ==
    ASSUME NEW text
    PROVE  ArgvMessage(<<>>, text) = text
  <1>1. {i \in DOMAIN <<>> : <<>>[i][1] # "n"} = {}
    OBVIOUS
  <1>2. WordsOf(<<>>) = 1
    BY <1>1, FS_EmptySet DEF WordsOf
  <1> QED
    BY <1>2 DEF ArgvMessage

-----------------------------------------------------------------------------
(***************************************************************************)
(* The first state, and steps that change little.                          *)
(***************************************************************************)
LEMMA ToolsInitInv == ToolsInit => ToolsInv
  <1> SUFFICES ASSUME ToolsInit PROVE ToolsInv
    OBVIOUS
  <1> USE DEF ToolsInit, SessionInit
  <1>0. /\ toS = <<>> /\ toC = <<>> /\ outage = FALSE /\ spc = "accept" /\ cpc = "arguments"
        /\ cexit = "running" /\ sexit = "running"
        /\ command = <<>> /\ executed = <<>> /\ printed = <<>>
        /\ given.opts = <<>> /\ given.user = <<>> /\ given.text = <<>>
        /\ send_buf = <<>> /\ dest_userid = <<>> /\ message = <<>> /\ userid = <<>> /\ shown = <<>>
    <2>1. ASSUME NEW x, given = [opts |-> <<>>, user |-> <<>>, dest |-> x, text |-> <<>>]
          PROVE  given.opts = <<>> /\ given.user = <<>> /\ given.text = <<>>
      BY ONLY <2>1
    <2> QED
      BY <2>1, Zenon DEF AtellInit, ArexecInit
  <1>1. tool \in {"atell", "arexec"} /\ Queues /\ VersionsFirst
    <2>1. tool \in {"atell", "arexec"}
      OBVIOUS
    <2>2. outage \in BOOLEAN
      BY <1>0, Zenon
    <2>3. toS \in Seq(Item) /\ toC \in Seq(Item)
      BY ONLY <1>0
    <2>4. Queues
      BY ONLY <1>0, <2>2, <2>3 DEF Queues
    <2>5. VersionsFirst
      BY ONLY <1>0 DEF VersionsFirst
    <2> QED
      BY <2>1, <2>4, <2>5
  <1>2. Fresh
    BY DEF Fresh
  <1>3. CommandKept
    BY ONLY <1>0, ArexecAssumption DEF CommandKept
  <1>4. ArexecInv
    BY ONLY <1>0, <1>3 DEF ArexecInv
  <1>5. MessageKept
    BY ONLY <1>0, AtellAssumption DEF MessageKept, Plain
  <1>6. AtellInv
    BY ONLY <1>0, <1>5 DEF AtellInv, Writing
  <1>7. \A opts, dest : Directed(opts, dest)
    BY ONLY <1>0 DEF Directed
  <1> QED
    BY <1>1, <1>2, <1>4, <1>6, <1>7, Zenon DEF ToolsInv

\* The loss of the conversation, and a stuttering step.
LEMMA OutagePreserves ==
    ASSUME ToolsInv, Outage, UNCHANGED <<atellVars, arexecVars, tool>>
    PROVE  ToolsInv'
  <1> USE DEF Outage, atellVars, arexecVars
  <1>1. Queues' /\ VersionsFirst'
    BY DEF ToolsInv, Queues, VersionsFirst, Broken
  <1>2. (cpc = "arguments" /\ cexit = "running" => Fresh)'
    BY DEF ToolsInv, Fresh
  <1>3. ASSUME tool = "arexec" PROVE ArexecInv'
    <2>1. CommandKept'
      BY <1>3 DEF ToolsInv, ArexecInv, CommandKept
    <2>2. spc = "send" => OutputSpread'
      BY <1>3 DEF ToolsInv, ArexecInv, OutputSpread, Broken
    <2> QED
      BY <1>3, <2>1, <2>2 DEF ToolsInv, ArexecInv
  <1>4. ASSUME tool = "atell" PROVE AtellInv'
    <2>1. MessageKept'
      BY <1>4 DEF ToolsInv, AtellInv, MessageKept, Plain
    <2>2. Letter' = Letter /\ Posted' = Posted /\ Plain' = Plain /\ Addressee' = Addressee /\ Writing' = Writing
      BY DEF Letter, Posted, Plain, Addressee, Writing, UseridSupported
    <2>3. LetterSpread => LetterSpread'
      BY <2>2 DEF LetterSpread, Broken
    <2>4. Shows' = Shows
      BY DEF Shows
    <2> QED
      BY <1>4, <2>1, <2>2, <2>3, <2>4 DEF ToolsInv, AtellInv
  <1>5. \A opts, dest : Directed(opts, dest) => Directed(opts, dest)'
    BY DEF Directed, Selected
  <1> QED
    BY <1>1, <1>2, <1>3, <1>4, <1>5 DEF ToolsInv, AtellInit, ArexecInit

LEMMA StutterPreserves ==
    ASSUME ToolsInv, UNCHANGED toolsVars
    PROVE  ToolsInv'
  <1> USE DEF toolsVars, convVars, atellVars, arexecVars
  <1>1. Queues' /\ VersionsFirst'
    BY DEF ToolsInv, Queues, VersionsFirst, Broken
  <1>2. (cpc = "arguments" /\ cexit = "running" => Fresh)'
    BY DEF ToolsInv, Fresh
  <1>3. ASSUME tool = "arexec" PROVE ArexecInv'
    <2>1. CommandKept'
      BY <1>3 DEF ToolsInv, ArexecInv, CommandKept
    <2>2. spc = "send" => OutputSpread'
      BY <1>3 DEF ToolsInv, ArexecInv, OutputSpread, Broken
    <2> QED
      BY <1>3, <2>1, <2>2 DEF ToolsInv, ArexecInv
  <1>4. ASSUME tool = "atell" PROVE AtellInv'
    <2>1. MessageKept'
      BY <1>4 DEF ToolsInv, AtellInv, MessageKept, Plain
    <2>2. Letter' = Letter /\ Posted' = Posted /\ Plain' = Plain /\ Addressee' = Addressee /\ Writing' = Writing
      BY DEF Letter, Posted, Plain, Addressee, Writing, UseridSupported
    <2>3. LetterSpread => LetterSpread'
      BY <2>2 DEF LetterSpread, Broken
    <2>4. Shows' = Shows
      BY DEF Shows
    <2> QED
      BY <1>4, <2>1, <2>2, <2>3, <2>4 DEF ToolsInv, AtellInv
  <1>5. \A opts, dest : Directed(opts, dest) => Directed(opts, dest)'
    BY DEF Directed, Selected
  <1> QED
    BY <1>1, <1>2, <1>3, <1>4, <1>5 DEF ToolsInv, AtellInit, ArexecInit

-----------------------------------------------------------------------------
(***************************************************************************)
(* The command line.                                                       *)
(***************************************************************************)
\* What main sets before it looks at the command line.
Preset(This, tp, mode, sym) ==
    cpic_session_set_symbolic_name(cpic_session_set_mode_name(cpic_session_set_tp_name(This, tp), mode), sym)

\* What main sets before it reads the options.
LEMMA Defaults ==
    ASSUME Fresh, NEW tp \in Name, NEW mode \in Name, NEW sym \in Name,
           Fits("tp_name", tp), Fits("mode_name", mode)
    PROVE  /\ Preset(session, tp, mode, sym) \in Session
           /\ Preset(session, tp, mode, sym).tp_name = tp /\ Preset(session, tp, mode, sym).mode_name = mode
           /\ Preset(session, tp, mode, sym).destination = Unset
  <1> DEFINE s1 == cpic_session_set_tp_name(session, tp)
             s2 == cpic_session_set_mode_name(s1, mode)
             s3 == cpic_session_set_symbolic_name(s2, sym)
  <1>0. Unset \in Name
    BY Zenon DEF Name
  <1>1. s1 = [symbolic |-> Unset, sym_dest_name |-> Unset, destination |-> Unset,
              tp_name |-> tp, mode_name |-> Unset, userid |-> Unset, security_type |-> Unset]
    BY DEF Fresh, cpic_session_set_tp_name
  <1>2. s2 = [symbolic |-> Unset, sym_dest_name |-> Unset, destination |-> Unset,
              tp_name |-> tp, mode_name |-> mode, userid |-> Unset, security_type |-> Unset]
    <2> HIDE DEF s1
    <2> QED
      BY <1>1 DEF cpic_session_set_mode_name
  <1>3. s3 = [s2 EXCEPT !.symbolic = TRUE, !.sym_dest_name = IF Fits("sym_dest_name", sym) THEN sym ELSE @]
    BY DEF cpic_session_set_symbolic_name
  <1> HIDE DEF s2, s3
  <1>4. s3 \in Session
    BY <1>0, <1>2, <1>3 DEF Session
  <1>5. s3.tp_name = tp /\ s3.mode_name = mode /\ s3.destination = Unset
    BY <1>2, <1>3
  <1> QED
    BY <1>4, <1>5 DEF Preset, s3, s2, s1

\* The names that main uses.
LEMMA SomeNames ==
    /\ "ATELLD" \in Name /\ "AREXECD" \in Name /\ "#INTER" \in Name
    /\ "#INTER" # "side" /\ "ATELLD" # "side" /\ "AREXECD" # "side"
  <1>1. /\ "ATELLD" \in Name /\ "AREXECD" \in Name /\ "#INTER" \in Name
    BY Zenon DEF Name
  <1>2. "#INTER" # "side" /\ "ATELLD" # "side" /\ "AREXECD" # "side"
    BY Zenon
  <1> QED
    BY <1>1, <1>2, Zenon

\* What the partner of the command line makes of the session.
LEMMA AtellSession ==
    ASSUME Fresh, tool = "atell", NEW opts \in Options, NEW dest, NEW c \in BOOLEAN
    PROVE  LET defaults == cpic_session_set_symbolic_name(
                             cpic_session_set_mode_name(
                               cpic_session_set_tp_name(session, "ATELLD"), "#INTER"), "ATELLD")
               chosen   == SetOptions(defaults, opts)
           IN  Selected(SetPartner(IF c THEN cpic_session_set_userid(chosen, "user") ELSE chosen, dest), opts, dest)
  <1> DEFINE defaults == cpic_session_set_symbolic_name(
                             cpic_session_set_mode_name(
                               cpic_session_set_tp_name(session, "ATELLD"), "#INTER"), "ATELLD")
             chosen == SetOptions(defaults, opts)
             named == IF c THEN cpic_session_set_userid(chosen, "user") ELSE chosen
             This == SetPartner(named, dest)
  <1>0. Fits("tp_name", "ATELLD") /\ Fits("mode_name", "#INTER")
    BY ToolsAssumption, Zenon
  <1>1. defaults \in Session /\ defaults.tp_name = "ATELLD" /\ defaults.mode_name = "#INTER" /\ defaults.destination = Unset
    <2> DEFINE pre == Preset(session, "ATELLD", "#INTER", "ATELLD")
    <2>1. pre \in Session /\ pre.tp_name = "ATELLD" /\ pre.mode_name = "#INTER" /\ pre.destination = Unset
      BY <1>0, SomeNames, Defaults
    <2>2. defaults = pre
      BY DEF Preset
    <2> HIDE DEF defaults, pre
    <2> QED
      BY <2>1, <2>2, Zenon
  <1> HIDE DEF defaults
  <1>2. /\ chosen \in Session /\ chosen.destination = Unset
        /\ Chosen(chosen.mode_name, opts, "m", "mode_name", "#INTER") /\ chosen.mode_name # "side"
        /\ Chosen(chosen.tp_name, opts, "t", "tp_name", "ATELLD") /\ chosen.tp_name # "side"
    BY <1>1, SomeNames, OptionsChosen, Zenon
  <1> HIDE DEF chosen
  <1>4. /\ DOMAIN named = DOMAIN chosen /\ named.destination = Unset /\ named.mode_name = chosen.mode_name
        /\ named.tp_name = chosen.tp_name
    BY <1>2 DEF cpic_session_set_userid, Session
  <1>5. DOMAIN named = {"symbolic", "sym_dest_name", "destination", "tp_name", "mode_name", "userid", "security_type"}
        /\ named = [k \in DOMAIN named |-> named[k]]
    BY <1>2 DEF cpic_session_set_userid, Session
  <1> HIDE DEF named
  <1>6. CASE Qualified(dest)
    <2>1. This = [named EXCEPT !.symbolic = FALSE, !.destination = IF Fits("destination", dest) THEN dest ELSE @]
      BY <1>6 DEF SetPartner, cpic_session_set_destination
    <2> HIDE DEF This
    <2>2. /\ This.symbolic = FALSE /\ This.destination \in {dest, Unset} /\ This.mode_name = chosen.mode_name
          /\ This.tp_name = chosen.tp_name
      BY <1>4, <1>5, <2>1
    <2> QED
      BY <1>2, <1>6, <2>2, Zenon DEF Selected, This, named, chosen, defaults
  <1>7. CASE ~Qualified(dest)
    <2>1. This = [named EXCEPT !.symbolic = TRUE, !.sym_dest_name = IF Fits("sym_dest_name", dest) THEN dest ELSE @]
      BY <1>7 DEF SetPartner, cpic_session_set_symbolic_name
    <2> HIDE DEF This
    <2>2. /\ This.symbolic = TRUE /\ (Fits("sym_dest_name", dest) => This.sym_dest_name = dest)
          /\ This.mode_name = chosen.mode_name /\ This.tp_name = chosen.tp_name
      BY <1>4, <1>5, <2>1
    <2> QED
      BY <1>2, <1>7, <2>2, Zenon DEF Selected, This, named, chosen, defaults
  <1> QED
    BY <1>6, <1>7

\* The session of arexec is the one that its command line selects.
LEMMA ArexecSession ==
    ASSUME Fresh, tool = "arexec", NEW opts \in Options, NEW dest
    PROVE  LET defaults == cpic_session_set_symbolic_name(
                             cpic_session_set_mode_name(
                               cpic_session_set_tp_name(session, "AREXECD"), "#INTER"), "AREXECD")
           IN  Selected(cpic_session_set_destination(SetOptions(defaults, opts), dest), opts, dest)
  <1> DEFINE defaults == cpic_session_set_symbolic_name(
                             cpic_session_set_mode_name(
                               cpic_session_set_tp_name(session, "AREXECD"), "#INTER"), "AREXECD")
             chosen == SetOptions(defaults, opts)
             This == cpic_session_set_destination(chosen, dest)
  <1>0. Fits("tp_name", "AREXECD") /\ Fits("mode_name", "#INTER")
    BY ToolsAssumption, Zenon
  <1>1. defaults \in Session /\ defaults.tp_name = "AREXECD" /\ defaults.mode_name = "#INTER" /\ defaults.destination = Unset
    <2> DEFINE pre == Preset(session, "AREXECD", "#INTER", "AREXECD")
    <2>1. pre \in Session /\ pre.tp_name = "AREXECD" /\ pre.mode_name = "#INTER" /\ pre.destination = Unset
      BY <1>0, SomeNames, Defaults
    <2>2. defaults = pre
      BY DEF Preset
    <2> HIDE DEF defaults, pre
    <2> QED
      BY <2>1, <2>2, Zenon
  <1> HIDE DEF defaults
  <1>2. /\ chosen \in Session /\ chosen.destination = Unset
        /\ Chosen(chosen.mode_name, opts, "m", "mode_name", "#INTER") /\ chosen.mode_name # "side"
        /\ Chosen(chosen.tp_name, opts, "t", "tp_name", "AREXECD") /\ chosen.tp_name # "side"
    BY <1>1, SomeNames, OptionsChosen, Zenon
  <1> HIDE DEF chosen
  <1>3. This = [chosen EXCEPT !.symbolic = FALSE, !.destination = IF Fits("destination", dest) THEN dest ELSE @]
    BY DEF cpic_session_set_destination
  <1> HIDE DEF This
  <1>4. /\ This.symbolic = FALSE /\ This.destination \in {dest, Unset} /\ This.mode_name = chosen.mode_name
        /\ This.tp_name = chosen.tp_name
    BY <1>2, <1>3 DEF Session
  <1>5. tool # "atell"
    OBVIOUS
  <1> QED
    BY <1>2, <1>4, <1>5, Zenon DEF Selected, This, chosen, defaults

\* Each action that reads a command line preserves the invariant.
LEMMA AtellArgumentsPreserves ==
    ASSUME ToolsInv, tool = "atell", NEW o \in Options, NEW at \in BOOLEAN, NEW u \in Users, NEW d \in Destinations,
           NEW t \in Texts, NEW b \in {Nul, "?"}, AtellArguments(o, at, u, d, t, b), UNCHANGED <<arexecVars, tool>>
    PROVE  ToolsInv'
  <1>1. /\ cpc = "arguments" /\ cexit = "running" /\ Fresh /\ spc = "accept" /\ toS = <<>> /\ toC = <<>>
        /\ Queues /\ AtellInv /\ ArexecInit
    BY DEF ToolsInv, AtellArguments, ClientAt, VersionsFirst
  <1>2. /\ given' = [opts |-> o, user |-> u, dest |-> d, text |-> t]
        /\ dest_userid' = IF Len(u) < UseridSize THEN u ELSE <<>>
        /\ UNCHANGED <<target, tp_version, spc, sexit, toS, toC, outage, message, userid, shown>>
    BY DEF AtellArguments, convVars
  <1>3. /\ given'.opts = o /\ given'.user = u /\ given'.dest = d /\ given'.text = t
    BY <1>2
  <1>4. \/ cpc' = cpc /\ cexit' = "crashed" /\ send_buf' = send_buf
        \/ /\ cpc' = "allocate" /\ cexit' = cexit /\ send_buf' = MessageOf(ArgvMessage(o, t), b)
           /\ ArgvMessage(o, t) # Unset
    BY DEF AtellArguments, ClientExits
  <1>5. Selected(session', o, d)
    <2> DEFINE c == Len(u) < UseridSize /\ at
    <2>1. c \in BOOLEAN
      OBVIOUS
    <2>2. session' = SetPartner(IF c THEN cpic_session_set_userid(SetOptions(cpic_session_set_symbolic_name(
                         cpic_session_set_mode_name(
                           cpic_session_set_tp_name(session, "ATELLD"), "#INTER"), "ATELLD"), o), "user")
                     ELSE SetOptions(cpic_session_set_symbolic_name(
                         cpic_session_set_mode_name(
                           cpic_session_set_tp_name(session, "ATELLD"), "#INTER"), "ATELLD"), o), d)
      BY Zenon DEF AtellArguments
    <2> HIDE DEF c
    <2>3. Selected(SetPartner(IF c THEN cpic_session_set_userid(SetOptions(cpic_session_set_symbolic_name(
                         cpic_session_set_mode_name(
                           cpic_session_set_tp_name(session, "ATELLD"), "#INTER"), "ATELLD"), o), "user")
                     ELSE SetOptions(cpic_session_set_symbolic_name(
                         cpic_session_set_mode_name(
                           cpic_session_set_tp_name(session, "ATELLD"), "#INTER"), "ATELLD"), o), d), o, d)
      BY <1>1, <2>1, AtellSession
    <2> QED
      BY <2>2, <2>3, Zenon
  <1>6. /\ u \in Seq(Unit) /\ \A i \in DOMAIN u : u[i] # Nul
        /\ t \in Seq(Unit) /\ \A i \in DOMAIN t : t[i] # Nul
        /\ Environ \in Seq(Unit)
    BY TextsTyped, Zenon
  <1>7. b \in Unit
    BY Units, Zenon
  <1>8. send_buf' \in Seq(Unit)
    <2>1. CASE send_buf' = send_buf
      BY <1>1, <2>1 DEF AtellInv, MessageKept
    <2>2. CASE send_buf' = MessageOf(ArgvMessage(o, t), b) /\ ArgvMessage(o, t) # Unset
      <3>1. ArgvMessage(o, t) \in {t, Environ}
        BY <2>2 DEF ArgvMessage
      <3>2. ArgvMessage(o, t) \in Seq(Unit)
        BY <1>6, <3>1, Zenon
      <3> QED
        BY <1>7, <2>2, <3>2, MessageTyped, Zenon
    <2> QED
      BY <1>4, <2>1, <2>2
  <1>9. dest_userid' \in Seq(Unit)
    BY <1>2, <1>6
  <1>10. ASSUME cpc' # "arguments", Plain'
         PROVE  send_buf' = t \o <<Nul>> /\ dest_userid' = u
    <2>1. o = <<>> /\ Len(t) + 1 < MessageSize /\ Len(u) < UseridSize
      BY <1>3, <1>10, Zenon DEF Plain
    <2>2. send_buf' = MessageOf(t, b)
      BY <1>1, <1>4, <1>10, <2>1, NoOptionsNoWords
    <2>3. send_buf' = t \o <<Nul>>
      BY <1>6, <1>7, <2>1, <2>2, MessageTyped, Zenon
    <2> QED
      BY <1>2, <2>1, <2>3
  <1>11. MessageKept'
    <2>1. /\ message' \in Seq(Unit) /\ Len(message') <= MessageSize
          /\ userid' \in Seq(Unit) /\ Len(userid') < UseridSize
      BY <1>1, <1>2 DEF AtellInv, MessageKept
    <2> QED
      BY <1>3, <1>6, <1>8, <1>9, <1>10, <2>1, Zenon DEF MessageKept
  <1>12. AtellInv'
    <2>1. message = <<>> /\ userid = <<>> /\ shown = <<>>
      BY <1>1 DEF AtellInv
    <2>2. cpc' \in {"arguments", "allocate"} /\ spc' = "accept" /\ message' = <<>> /\ userid' = <<>> /\ shown' = <<>>
      BY <1>1, <1>2, <1>4, <2>1
    <2> QED
      BY <1>11, <2>2 DEF AtellInv
  <1>13. Queues' /\ VersionsFirst'
    BY <1>1, <1>2, <1>4 DEF Queues, VersionsFirst
  <1>14. tool' = tool /\ ArexecInit'
    BY <1>1 DEF ArexecInit, arexecVars
  <1>15. Directed(o, d)'
    <2>1. Selected(session, o, d)'
      BY <1>5, <1>14 DEF Selected
    <2>2. cpc' \in {"arguments", "allocate"}
      BY <1>1, <1>4
    <2> QED
      BY <2>1, <2>2 DEF Directed
  <1>16. ~(cpc' = "arguments" /\ cexit' = "running")
    BY <1>4
  <1>17. Directed(given.opts, given.dest)'
    BY <1>3, <1>15 DEF Directed, Selected
  <1> QED
    BY <1>12, <1>13, <1>14, <1>16, <1>17 DEF ToolsInv

LEMMA AtellUsagePreserves ==
    ASSUME ToolsInv, tool = "atell", NEW x \in {"success", "failure"}, AtellUsage(x), UNCHANGED <<arexecVars, tool>>
    PROVE  ToolsInv'
  <1> USE DEF AtellUsage, ClientExits, ClientAt, atellVars, arexecVars, convVars
  <1>1. /\ cpc = "arguments" /\ cexit = "running" /\ Fresh /\ spc = "accept" /\ toS = <<>> /\ toC = <<>>
        /\ Queues /\ AtellInv /\ ArexecInit
    BY DEF ToolsInv, VersionsFirst
  <1>2. /\ cpc' = cpc /\ cexit' = x
        /\ UNCHANGED <<spc, sexit, toS, toC, outage, message, userid, shown, given, send_buf, dest_userid, tool>>
    OBVIOUS
  <1>3. MessageKept'
    BY <1>1, <1>2 DEF AtellInv, MessageKept, Plain
  <1>4. AtellInv'
    <2>1. message = <<>> /\ userid = <<>> /\ shown = <<>>
      BY <1>1 DEF AtellInv
    <2> QED
      BY <1>1, <1>2, <1>3, <2>1 DEF AtellInv
  <1>5. Queues' /\ VersionsFirst'
    BY <1>1, <1>2 DEF Queues, VersionsFirst
  <1>6. \A opts, dest : Directed(opts, dest)'
    BY <1>1, <1>2 DEF Directed
  <1>7. ArexecInit'
    BY <1>1 DEF ArexecInit
  <1> QED
    BY <1>1, <1>2, <1>4, <1>5, <1>6, <1>7 DEF ToolsInv

LEMMA ArexecArgumentsPreserves ==
    ASSUME ToolsInv, tool = "arexec", NEW o \in Options, NEW d \in Destinations, NEW w \in Commands,
           ArexecArguments(o, d, w), UNCHANGED <<atellVars, tool>>
    PROVE  ToolsInv'
  <1>1. /\ cpc = "arguments" /\ cexit = "running" /\ Fresh /\ spc = "accept" /\ toS = <<>> /\ toC = <<>>
        /\ Queues /\ ArexecInv /\ AtellInit
    BY DEF ToolsInv, ArexecArguments, ClientAt, VersionsFirst
  <1>2. /\ asked' = [opts |-> o, dest |-> d, words |-> w]
        /\ UNCHANGED <<target, tp_version, spc, sexit, toS, toC, outage, executed, server_turn, output, produced, printed>>
    BY DEF ArexecArguments, convVars
  <1>3. asked'.opts = o /\ asked'.dest = d /\ asked'.words = w
    BY <1>2
  <1>4. \/ cpc' = cpc /\ cexit' = "failure" /\ command' = command
        \/ cpc' = "allocate" /\ cexit' = cexit /\ command' = CommandOf(Operands(d, w)) /\ FitsCommand(Operands(d, w))
    BY DEF ArexecArguments, ClientExits
  <1>5. Selected(session', o, d)
    <2>1. session' = cpic_session_set_destination(SetOptions(cpic_session_set_symbolic_name(
                         cpic_session_set_mode_name(
                           cpic_session_set_tp_name(session, "AREXECD"), "#INTER"), "AREXECD"), o), d)
      BY Zenon DEF ArexecArguments
    <2>2. Selected(cpic_session_set_destination(SetOptions(cpic_session_set_symbolic_name(
                         cpic_session_set_mode_name(
                           cpic_session_set_tp_name(session, "AREXECD"), "#INTER"), "AREXECD"), o), d), o, d)
      BY <1>1, ArexecSession
    <2> QED
      BY <2>1, <2>2, Zenon
  <1>6. CommandKept'
    <2>1. CommandOf(Operands(d, w)) \in Seq(Unit)
      BY CommandTyped
    <2>2. command \in Seq(Unit) /\ Len(command) < CommandSize
      BY <1>1 DEF ArexecInv, CommandKept
    <2>3. command' \in Seq(Unit) /\ Len(command') < CommandSize
      BY <1>4, <2>1, <2>2, Zenon DEF FitsCommand
    <2>4. cpc' # "arguments" => command' = CommandOf(Operands(asked'.dest, asked'.words))
      BY <1>1, <1>3, <1>4
    <2> QED
      BY <2>3, <2>4 DEF CommandKept, CommandOf, Operands
  <1>7. ArexecInv'
    BY <1>1, <1>2, <1>4, <1>6 DEF ArexecInv
  <1>8. Queues' /\ VersionsFirst'
    BY <1>1, <1>2, <1>4 DEF Queues, VersionsFirst
  <1>9. tool' = tool /\ AtellInit'
    BY <1>1 DEF AtellInit, atellVars
  <1>10. Directed(o, d)'
    <2>1. Selected(session, o, d)'
      BY <1>5, <1>9 DEF Selected
    <2>2. cpc' \in {"arguments", "allocate"}
      BY <1>1, <1>4
    <2> QED
      BY <2>1, <2>2 DEF Directed
  <1>11. ~(cpc' = "arguments" /\ cexit' = "running")
    BY <1>4
  <1>12. Directed(asked.opts, asked.dest)'
    BY <1>3, <1>10 DEF Directed, Selected
  <1> QED
    BY <1>7, <1>8, <1>9, <1>11, <1>12 DEF ToolsInv

LEMMA ArexecUsagePreserves ==
    ASSUME ToolsInv, tool = "arexec", NEW x \in {"success", "failure"}, ArexecUsage(x), UNCHANGED <<atellVars, tool>>
    PROVE  ToolsInv'
  <1> USE DEF ArexecUsage, ClientExits, ClientAt, atellVars, arexecVars, convVars
  <1>1. /\ cpc = "arguments" /\ cexit = "running" /\ Fresh /\ spc = "accept" /\ toS = <<>> /\ toC = <<>>
        /\ Queues /\ ArexecInv /\ AtellInit
    BY DEF ToolsInv, VersionsFirst
  <1>2. /\ cpc' = cpc /\ cexit' = x
        /\ UNCHANGED <<spc, sexit, toS, toC, outage, asked, command, executed, server_turn, output, produced, printed, tool>>
    OBVIOUS
  <1>3. ArexecInv'
    BY <1>1, <1>2 DEF ArexecInv, CommandKept
  <1>4. Queues' /\ VersionsFirst'
    BY <1>1, <1>2 DEF Queues, VersionsFirst
  <1>5. \A opts, dest : Directed(opts, dest)'
    BY <1>1, <1>2 DEF Directed
  <1>6. AtellInit'
    BY <1>1 DEF AtellInit
  <1> QED
    BY <1>1, <1>2, <1>3, <1>4, <1>5, <1>6 DEF ToolsInv

-----------------------------------------------------------------------------
(***************************************************************************)
(* The letter.                                                             *)
(***************************************************************************)
FirstPart == [d |-> given.text \o <<Nul>>, s |-> "none"]
SecondPart == [d |-> Addressee, s |-> "none"]
LastPart == [d |-> <<>>, s |-> "confirm_dealloc"]

\* The parts of the letter.
LEMMA LetterFacts ==
    ASSUME MessageKept
    PROVE  /\ FirstPart \in Item /\ SecondPart \in Item /\ LastPart \in Item /\ Letter \in Seq(Item)
           /\ Addressee \in Seq(Unit)
           /\ Addressee = <<>> => Letter = <<FirstPart, LastPart>>
           /\ Addressee # <<>> => Letter = <<FirstPart, SecondPart, LastPart>>
  <1>1. given.text \o <<Nul>> \in Seq(Unit)
    BY TextOfString DEF MessageKept
  <1>2. Addressee \in Seq(Unit)
    BY DEF MessageKept, Addressee
  <1> DEFINE x == given.text \o <<Nul>>
  <1> HIDE DEF x
  <1>3. ASSUME NEW D1 \in Seq(Unit), NEW D2 \in Seq(Unit)
        PROVE  /\ [d |-> D1, s |-> "none"] \in Item /\ LastPart \in Item
               /\ Data(D1) \o <<>> \o Stat("confirm_dealloc") = <<[d |-> D1, s |-> "none"], LastPart>>
               /\ Data(D1) \o Data(D2) \o Stat("confirm_dealloc") = <<[d |-> D1, s |-> "none"], [d |-> D2, s |-> "none"], LastPart>>
    <2>1. [d |-> D1, s |-> "none"] \in Item
      BY DEF Item
    <2>2. LastPart \in Item
      BY DEF Item, LastPart, Status
    <2>3. ASSUME NEW a, NEW b, NEW c
          PROVE  <<a>> \o <<>> \o <<c>> = <<a, c>> /\ <<a>> \o <<b>> \o <<c>> = <<a, b, c>>
      <3>1. <<a>> \o <<>> = <<a>>
        OBVIOUS
      <3> QED
        BY <3>1, TupleOfTwo, TupleOfThree, Zenon
    <2> QED
      BY <2>1, <2>2, <2>3, Zenon DEF Data, Stat, LastPart
  <1>4. FirstPart \in Item /\ SecondPart \in Item /\ LastPart \in Item
    BY <1>1, <1>2, <1>3 DEF FirstPart, SecondPart
  <1>5. Addressee = <<>> => Letter = <<FirstPart, LastPart>>
    BY <1>1, <1>2, <1>3, Zenon DEF Letter, FirstPart
  <1>6. Addressee # <<>> => Letter = <<FirstPart, SecondPart, LastPart>>
    BY <1>1, <1>2, <1>3, Zenon DEF Letter, FirstPart, SecondPart
  <1>7. Letter \in Seq(Item)
    <2>1. ASSUME NEW a \in Item, NEW b \in Item, NEW c \in Item PROVE <<a, b, c>> \in Seq(Item) /\ <<a, c>> \in Seq(Item)
      OBVIOUS
    <2> QED
      BY <1>4, <1>5, <1>6, <2>1, Zenon
  <1> QED
    BY <1>2, <1>4, <1>5, <1>6, <1>7

\* The letter has two parts, or three.
LEMMA LetterParts ==
    ASSUME MessageKept
    PROVE  /\ Len(Letter) = IF Addressee = <<>> THEN 2 ELSE 3
           /\ Letter[1] = FirstPart /\ Letter[Len(Letter)] = LastPart
           /\ Addressee # <<>> => Letter[2] = SecondPart
           /\ Writing => Posted \in 0 .. Len(Letter)
  <1>1. ASSUME NEW a, NEW b, NEW c
        PROVE  /\ Len(<<a, c>>) = 2 /\ Len(<<a, b, c>>) = 3 /\ <<a, c>>[1] = a /\ <<a, b, c>>[1] = a
               /\ <<a, b, c>>[2] = b /\ <<a, c>>[2] = c /\ <<a, b, c>>[3] = c
    OBVIOUS
  <1>2. CASE Addressee = <<>>
    <2>1. Letter = <<FirstPart, LastPart>>
      BY <1>2, LetterFacts
    <2>2. Len(Letter) = 2 /\ Letter[1] = FirstPart /\ Letter[2] = LastPart
      BY <1>1, <2>1, Zenon
    <2> HIDE DEF Letter
    <2> QED
      BY <1>2, <2>2 DEF Writing, Posted
  <1>3. CASE Addressee # <<>>
    <2>1. Letter = <<FirstPart, SecondPart, LastPart>>
      BY <1>3, LetterFacts
    <2>2. Len(Letter) = 3 /\ Letter[1] = FirstPart /\ Letter[2] = SecondPart /\ Letter[3] = LastPart
      BY <1>1, <2>1, Zenon
    <2> QED
      BY <1>3, <2>2 DEF Writing, Posted
  <1> QED
    BY <1>2, <1>3

\* Nothing of it is read and nothing on the way.
LEMMA LetterUnread ==
    MessageKept /\ Writing /\ toS = <<>> /\ message = <<>> /\ userid = <<>> /\ (Broken \/ cpc = "message") => LetterSpread
  <1> SUFFICES ASSUME MessageKept, Writing, toS = <<>>, message = <<>>, userid = <<>>, Broken \/ cpc = "message"
               PROVE  LetterSpread
    OBVIOUS
  <1>1. Letter \in Seq(Item) /\ Len(Letter) \in Nat /\ Len(Letter) >= 2 /\ Posted \in 0 .. Len(Letter)
    <2>1. Letter \in Seq(Item) /\ Len(Letter) \in {2, 3} /\ Posted \in 0 .. Len(Letter)
      BY LetterFacts, LetterParts, Zenon
    <2> QED
      BY <2>1
  <1>2. cpc = "message" => Posted = 0
    BY DEF Posted
  <1>3. ASSUME NEW q \in Seq(Item) PROVE SubSeq(q, 1, 0) = <<>>
    OBVIOUS
  <1>4. toS = SubSeq(Letter, 0 + 1, 0)
    <2>1. 0 + 1 = 1
      OBVIOUS
    <2> QED
      BY <1>1, <1>3, <2>1, Zenon
  <1>5. 0 \in 0 .. Posted /\ 0 <= 0 /\ 0 < Len(Letter) /\ 0 < 2
    BY <1>1
  <1> QED
    BY <1>2, <1>4, <1>5, Zenon DEF LetterSpread

-----------------------------------------------------------------------------
(***************************************************************************)
(* The steps that both programs have.                                      *)
(***************************************************************************)
\* Nothing of the programs' own state changes.
Idling == UNCHANGED <<atellVars, arexecVars, tool>>

\* What cmsend of the version and cmptr put on the conversation.
LEMMA VersionIs == Data(<<"version">>) \o Stat("send") = Version /\ Version \in Seq(Item) /\ Version # <<>>
  <1>1. Data(<<"version">>) \o Stat("send") = Version
    BY TupleOfTwo, Zenon DEF Data, Stat, Version
  <1>2. <<"version">> \in Seq(Unit) /\ <<>> \in Seq(Unit)
    <2>1. <<"version">> \in Seq(Unit)
      BY Units, SeqOfOne, Zenon
    <2> QED
      BY <2>1
  <1>3. Version \in Seq(Item)
    BY <1>2 DEF Version, Item, Status
  <1>4. Version # <<>>
    BY DEF Version
  <1> QED
    BY <1>1, <1>3, <1>4

\* The actions of the client and of the server up to the exchange of
\* versions preserve the invariant.
LEMMA AllocatesPreserves ==
    ASSUME ToolsInv, Allocates, Idling
    PROVE  ToolsInv'
  <1> USE DEF Idling
  <1>1. /\ cpc = "allocate" /\ cexit = "running" /\ spc = "accept" /\ toS = <<>> /\ toC = <<>>
        /\ Queues /\ tool \in {"atell", "arexec"}
        /\ UNCHANGED <<session, tp_version, spc, sexit, toS, toC, outage>>
        /\ target' = cpic_session_init(session)
    BY DEF ToolsInv, Allocates, ClientAt, VersionsFirst, convVars
  <1>2. \/ cpc' = "version" /\ cexit' = cexit /\ target'.partner # Unset
        \/ cpc' = cpc /\ cexit' = "failure"
    BY DEF Allocates, ClientExits
  <1>3. Queues' /\ VersionsFirst' /\ tool' = tool /\ cpc' # "arguments"
    BY <1>1, <1>2 DEF Queues, VersionsFirst
  <1>4. ASSUME tool = "atell" PROVE AtellInv' /\ ArexecInit'
    <2>1. AtellInv /\ ArexecInit
      BY <1>4 DEF ToolsInv
    <2>2. MessageKept'
      BY <1>1, <1>2, <2>1 DEF AtellInv, MessageKept, Plain, atellVars
    <2>3. ArexecInit'
      BY <2>1 DEF ArexecInit, arexecVars
    <2> QED
      BY <1>1, <1>2, <2>1, <2>2, <2>3 DEF AtellInv, atellVars
  <1>5. ASSUME tool = "arexec" PROVE ArexecInv' /\ AtellInit'
    <2>1. ArexecInv /\ AtellInit
      BY <1>5 DEF ToolsInv
    <2>2. CommandKept'
      BY <1>1, <1>2, <2>1 DEF ArexecInv, CommandKept, arexecVars
    <2>3. AtellInit'
      BY <2>1 DEF AtellInit, atellVars
    <2> QED
      BY <1>1, <1>2, <2>1, <2>2, <2>3 DEF ArexecInv, arexecVars
  <1>6. ASSUME NEW opts, NEW dest, Directed(opts, dest) PROVE Directed(opts, dest)'
    <2>1. Selected(session, opts, dest) /\ Selected(session, opts, dest)'
      BY <1>1, <1>6 DEF Directed, Selected
    <2>2. CASE cpc' = cpc
      BY <1>1, <2>1, <2>2 DEF Directed
    <2>3. CASE cpc' = "version" /\ target'.partner # Unset
      <3>1. CASE session.symbolic
        <4>1. target' = [partner |-> session.sym_dest_name, tp_name |-> "side", mode_name |-> "side"]
          BY <1>1, <3>1 DEF cpic_session_init
        <4> QED
          BY <1>3, <2>1, <2>3, <3>1, <4>1 DEF Directed, Selected
      <3>2. CASE ~session.symbolic
        <4>1. target' = [partner |-> session.destination, tp_name |-> session.tp_name, mode_name |-> session.mode_name]
          BY <1>1, <3>2 DEF cpic_session_init
        <4> QED
          BY <1>3, <2>1, <2>3, <3>2, <4>1 DEF Directed, Selected
      <3> QED
        BY <3>1, <3>2
    <2> QED
      BY <1>2, <2>2, <2>3
  <1>7. /\ tool = "atell" => Directed(given.opts, given.dest)'
        /\ tool = "arexec" => Directed(asked.opts, asked.dest)'
    <2>1. given' = given /\ asked' = asked
      BY DEF atellVars, arexecVars
    <2> QED
      BY <1>6, <2>1 DEF ToolsInv
  <1> QED
    BY <1>1, <1>3, <1>4, <1>5, <1>7 DEF ToolsInv

\* Where the conversation is not changed but by the versions, and the command line not at all.
LEMMA DirectedStays ==
    ASSUME ToolsInv, UNCHANGED <<session, target, tool, given, asked>>, cpc' # "arguments",
           cpc \notin {"arguments", "allocate"} \/ cpc' = cpc, cpc' = "allocate" => cpc = "allocate"
    PROVE  /\ tool = "atell" => Directed(given.opts, given.dest)'
           /\ tool = "arexec" => Directed(asked.opts, asked.dest)'
  <1>1. ASSUME NEW opts, NEW dest, Directed(opts, dest) PROVE Directed(opts, dest)'
    BY <1>1 DEF Directed, Selected
  <1> QED
    BY <1>1 DEF ToolsInv

LEMMA SendsVersionPreserves ==
    ASSUME ToolsInv, SendsVersion, Idling
    PROVE  ToolsInv'
  <1> USE DEF Idling
  <1>1. /\ cpc = "version" /\ cexit = "running" /\ spc = "accept" /\ toS = <<>> /\ toC = <<>>
        /\ Queues /\ tool \in {"atell", "arexec"} /\ cpc' = "version_wait"
        /\ UNCHANGED <<session, target, tp_version, cexit, spc, sexit, toC, outage>>
        /\ toS' = Sent(toS, Data(<<"version">>) \o Stat("send"))
    BY DEF ToolsInv, SendsVersion, ClientAt, VersionsFirst, ClientLeaves
  <1>2. toS' \in {<<>>, Version}
    <2>1. toS' \in {<<>>, <<>> \o Version}
      BY <1>1, VersionIs DEF Sent
    <2>2. <<>> \o Version = Version
      BY VersionIs, ConcatEmptySeq
    <2> QED
      BY <2>1, <2>2, Zenon
  <1>3. Queues' /\ VersionsFirst' /\ tool' = tool /\ cpc' # "arguments"
    <2>1. toS' \in Seq(Item)
      <3>1. <<>> \in Seq(Item)
        OBVIOUS
      <3> QED
        BY <1>2, <3>1, VersionIs, Zenon
    <2> QED
      BY <1>1, <1>2, <2>1 DEF Queues, VersionsFirst
  <1>4. ASSUME tool = "atell" PROVE AtellInv' /\ ArexecInit'
    <2>1. AtellInv /\ ArexecInit
      BY <1>4 DEF ToolsInv
    <2>2. MessageKept'
      BY <1>1, <2>1 DEF AtellInv, MessageKept, Plain, atellVars
    <2>3. ArexecInit'
      BY <2>1 DEF ArexecInit, arexecVars
    <2> QED
      BY <1>1, <2>1, <2>2, <2>3 DEF AtellInv, atellVars
  <1>5. ASSUME tool = "arexec" PROVE ArexecInv' /\ AtellInit'
    <2>1. ArexecInv /\ AtellInit
      BY <1>5 DEF ToolsInv
    <2>2. CommandKept'
      BY <1>1, <2>1 DEF ArexecInv, CommandKept, arexecVars
    <2>3. AtellInit'
      BY <2>1 DEF AtellInit, atellVars
    <2> QED
      BY <1>1, <2>1, <2>2, <2>3 DEF ArexecInv, arexecVars
  <1>6. /\ tool = "atell" => Directed(given.opts, given.dest)'
        /\ tool = "arexec" => Directed(asked.opts, asked.dest)'
    BY <1>1, DirectedStays DEF atellVars, arexecVars
  <1> QED
    BY <1>1, <1>3, <1>4, <1>5, <1>6 DEF ToolsInv

LEMMA ReceivesVersionPreserves ==
    ASSUME ToolsInv, Idling, NEW next, ReceivesVersion(next), next = IF tool = "atell" THEN "message" ELSE "command"
    PROVE  ToolsInv'
  <1> USE DEF Idling
  <1>1. /\ cpc = "version_wait" /\ cexit = "running" /\ spc \in {"accept", "version", "receive"}
        /\ Queues /\ tool \in {"atell", "arexec"} /\ cpc' = next
        /\ UNCHANGED <<session, target, cexit, spc, sexit, toS, outage>>
        /\ spc = "receive" => toS = <<>>
    BY DEF ToolsInv, ReceivesVersion, ClientAt, VersionsFirst, AtellInv, ArexecInv
  <1>2. toC' = <<>> /\ (Broken \/ spc = "receive")
    <2>1. CASE Broken /\ toC' = <<>>
      BY <2>1
    <2>2. CASE \E m \in cmrcv(toC, 1) : m.s = "send" /\ toC' = m.rest
      <3>1. PICK m \in cmrcv(toC, 1) : m.s = "send" /\ toC' = m.rest
        BY <2>2
      <3>2. toC # <<>>
        BY DEF cmrcv
      <3>3. toC = Version /\ spc = "receive"
        BY <1>1, <3>2 DEF ToolsInv, VersionsFirst
      <3> QED
        BY <3>1, <3>3, VersionReceived
    <2> QED
      BY <2>1, <2>2 DEF ReceivesVersion
  <1>3. Queues' /\ VersionsFirst' /\ tool' = tool /\ cpc' # "arguments"
    <2>1. Broken' = Broken /\ cpc' \in {"message", "command"} /\ toC' \in Seq(Item)
      BY <1>1, <1>2 DEF Broken
    <2> QED
      BY <1>1, <1>2, <2>1 DEF Queues, VersionsFirst, ToolsInv
  <1>4. ASSUME tool = "atell" PROVE AtellInv' /\ ArexecInit'
    <2>1. AtellInv /\ ArexecInit
      BY <1>4 DEF ToolsInv
    <2>2. MessageKept'
      BY <1>1, <1>3, <2>1 DEF AtellInv, MessageKept, Plain, atellVars
    <2>3. ArexecInit'
      BY <2>1 DEF ArexecInit, arexecVars
    <2>4. message' = <<>> /\ userid' = <<>> /\ shown' = <<>> /\ cpc' = "message"
      BY <1>1, <1>4, <2>1 DEF AtellInv, atellVars, Writing
    <2>5. spc = "receive" => LetterSpread'
      <3>1. ASSUME spc = "receive" PROVE toS' = <<>> /\ Writing'
        BY <1>1, <2>4, <3>1 DEF Writing
      <3>2. (MessageKept /\ Writing /\ toS = <<>> /\ message = <<>> /\ userid = <<>> /\ (Broken \/ cpc = "message") => LetterSpread)'
        BY LetterUnread, PTL
      <3> QED
        BY <2>2, <2>4, <3>1, <3>2
    <2> QED
      BY <1>1, <2>1, <2>2, <2>3, <2>4, <2>5 DEF AtellInv
  <1>5. ASSUME tool = "arexec" PROVE ArexecInv' /\ AtellInit'
    <2>1. ArexecInv /\ AtellInit /\ cpc' = "command"
      BY <1>1, <1>5 DEF ToolsInv
    <2>2. CommandKept'
      BY <1>1, <2>1 DEF ArexecInv, CommandKept, arexecVars
    <2>3. AtellInit'
      BY <2>1 DEF AtellInit, atellVars
    <2> QED
      BY <1>1, <1>2, <2>1, <2>2, <2>3 DEF ArexecInv, arexecVars
  <1>6. /\ tool = "atell" => Directed(given.opts, given.dest)'
        /\ tool = "arexec" => Directed(asked.opts, asked.dest)'
    BY <1>1, DirectedStays DEF atellVars, arexecVars
  <1> QED
    BY <1>1, <1>3, <1>4, <1>5, <1>6 DEF ToolsInv

LEMMA AcceptsPreserves ==
    ASSUME ToolsInv, Accepts, Idling
    PROVE  ToolsInv'
  <1> USE DEF Idling
  <1>1. /\ spc = "accept" /\ sexit = "running" /\ toS # <<>> /\ Queues /\ tool \in {"atell", "arexec"}
        /\ cpc \notin {"arguments", "allocate", "version"} /\ toC = <<>>
        /\ UNCHANGED <<session, target, tp_version, cpc, cexit, outage, toS, toC>>
    BY DEF ToolsInv, Accepts, ServerAt, VersionsFirst, ServerLeaves
  <1>2. \/ spc' = "version" /\ sexit' = sexit
        \/ spc' = spc /\ sexit' = "failure"
    BY DEF Accepts, ServerExits
  <1>3. Queues' /\ VersionsFirst' /\ tool' = tool
    <2>1. Broken => Broken'
      BY <1>1, <1>2 DEF Broken
    <2> QED
      BY <1>1, <1>2, <2>1 DEF Queues, VersionsFirst, ToolsInv
  <1>4. ASSUME tool = "atell" PROVE AtellInv' /\ ArexecInit'
    <2>1. AtellInv /\ ArexecInit
      BY <1>4 DEF ToolsInv
    <2>2. MessageKept'
      BY <1>1, <2>1 DEF AtellInv, MessageKept, Plain, atellVars
    <2>3. ArexecInit'
      BY <2>1 DEF ArexecInit, arexecVars
    <2> QED
      BY <1>1, <1>2, <2>1, <2>2, <2>3 DEF AtellInv, atellVars
  <1>5. ASSUME tool = "arexec" PROVE ArexecInv' /\ AtellInit'
    <2>1. ArexecInv /\ AtellInit
      BY <1>5 DEF ToolsInv
    <2>2. CommandKept'
      BY <1>1, <2>1 DEF ArexecInv, CommandKept, arexecVars
    <2>3. AtellInit'
      BY <2>1 DEF AtellInit, atellVars
    <2> QED
      BY <1>1, <1>2, <2>1, <2>2, <2>3 DEF ArexecInv, arexecVars
  <1>6. /\ tool = "atell" => Directed(given.opts, given.dest)'
        /\ tool = "arexec" => Directed(asked.opts, asked.dest)'
    BY <1>1, DirectedStays DEF atellVars, arexecVars
  <1> QED
    BY <1>1, <1>3, <1>4, <1>5, <1>6 DEF ToolsInv

LEMMA ExchangesVersionPreserves ==
    ASSUME ToolsInv, ExchangesVersion, Idling
    PROVE  ToolsInv'
  <1> USE DEF Idling
  <1>1. /\ spc = "version" /\ sexit = "running" /\ Queues /\ tool \in {"atell", "arexec"}
        /\ cpc \notin {"arguments", "allocate", "version"} /\ toC = <<>> /\ spc' = "receive"
        /\ (cpc = "version_wait" \/ Broken) /\ toS \in {<<>>, Version}
        /\ UNCHANGED <<session, target, tp_version, cpc, cexit, sexit, outage>>
    BY DEF ToolsInv, ExchangesVersion, ServerAt, VersionsFirst, ServerLeaves
  <1>2. toS' = <<>> /\ (toC' = <<>> \/ (toC' = Version /\ cpc = "version_wait"))
    <2>1. CASE Broken /\ toS' = <<>> /\ toC' = toC
      BY <1>1, <2>1
    <2>2. CASE \E m \in cmrcv(toS, 1) : m.s = "send" /\ toS' = m.rest /\ toC' = Sent(toC, Data(<<"version">>) \o Stat("send"))
      <3>1. PICK m \in cmrcv(toS, 1) : m.s = "send" /\ toS' = m.rest /\ toC' = Sent(toC, Data(<<"version">>) \o Stat("send"))
        BY <2>2
      <3>2. toS # <<>>
        BY DEF cmrcv
      <3>3. toS = Version
        BY <1>1, <3>2
      <3>4. toS' = <<>>
        BY <3>1, <3>3, VersionReceived
      <3>5. toC' = IF Broken THEN <<>> ELSE <<>> \o Version
        BY <1>1, <3>1, VersionIs DEF Sent
      <3>6. <<>> \o Version = Version
        BY VersionIs, ConcatEmptySeq
      <3> QED
        BY <1>1, <3>4, <3>5, <3>6, Zenon
    <2> QED
      BY <2>1, <2>2 DEF ExchangesVersion
  <1>3. Queues' /\ VersionsFirst' /\ tool' = tool
    <2>1. toS' \in Seq(Item) /\ toC' \in Seq(Item)
      <3>1. <<>> \in Seq(Item)
        OBVIOUS
      <3> QED
        BY <1>2, <3>1, VersionIs, Zenon
    <2> QED
      BY <1>1, <1>2, <2>1 DEF Queues, VersionsFirst, ToolsInv
  <1>4. ASSUME tool = "atell" PROVE AtellInv' /\ ArexecInit'
    <2>1. AtellInv /\ ArexecInit
      BY <1>4 DEF ToolsInv
    <2>2. MessageKept'
      BY <1>1, <2>1 DEF AtellInv, MessageKept, Plain, atellVars
    <2>3. ArexecInit'
      BY <2>1 DEF ArexecInit, arexecVars
    <2>4. message' = <<>> /\ userid' = <<>> /\ shown' = <<>>
      BY <1>1, <2>1 DEF AtellInv, atellVars
    <2>5. Writing' => LetterSpread'
      <3>1. (MessageKept /\ Writing /\ toS = <<>> /\ message = <<>> /\ userid = <<>> /\ (Broken \/ cpc = "message") => LetterSpread)'
        BY LetterUnread, PTL
      <3>2. Writing' => Broken'
        BY <1>1 DEF Writing, Broken
      <3> QED
        BY <1>2, <2>2, <2>4, <3>1, <3>2
    <2>6. \A i \in 1 .. Len(toS') : FALSE
      BY <1>2
    <2> QED
      BY <1>1, <1>2, <2>1, <2>2, <2>3, <2>4, <2>5, <2>6 DEF AtellInv
  <1>5. ASSUME tool = "arexec" PROVE ArexecInv' /\ AtellInit'
    <2>1. ArexecInv /\ AtellInit
      BY <1>5 DEF ToolsInv
    <2>2. CommandKept'
      BY <1>1, <2>1 DEF ArexecInv, CommandKept, arexecVars
    <2>3. AtellInit'
      BY <2>1 DEF AtellInit, atellVars
    <2> QED
      BY <1>1, <1>2, <2>1, <2>2, <2>3 DEF ArexecInv, arexecVars
  <1>6. /\ tool = "atell" => Directed(given.opts, given.dest)'
        /\ tool = "arexec" => Directed(asked.opts, asked.dest)'
    BY <1>1, DirectedStays DEF atellVars, arexecVars
  <1> QED
    BY <1>1, <1>3, <1>4, <1>5, <1>6 DEF ToolsInv

-----------------------------------------------------------------------------
(***************************************************************************)
(* Receiving.                                                              *)
(***************************************************************************)
\* What is left was there before, but for the rest of a record.
LEMMA RestItems ==
    ASSUME NEW q \in Seq(Item), NEW max \in Nat \ {0}, NEW m \in cmrcv(q, max), NEW i \in 1 .. Len(m.rest)
    PROVE  \/ m.rest[i].s = "none" /\ m.rest[i].d # <<>>
           \/ \E k \in 1 .. Len(q) : m.rest[i] = q[k] /\ (k = Len(q) <=> i = Len(m.rest))
  <1> DEFINE r == q[1].d
             R == m.rest
  <1>1. /\ q # <<>> /\ R \in Seq(Item)
        /\ \/ Len(r) > max /\ R = Data(SubSeq(r, max + 1, Len(r))) \o Tail(q)
           \/ R = Tail(q)
           \/ Len(q) >= 2 /\ R = Tail(Tail(q))
    <2>1. /\ q # <<>> /\ m.d \in Seq(Unit) /\ Len(m.d) <= max /\ m.rest \in Seq(Item)
          /\ \/ /\ Len(q[1].d) > max /\ m.d = SubSeq(q[1].d, 1, max) /\ m.s = "none"
                /\ m.rest = Data(SubSeq(q[1].d, max + 1, Len(q[1].d))) \o Tail(q)
             \/ Len(q[1].d) <= max /\ m.d = q[1].d /\ m.s = q[1].s /\ m.rest = Tail(q)
             \/ /\ Len(q[1].d) <= max /\ m.d = q[1].d /\ q[1].d # <<>> /\ Len(q) >= 2 /\ q[2].d = <<>>
                /\ m.s = q[2].s /\ m.rest = Tail(Tail(q))
      BY Received
    <2> QED
      BY <2>1, Zenon
  <1>2. Len(q) \in Nat /\ Len(q) >= 1 /\ q[1] \in Item /\ r \in Seq(Unit) /\ Len(r) \in Nat
    <2>1. Len(q) \in Nat /\ Len(q) >= 1
      BY <1>1, EmptySeq
    <2>2. q[1] \in Item
      BY <2>1
    <2> QED
      BY <2>1, <2>2 DEF Item
  <1> DEFINE T == Tail(q)
  <1>3. T \in Seq(Item) /\ Len(T) = Len(q) - 1 /\ \A j \in 1 .. Len(T) : T[j] = q[j + 1]
    BY <1>1, <1>2
  <1> HIDE DEF T
  <1>4. CASE Len(r) > max /\ R = Data(SubSeq(r, max + 1, Len(r))) \o T
    <2> DEFINE x == SubSeq(r, max + 1, Len(r))
    <2>1. x # <<>>
      <3>1. Len(x) = Len(r) - max
        <4> HIDE DEF r
        <4> QED
          BY <1>2, <1>4
      <3> HIDE DEF x, r
      <3> QED
        BY <1>2, <1>4, <3>1
    <2> HIDE DEF x
    <2>2. R = <<[d |-> x, s |-> "none"]>> \o T
      BY <1>4 DEF Data, x
    <2>3. /\ Len(R) = Len(T) + 1 /\ R[1] = [d |-> x, s |-> "none"] /\ \A j \in 2 .. Len(R) : R[j] = T[j - 1]
      <3> HIDE DEF R
      <3>1. ASSUME NEW y PROVE /\ Len(<<y>> \o T) = Len(T) + 1 /\ (<<y>> \o T)[1] = y
                               /\ \A j \in 2 .. Len(T) + 1 : (<<y>> \o T)[j] = T[j - 1]
        BY <1>3
      <3> QED
        BY <2>2, <3>1
    <2> HIDE DEF R
    <2>4. CASE i = 1
      BY <2>1, <2>3, <2>4 DEF R
    <2>5. CASE i # 1
      <3>1. i \in 2 .. Len(R) /\ i - 1 \in 1 .. Len(T) /\ i \in 1 .. Len(q) /\ (i - 1) + 1 = i
        BY <1>2, <1>3, <2>3, <2>5 DEF R
      <3>2. R[i] = q[i]
        BY <1>3, <2>3, <3>1
      <3>3. i = Len(q) <=> i = Len(R)
        BY <1>2, <1>3, <2>3
      <3> QED
        BY <3>1, <3>2, <3>3 DEF R
    <2> QED
      BY <2>4, <2>5
  <1>5. CASE R = T
    <2>1. i + 1 \in 1 .. Len(q) /\ R[i] = q[i + 1] /\ (i + 1 = Len(q) <=> i = Len(R))
      BY <1>2, <1>3, <1>5
    <2> HIDE DEF R
    <2> QED
      BY <2>1 DEF R
  <1>6. CASE Len(q) >= 2 /\ R = Tail(T)
    <2>1. T # <<>>
      BY <1>2, <1>3, <1>6
    <2>2. Len(Tail(T)) = Len(T) - 1 /\ \A j \in 1 .. Len(T) - 1 : Tail(T)[j] = T[j + 1]
      BY <1>3, <2>1
    <2> HIDE DEF R
    <2>3. i \in 1 .. Len(T) - 1 /\ Len(R) = Len(T) - 1 /\ R[i] = T[i + 1]
      BY <1>6, <2>2 DEF R
    <2>4. i + 1 \in 1 .. Len(T) /\ (i + 1) + 1 \in 1 .. Len(q) /\ ((i + 1) + 1 = Len(q) <=> i = Len(R))
      BY <1>2, <1>3, <2>3
    <2>5. R[i] = q[(i + 1) + 1]
      BY <1>3, <2>3, <2>4
    <2> QED
      BY <2>4, <2>5 DEF R
  <1> QED
    BY <1>1, <1>4, <1>5, <1>6, Zenon DEF T

\* A text received stays a text: what p has of u grows by the record.
LEMMA Printing ==
    ASSUME NEW q \in Seq(Item), NEW u \in Seq(Unit), NEW p \in Seq(Unit), NEW e, Runs(q, u, Len(p), e),
           \A j \in 1 .. Len(p) : p[j] = u[j], NEW max \in Nat \ {0}, NEW m \in cmrcv(q, max)
    PROVE  /\ p \o m.d \in Seq(Unit) /\ \A j \in 1 .. Len(p \o m.d) : (p \o m.d)[j] = u[j]
           /\ Runs(m.rest, u, Len(p \o m.d), e)
  <1> DEFINE r == q[1].d
             T == Tail(q)
             a == Len(p)
  <1>1. /\ q # <<>> /\ m.d \in Seq(Unit)
        /\ \/ Len(r) > max /\ m.d = SubSeq(r, 1, max) /\ m.rest = Data(SubSeq(r, max + 1, Len(r))) \o T
           \/ m.d = r /\ m.rest = T
           \/ m.d = r /\ Len(q) >= 2 /\ q[2].d = <<>> /\ m.rest = Tail(T)
    <2>1. /\ q # <<>> /\ m.d \in Seq(Unit) /\ Len(m.d) <= max /\ m.rest \in Seq(Item)
          /\ \/ /\ Len(q[1].d) > max /\ m.d = SubSeq(q[1].d, 1, max) /\ m.s = "none"
                /\ m.rest = Data(SubSeq(q[1].d, max + 1, Len(q[1].d))) \o Tail(q)
             \/ Len(q[1].d) <= max /\ m.d = q[1].d /\ m.s = q[1].s /\ m.rest = Tail(q)
             \/ /\ Len(q[1].d) <= max /\ m.d = q[1].d /\ q[1].d # <<>> /\ Len(q) >= 2 /\ q[2].d = <<>>
                /\ m.s = q[2].s /\ m.rest = Tail(Tail(q))
      BY Received
    <2> QED
      BY <2>1, Zenon
  <1>2. Covers(r, u, a) /\ Runs(T, u, a + Len(r), e)
    BY <1>1, RunsOff
  <1>3. Len(q) \in Nat /\ Len(q) >= 1 /\ q[1] \in Item /\ r \in Seq(Unit) /\ Len(r) \in Nat /\ a \in Nat /\ Len(u) \in Nat
    <2>1. Len(q) \in Nat /\ Len(q) >= 1
      BY <1>1, EmptySeq
    <2>2. q[1] \in Item
      BY <2>1
    <2> QED
      BY <2>1, <2>2 DEF Item
  <1>4. T \in Seq(Item) /\ Len(T) = Len(q) - 1 /\ \A j \in 1 .. Len(T) : T[j] = q[j + 1]
    BY <1>1, <1>3
  <1> HIDE DEF T, r
  <1>5. ASSUME NEW x \in Seq(Unit), Covers(x, u, a)
        PROVE  p \o x \in Seq(Unit) /\ Len(p \o x) = a + Len(x) /\ \A j \in 1 .. Len(p \o x) : (p \o x)[j] = u[j]
    <2>1. p \o x \in Seq(Unit) /\ Len(p \o x) = a + Len(x) /\ Len(x) \in Nat
      BY <1>5
    <2>2. ASSUME NEW j \in 1 .. a + Len(x) PROVE (p \o x)[j] = u[j]
      <3>1. CASE j <= a
        <4>1. j \in 1 .. Len(p) /\ (p \o x)[j] = p[j]
          BY <1>3, <2>1, <3>1
        <4> QED
          BY <4>1
      <3>2. CASE j > a
        <4>1. j - a \in 1 .. Len(x) /\ a + (j - a) = j /\ (p \o x)[j] = x[j - a]
          BY <1>3, <2>1, <3>2
        <4>2. u[a + (j - a)] = x[j - a]
          BY <1>5, <4>1 DEF Covers
        <4> QED
          BY <4>1, <4>2
      <3> QED
        BY <1>3, <2>1, <3>1, <3>2
    <2> QED
      BY <2>1, <2>2
  <1>6. CASE Len(r) > max /\ m.d = SubSeq(r, 1, max) /\ m.rest = Data(SubSeq(r, max + 1, Len(r))) \o T
    <2> DEFINE x == SubSeq(r, 1, max)
               y == SubSeq(r, max + 1, Len(r))
               it == [d |-> y, s |-> "none"]
    <2>1. x \in Seq(Unit) /\ Len(x) = max /\ \A j \in 1 .. max : x[j] = r[j]
      BY <1>3, <1>6
    <2>2. y \in Seq(Unit) /\ Len(y) = Len(r) - max /\ \A j \in 1 .. Len(r) - max : y[j] = r[max + j]
      <3>1. ASSUME NEW j \in max + 1 .. Len(r) PROVE r[j] \in Unit
        <4>1. j \in 1 .. Len(r)
          BY <1>3
        <4> QED
          BY <1>3, <4>1
      <3>2. y \in Seq(Unit) /\ Len(y) = Len(r) - max
        BY <1>3, <1>6, <3>1, SubSeqProperties
      <3>3. \A j \in 1 .. Len(r) - max : y[j] = r[max + j]
        BY <1>3, <1>6
      <3> QED
        BY <3>2, <3>3
    <2> HIDE DEF x, y
    <2>3. it \in Item /\ it.d = y
      BY <2>2 DEF Item
    <2>4. Covers(x, u, a)
      <3>1. a + max <= Len(u)
        BY <1>2, <1>3, <1>6 DEF Covers
      <3>2. ASSUME NEW j \in 1 .. max PROVE u[a + j] = x[j]
        <4>1. j \in 1 .. Len(r)
          BY <1>3, <1>6
        <4> QED
          BY <1>2, <2>1, <4>1 DEF Covers
      <3> QED
        BY <2>1, <3>1, <3>2 DEF Covers
    <2>5. Covers(y, u, a + max)
      <3>1. (a + max) + Len(y) <= Len(u)
        BY <1>2, <1>3, <2>2 DEF Covers
      <3>2. ASSUME NEW j \in 1 .. Len(y) PROVE u[(a + max) + j] = y[j]
        <4>1. max + j \in 1 .. Len(r) /\ a + (max + j) = (a + max) + j /\ j \in 1 .. Len(r) - max
          BY <1>3, <2>2
        <4>2. u[a + (max + j)] = r[max + j]
          BY <1>2, <4>1 DEF Covers
        <4> QED
          BY <2>2, <4>1, <4>2
      <3> QED
        BY <3>1, <3>2 DEF Covers
    <2>6. Runs(T, u, (a + max) + Len(y), e)
      <3>1. (a + max) + Len(y) = a + Len(r)
        BY <1>3, <2>2
      <3> QED
        BY <1>2, <3>1, Zenon
    <2>7. a + max \in Nat
      BY <1>3
    <2>8. Runs(<<it>> \o T, u, a + max, e)
      <3> HIDE DEF it, a
      <3> QED
        BY <1>4, <2>3, <2>5, <2>6, <2>7, RunsBefore
    <2>9. m.d = x /\ m.rest = <<it>> \o T
      BY <1>6 DEF Data, x, y
    <2>10. p \o x \in Seq(Unit) /\ Len(p \o x) = a + max /\ \A j \in 1 .. Len(p \o x) : (p \o x)[j] = u[j]
      BY <1>5, <2>1, <2>4
    <2> HIDE DEF it, a
    <2> QED
      BY <2>8, <2>9, <2>10, Zenon
  <1>7. CASE m.d = r /\ m.rest = T
    <2>1. p \o r \in Seq(Unit) /\ Len(p \o r) = a + Len(r) /\ \A j \in 1 .. Len(p \o r) : (p \o r)[j] = u[j]
      BY <1>2, <1>3, <1>5
    <2> HIDE DEF a
    <2> QED
      BY <1>2, <1>7, <2>1, Zenon
  <1>8. CASE m.d = r /\ Len(q) >= 2 /\ q[2].d = <<>> /\ m.rest = Tail(T)
    <2>1. p \o r \in Seq(Unit) /\ Len(p \o r) = a + Len(r) /\ \A j \in 1 .. Len(p \o r) : (p \o r)[j] = u[j]
      BY <1>2, <1>3, <1>5
    <2>2. T # <<>> /\ T[1] = q[2]
      <3>1. Len(T) >= 1 /\ 1 + 1 = 2
        BY <1>3, <1>4, <1>8
      <3> QED
        BY <1>4, <3>1
    <2>3. Runs(Tail(T), u, (a + Len(r)) + Len(T[1].d), e)
      <3> HIDE DEF a
      <3> QED
        BY <1>2, <1>4, <2>2, RunsOff
    <2>4. (a + Len(r)) + Len(T[1].d) = a + Len(r)
      <3>1. Len(T[1].d) = 0
        BY <1>8, <2>2
      <3> QED
        BY <1>3, <3>1
    <2> HIDE DEF a
    <2> QED
      BY <1>8, <2>1, <2>3, <2>4, Zenon
  <1> QED
    BY <1>1, <1>6, <1>7, <1>8

-----------------------------------------------------------------------------
(***************************************************************************)
(* arexec and arexecd.                                                     *)
(***************************************************************************)
\* What arexec's and arexecd's own steps leave alone.
LEMMA ArexecRest ==
    ASSUME ToolsInv, tool = "arexec", UNCHANGED <<session, target, asked, tool>>, UNCHANGED atellVars,
           cpc \notin {"arguments", "allocate"}, cpc' \notin {"arguments", "allocate"},
           Queues', VersionsFirst', ArexecInv'
    PROVE  ToolsInv'
  <1>1. given' = given /\ tool' = "arexec"
    BY DEF atellVars
  <1>2. AtellInit'
    BY DEF ToolsInv, AtellInit, atellVars
  <1>3. Directed(asked.opts, asked.dest)'
    BY <1>1, DirectedStays
  <1> QED
    BY <1>1, <1>2, <1>3 DEF ToolsInv

\* What a command prints is a text.
LEMMA OutputsTyped ==
    ASSUME NEW out \in Outputs
    PROVE  out \in Seq(Unit)
  <1>1. out \in Seq(STRING)
    BY ToolsAssumption, Zenon
  <1> QED
    BY <1>1, Units, SeqOfMore, Zenon

\* A queue that holds a record and the turn.
LEMMA CommandQueued ==
    ASSUME NEW c \in Seq(Unit)
    PROVE  /\ Data(c) \o Stat("send") = <<[d |-> c, s |-> "none"], [d |-> <<>>, s |-> "send"]>>
           /\ Data(c) \o Stat("send") \in Seq(Item) /\ Stat("send") \in Seq(Item) /\ Data(c) \in Seq(Item)
  <1>1. Data(c) \o Stat("send") = <<[d |-> c, s |-> "none"], [d |-> <<>>, s |-> "send"]>>
    BY TupleOfTwo, Zenon DEF Data, Stat
  <1>2. Stat("send") \in Seq(Item) /\ Data(c) \in Seq(Item)
    BY DataTyped DEF Status
  <1>3. Data(c) \o Stat("send") \in Seq(Item)
    BY <1>2, ConcatProperties
  <1> QED
    BY <1>1, <1>2, <1>3

\* The command is sent, and arexecd starts it.
LEMMA SendsCommandPreserves ==
    ASSUME ToolsInv, tool = "arexec", SendsCommand, UNCHANGED <<atellVars, tool>>
    PROVE  ToolsInv'
  <1>1. /\ cpc = "command" /\ cexit = "running" /\ Queues /\ ArexecInv /\ VersionsFirst
        /\ UNCHANGED <<session, target, tp_version, spc, sexit, outage, toC>> /\ UNCHANGED arexecVars
        /\ spc \in {"accept", "version", "receive"}
    BY DEF ToolsInv, SendsCommand, ClientAt, ClientLeaves, VersionsFirst
  <1>2. /\ toC = <<>> /\ (spc \in {"accept", "version"} => Broken) /\ (spc = "receive" => toS = <<>>)
        /\ command \in Seq(Unit)
    BY <1>1 DEF VersionsFirst, ArexecInv, CommandKept
  <1>3. \/ toS' = Sent(toS, Data(command) \o Stat("send")) /\ cpc' = "output" /\ cexit' = cexit
        \/ Broken /\ cexit' = "failure" /\ cpc' = cpc /\ toS' = toS
    BY DEF SendsCommand, ClientExits
  <1>4. /\ spc \in {"accept", "version"} => toS' = toS
        /\ spc = "receive" => toS' = <<>> \/ (toS' = Data(command) \o Stat("send") /\ cpc' = "output")
    <2>1. spc \in {"accept", "version"} => toS' = toS
      BY <1>2, <1>3 DEF Sent
    <2>2. <<>> \o (Data(command) \o Stat("send")) = Data(command) \o Stat("send")
      BY <1>2, CommandQueued, ConcatEmptySeq
    <2>3. spc = "receive" => toS' = <<>> \/ (toS' = Data(command) \o Stat("send") /\ cpc' = "output")
      BY <1>2, <1>3, <2>2, Zenon DEF Sent
    <2> QED
      BY <2>1, <2>3
  <1>5. Queues'
    <2>1. toS' \in Seq(Item)
      <3>1. <<>> \in Seq(Item)
        OBVIOUS
      <3> QED
        BY <1>1, <1>2, <1>4, <3>1, CommandQueued, Zenon DEF Queues
    <2>2. cexit' \in {"running", "success", "failure", "crashed"}
      BY <1>1, <1>3
    <2> QED
      BY <1>1, <2>1, <2>2 DEF Queues
  <1>6. VersionsFirst'
    <2>1. Broken => Broken'
      BY <1>1, <1>3 DEF Broken
    <2>2. cpc' \in {"command", "output"}
      BY <1>1, <1>3
    <2> QED
      BY <1>1, <1>2, <1>4, <2>1, <2>2 DEF VersionsFirst
  <1>7. ArexecInv'
    <2>1. CommandKept' /\ command' = command
      BY <1>1, <1>3 DEF ArexecInv, CommandKept, arexecVars
    <2>2. /\ (spc = "receive" => toS = <<>> \/ (toS = Data(command) \o Stat("send") /\ cpc = "output"))'
      BY <1>1, <1>4, <2>1, Zenon
    <2>3. (cexit = "success" /\ cpc = "output" => FALSE)'
      BY <1>1, <1>3
    <2>4. cpc' \in {"command", "output"}
      BY <1>1, <1>3
    <2>5. executed' = executed /\ printed' = printed
      BY <1>1 DEF arexecVars
    <2> QED
      BY <1>1, <2>1, <2>2, <2>3, <2>4, <2>5 DEF ArexecInv
  <1>8. cpc' \notin {"arguments", "allocate"} /\ asked' = asked
    BY <1>1, <1>3 DEF arexecVars
  <1> QED
    BY <1>1, <1>5, <1>6, <1>7, <1>8, ArexecRest

LEMMA CommandReceivedPreserves ==
    ASSUME ToolsInv, tool = "arexec", CommandReceived, UNCHANGED <<atellVars, tool>>
    PROVE  ToolsInv'
  <1>1. /\ spc = "receive" /\ sexit = "running" /\ Queues /\ ArexecInv /\ VersionsFirst
        /\ UNCHANGED <<session, target, tp_version, cpc, cexit, outage, toC, asked, command, printed>>
        /\ cpc \notin {"arguments", "allocate", "version"} /\ executed = <<>> /\ printed = <<>>
    BY DEF ToolsInv, CommandReceived, ServerAt, ServerLeaves, VersionsFirst, ArexecInv
  <1>2. CommandKept' /\ command' = command /\ command \in Seq(Unit) /\ Len(command) <= CommandSize - 1 /\ Len(command) \in Nat
    BY <1>1, ArexecAssumption DEF ArexecInv, CommandKept
  <1>3. CASE Broken /\ sexit' = "failure" /\ spc' = spc /\ UNCHANGED <<toS, executed, server_turn, output, produced>>
    <2>1. Broken' /\ Queues'
      BY <1>1, <1>3 DEF Broken, Queues
    <2>2. VersionsFirst'
      BY <1>1, <1>3, <2>1 DEF VersionsFirst
    <2>3. ArexecInv'
      <3>1. (spc = "receive" => toS = <<>> \/ (toS = Data(command) \o Stat("send") /\ cpc = "output"))'
        BY <1>1, <1>2, <1>3 DEF ArexecInv
      <3> QED
        BY <1>1, <1>2, <1>3, <3>1 DEF ArexecInv
    <2> QED
      BY <1>1, <2>1, <2>2, <2>3, ArexecRest
  <1>4. ASSUME NEW m \in cmrcv(toS, CommandSize - 1), NEW out \in Outputs, toS' = m.rest, sexit' = sexit,
               \/ /\ executed' = Append(executed, m.d) /\ output' = out /\ produced' = out
                  /\ spc' = "send"
               \/ UNCHANGED <<executed, output, produced>> /\ spc' = "popen_failed"
        PROVE  ToolsInv'
    <2>1. toS # <<>>
      BY DEF cmrcv
    <2>2. toS = Data(command) \o Stat("send") /\ cpc = "output"
      BY <1>1, <2>1 DEF ArexecInv
    <2> DEFINE Q == <<[d |-> command, s |-> "none"], [d |-> <<>>, s |-> "send"]>>
    <2>3. toS = Q
      BY <1>2, <2>2, CommandQueued
    <2>4. Q[1].d = command /\ Tail(Q) = Stat("send") /\ Tail(Tail(Q)) = <<>>
      <3>1. ASSUME NEW a, NEW b PROVE Tail(<<a, b>>) = <<b>> /\ Tail(<<b>>) = <<>>
        OBVIOUS
      <3>2. Q[1].d = command
        OBVIOUS
      <3> QED
        BY <3>1, <3>2, Zenon DEF Stat
    <2> HIDE DEF Q
    <2>5. m.d = command /\ m.rest \in {Stat("send"), <<>>}
      <3>1. CommandSize - 1 \in Nat \ {0}
        BY ArexecAssumption
      <3>2. \/ Len(Q[1].d) > CommandSize - 1
            \/ m.d = Q[1].d /\ m.rest = Tail(Q)
            \/ m.d = Q[1].d /\ m.rest = Tail(Tail(Q))
        <4>1. toS \in Seq(Item)
          BY <1>1 DEF Queues
        <4>2. \/ Len(toS[1].d) > CommandSize - 1
              \/ m.d = toS[1].d /\ m.rest = Tail(toS)
              \/ m.d = toS[1].d /\ m.rest = Tail(Tail(toS))
          <5>1. /\ toS # <<>> /\ m.d \in Seq(Unit) /\ Len(m.d) <= (CommandSize - 1) /\ m.rest \in Seq(Item)
                /\ \/ /\ Len(toS[1].d) > (CommandSize - 1) /\ m.d = SubSeq(toS[1].d, 1, (CommandSize - 1)) /\ m.s = "none"
                      /\ m.rest = Data(SubSeq(toS[1].d, (CommandSize - 1) + 1, Len(toS[1].d))) \o Tail(toS)
                   \/ Len(toS[1].d) <= (CommandSize - 1) /\ m.d = toS[1].d /\ m.s = toS[1].s /\ m.rest = Tail(toS)
                   \/ /\ Len(toS[1].d) <= (CommandSize - 1) /\ m.d = toS[1].d /\ toS[1].d # <<>> /\ Len(toS) >= 2 /\ toS[2].d = <<>>
                      /\ m.s = toS[2].s /\ m.rest = Tail(Tail(toS))
            BY <3>1, <4>1, Received
          <5> QED
            BY <5>1, Zenon
        <4> QED
          BY <2>3, <4>2, Zenon
      <3>3. ~(Len(Q[1].d) > CommandSize - 1)
        BY <1>2, <2>4, <3>1
      <3> QED
        BY <2>4, <3>2, <3>3, Zenon
    <2>6. toC = <<>>
      BY <1>1, <2>2 DEF VersionsFirst
    <2>7. Queues'
      <3>1. m.rest \in Seq(Item)
        <4>1. <<>> \in Seq(Item)
          OBVIOUS
        <4> QED
          BY <1>2, <2>5, <4>1, CommandQueued, Zenon
      <3> QED
        BY <1>1, <1>4, <3>1 DEF Queues
    <2>8. VersionsFirst'
      BY <1>1, <1>4, <2>2 DEF VersionsFirst
    <2>9. spc' = "send" => executed' = <<command>> /\ OutputSpread'
      <3> SUFFICES ASSUME spc' = "send" PROVE executed' = <<command>> /\ OutputSpread'
        OBVIOUS
      <3>1. executed' = <<command>> /\ output' = out /\ produced' = out /\ printed' = <<>> /\ toC' = <<>>
        BY <1>1, <1>4, <2>5, <2>6
      <3>2. out \in Seq(Unit) /\ Len(out) \in Nat
        BY OutputsTyped
      <3>3. Runs(<<>>, out, 0, 0)
        BY <3>2, RunsNone
      <3>4. /\ produced' \in Outputs /\ printed' \in Seq(Unit) /\ output' \in Seq(Unit)
            /\ \A j \in 1 .. Len(printed') : printed'[j] = produced'[j]
            /\ Len(output') <= Len(produced')
            /\ \A j \in 1 .. Len(output') : output'[j] = produced'[Len(produced') - Len(output') + j]
        BY <3>1, <3>2
      <3>5. /\ 0 \in 0 .. Len(produced') /\ Runs(toC', produced', Len(printed'), 0)
            /\ 0 = Len(produced') - Len(output') /\ \A i \in 1 .. Len(toC') : FALSE
        BY <3>1, <3>2, <3>3
      <3>6. OutputSpread'
        BY <3>4, <3>5 DEF OutputSpread
      <3> QED
        BY <3>1, <3>6
    <2>10. ArexecInv'
      <3>1. cexit' = "success" /\ cpc' = "output" => FALSE
        BY <1>1 DEF ArexecInv
      <3>2. spc' \in {"send", "popen_failed"} /\ (spc' # "send" => executed' = <<>>)
        BY <1>1, <1>4
      <3>3. spc' \in {"send", "popen_failed"} => toS' = <<>> \/ toS' = Stat("send")
        BY <1>4, <2>5
      <3>4. printed' \in Seq(Unit) /\ \A i \in 1 .. Len(toC') : FALSE
        BY <1>1, <2>6
      <3>5. cpc' = "output"
        BY <1>1, <2>2
      <3> QED
        BY <1>2, <2>9, <3>1, <3>2, <3>3, <3>4, <3>5 DEF ArexecInv
    <2> QED
      BY <1>1, <2>7, <2>8, <2>10, ArexecRest
  <1> QED
    BY <1>3, <1>4 DEF CommandReceived, ServerExits

\* The status received was in the queue.
LEMMA StatusReceived ==
    ASSUME NEW q \in Seq(Item), NEW max \in Nat \ {0}, NEW m \in cmrcv(q, max)
    PROVE  \/ m.s = "none"
           \/ 1 \in 1 .. Len(q) /\ m.s = q[1].s /\ m.d = q[1].d /\ m.rest = Tail(q)
           \/ 2 \in 1 .. Len(q) /\ m.s = q[2].s /\ m.d = q[1].d /\ q[2].d = <<>> /\ m.rest = Tail(Tail(q))
  <1>1. Len(q) \in Nat /\ Len(q) >= 1
    <2>1. q # <<>>
      BY Received
    <2> QED
      BY <2>1, EmptySeq
  <1>2. 1 \in 1 .. Len(q) /\ (Len(q) >= 2 => 2 \in 1 .. Len(q))
    BY <1>1
  <1>3. \/ m.s = "none"
        \/ m.s = q[1].s /\ m.d = q[1].d /\ m.rest = Tail(q)
        \/ Len(q) >= 2 /\ m.s = q[2].s /\ m.d = q[1].d /\ q[2].d = <<>> /\ m.rest = Tail(Tail(q))
    <2>1. /\ q # <<>> /\ m.d \in Seq(Unit) /\ Len(m.d) <= max /\ m.rest \in Seq(Item)
          /\ \/ /\ Len(q[1].d) > max /\ m.d = SubSeq(q[1].d, 1, max) /\ m.s = "none"
                /\ m.rest = Data(SubSeq(q[1].d, max + 1, Len(q[1].d))) \o Tail(q)
             \/ Len(q[1].d) <= max /\ m.d = q[1].d /\ m.s = q[1].s /\ m.rest = Tail(q)
             \/ /\ Len(q[1].d) <= max /\ m.d = q[1].d /\ q[1].d # <<>> /\ Len(q) >= 2 /\ q[2].d = <<>>
                /\ m.s = q[2].s /\ m.rest = Tail(Tail(q))
      BY Received
    <2> QED
      BY <2>1, Zenon
  <1> QED
    BY <1>2, <1>3, Zenon

\* Every item on the way back is output, but for the end.
Outgoing(q, e) ==
    \A i \in 1 .. Len(q) :
        \/ q[i].s = "none" /\ q[i].d # <<>>
        \/ q[i].s = "dealloc" /\ q[i].d = <<>> /\ i = Len(q) /\ sexit # "running" /\ e = Len(produced)

SpreadTo(e) ==
    e \in 0 .. Len(produced) /\ Runs(toC, produced, Len(printed), e)
    /\ (Broken \/ e = Len(produced) - Len(output)) /\ Outgoing(toC, e)

SpreadTyped ==
    /\ produced \in Outputs /\ printed \in Seq(Unit) /\ output \in Seq(Unit)
    /\ \A j \in 1 .. Len(printed) : printed[j] = produced[j]
    /\ Len(output) <= Len(produced)
    /\ \A j \in 1 .. Len(output) : output[j] = produced[Len(produced) - Len(output) + j]

Spread == SpreadTyped /\ \E e \in 0 .. Len(produced) : SpreadTo(e)

\* OutputSpread, as the lemmas on Runs use it.
LEMMA SpreadIs == OutputSpread <=> Spread
  BY Zenon DEF Spread, OutputSpread, SpreadTyped, SpreadTo, Outgoing

\* arexec prints what it receives of the output.
LEMMA PrintsPreserves ==
    ASSUME ToolsInv, tool = "arexec", Prints, UNCHANGED <<atellVars, tool>>
    PROVE  ToolsInv'
  <1>1. /\ cpc = "output" /\ cexit = "running" /\ Queues /\ ArexecInv /\ VersionsFirst
        /\ UNCHANGED <<session, target, tp_version, spc, sexit, outage, toS, asked, command, executed, server_turn, output, produced>>
    BY DEF ToolsInv, Prints, ClientAt, ClientLeaves
  <1>2. CommandKept' /\ command' = command /\ CommandSize \in Nat \ {0}
    <2>1. cpc' = cpc
      BY DEF Prints, ClientExits
    <2> QED
      BY <1>1, <2>1, ArexecAssumption DEF ArexecInv, CommandKept
  <1>3. cpc' = "output"
    BY <1>1 DEF Prints, ClientExits
  <1>4. Broken => Broken'
    BY <1>1 DEF Broken, Prints, ClientExits
  <1>5. CASE Broken /\ cexit' = "failure" /\ UNCHANGED <<toC, printed>>
    <2>1. Queues' /\ VersionsFirst'
      BY <1>1, <1>3, <1>4, <1>5 DEF Queues, VersionsFirst
    <2>2. spc = "send" => OutputSpread'
      <3> SUFFICES ASSUME spc = "send" PROVE OutputSpread'
        OBVIOUS
      <3>1. OutputSpread
        BY <1>1 DEF ArexecInv
      <3> QED
        BY <1>1, <1>4, <1>5, <3>1 DEF OutputSpread
    <2>3. ArexecInv'
      BY <1>1, <1>2, <1>3, <1>5, <2>2 DEF ArexecInv
    <2> QED
      BY <1>1, <1>3, <2>1, <2>3, ArexecRest
  <1>6. ASSUME NEW m \in cmrcv(toC, CommandSize), toC' = m.rest, printed' = printed \o m.d,
               IF m.s = "dealloc" THEN cexit' = "success" ELSE cexit' = cexit
        PROVE  ToolsInv'
    <2>1. toC \in Seq(Item) /\ toC # <<>> /\ m.d \in Seq(Unit) /\ m.rest \in Seq(Item)
      BY <1>1, <1>2, Received DEF Queues
    <2>2. spc \in {"send", "popen_failed"}
      BY <1>1, <2>1 DEF ArexecInv, VersionsFirst
    <2>3. Queues' /\ VersionsFirst'
      <3>1. cexit' \in {"running", "success", "failure", "crashed"}
        BY <1>1, <1>6
      <3> QED
        BY <1>1, <1>3, <1>4, <1>6, <2>1, <2>2, <3>1 DEF Queues, VersionsFirst
    <2>4. CASE spc = "popen_failed"
      <3>1. printed \in Seq(Unit) /\ \A i \in 1 .. Len(toC) : toC[i].s # "dealloc"
        BY <1>1, <2>4 DEF ArexecInv
      <3>2. m.s # "dealloc"
        <4>1. m.s = "none" \/ (1 \in 1 .. Len(toC) /\ m.s = toC[1].s) \/ (2 \in 1 .. Len(toC) /\ m.s = toC[2].s)
          BY <1>2, <2>1, StatusReceived
        <4> QED
          BY <3>1, <4>1
      <3>3. \A i \in 1 .. Len(toC') : toC'[i].s # "dealloc"
        <4> SUFFICES ASSUME NEW i \in 1 .. Len(m.rest) PROVE m.rest[i].s # "dealloc"
          BY <1>6
        <4>1. m.rest[i].s = "none" \/ \E k \in 1 .. Len(toC) : m.rest[i] = toC[k]
          BY <1>2, <2>1, RestItems
        <4> QED
          BY <3>1, <4>1
      <3>4. printed' \in Seq(Unit)
        BY <1>6, <2>1, <3>1, ConcatProperties
      <3>5. cexit' = "running"
        BY <1>1, <1>6, <3>2
      <3>6. ArexecInv'
        BY <1>1, <1>2, <1>3, <2>4, <3>3, <3>4, <3>5 DEF ArexecInv
      <3> QED
        BY <1>1, <1>3, <2>3, <3>6, ArexecRest
    <2>5. CASE spc = "send"
      <3>1. SpreadTyped /\ \E e \in 0 .. Len(produced) : SpreadTo(e)
        BY <1>1, <2>5, SpreadIs DEF ArexecInv, Spread
      <3>2. PICK e \in 0 .. Len(produced) : SpreadTo(e)
        BY <3>1
      <3> DEFINE p == printed \o m.d
      <3>3. produced \in Seq(Unit) /\ printed \in Seq(Unit) /\ Len(produced) \in Nat
        BY <3>1, OutputsTyped DEF SpreadTyped
      <3>4. p \in Seq(Unit) /\ (\A j \in 1 .. Len(p) : p[j] = produced[j]) /\ Runs(m.rest, produced, Len(p), e)
        <4>1. Runs(toC, produced, Len(printed), e) /\ \A j \in 1 .. Len(printed) : printed[j] = produced[j]
          BY <3>1, <3>2 DEF SpreadTyped, SpreadTo
        <4> QED
          BY <1>2, <2>1, <3>3, <4>1, Printing
      <3> HIDE DEF p
      <3>5. Outgoing(m.rest, e)
        <4> SUFFICES ASSUME NEW i \in 1 .. Len(m.rest)
                     PROVE  \/ m.rest[i].s = "none" /\ m.rest[i].d # <<>>
                            \/ /\ m.rest[i].s = "dealloc" /\ m.rest[i].d = <<>> /\ i = Len(m.rest)
                               /\ sexit # "running" /\ e = Len(produced)
          BY DEF Outgoing
        <4>1. CASE m.rest[i].s = "none" /\ m.rest[i].d # <<>>
          BY <4>1
        <4>2. CASE \E k \in 1 .. Len(toC) : m.rest[i] = toC[k] /\ (k = Len(toC) <=> i = Len(m.rest))
          <5>1. PICK k \in 1 .. Len(toC) : m.rest[i] = toC[k] /\ (k = Len(toC) <=> i = Len(m.rest))
            BY <4>2
          <5> QED
            BY <3>2, <5>1, Zenon DEF SpreadTo, Outgoing
        <4> QED
          BY <1>2, <2>1, <4>1, <4>2, RestItems
      <3>6. printed' = p /\ toC' = m.rest
        BY <1>6 DEF p
      <3>7. SpreadTo(e)'
        <4>1. Outgoing(toC, e)'
          BY <1>1, <3>5, <3>6 DEF Outgoing
        <4>2. (Broken \/ e = Len(produced) - Len(output))'
          BY <1>1, <1>4, <3>2 DEF SpreadTo
        <4>3. Runs(toC, produced, Len(printed), e)'
          BY <1>1, <3>4, <3>6
        <4>4. (e \in 0 .. Len(produced))'
          BY <1>1
        <4> QED
          BY <4>1, <4>2, <4>3, <4>4 DEF SpreadTo
      <3>8. SpreadTyped'
        <4>1. p \in Seq(Unit) /\ \A j \in 1 .. Len(p) : p[j] = produced[j]
          BY <3>4
        <4> QED
          BY <1>1, <3>1, <3>6, <4>1 DEF SpreadTyped
      <3>9. OutputSpread'
        <4>1. Spread'
          <5>1. e \in (0 .. Len(produced))'
            BY <1>1
          <5> QED
            BY <3>7, <3>8, <5>1 DEF Spread
        <4>2. (Spread => OutputSpread)'
          BY SpreadIs, PTL
        <4> QED
          BY <4>1, <4>2
      <3>10. cexit' = "success" => printed' = produced'
        <4> SUFFICES ASSUME cexit' = "success" PROVE p = produced
          BY <1>1, <3>6
        <4>1. m.s = "dealloc"
          BY <1>1, <1>6
        <4>2. e = Len(produced) /\ m.rest = <<>>
          <5>1. CASE 1 \in 1 .. Len(toC) /\ m.s = toC[1].s /\ m.rest = Tail(toC)
            <6>1. 1 = Len(toC) /\ e = Len(produced)
              BY <3>2, <4>1, <5>1 DEF SpreadTo, Outgoing
            <6>2. Tail(toC) = <<>>
              <7>1. Len(Tail(toC)) = Len(toC) - 1 /\ Tail(toC) \in Seq(Item)
                BY <2>1, HeadTailProperties
              <7>2. ASSUME NEW t \in Seq(Item), Len(t) = 1 - 1 PROVE t = <<>>
                BY <7>2, EmptySeq
              <7> QED
                BY <6>1, <7>1, <7>2, Zenon
            <6> QED
              BY <5>1, <6>1, <6>2
          <5>2. CASE 2 \in 1 .. Len(toC) /\ m.s = toC[2].s /\ m.rest = Tail(Tail(toC))
            <6>1. 2 = Len(toC) /\ e = Len(produced)
              BY <3>2, <4>1, <5>2 DEF SpreadTo, Outgoing
            <6>2. Tail(Tail(toC)) = <<>>
              <7>1. Len(Tail(toC)) = Len(toC) - 1 /\ Tail(toC) \in Seq(Item)
                BY <2>1, HeadTailProperties
              <7>2. ASSUME NEW t \in Seq(Item), Len(t) = 2 - 1 PROVE Tail(t) = <<>>
                <8>1. t # <<>>
                  BY <7>2
                <8>2. Tail(t) \in Seq(Item) /\ Len(Tail(t)) = Len(t) - 1
                  BY <8>1, HeadTailProperties
                <8>3. ASSUME NEW v \in Seq(Item), Len(v) = 1 - 1 PROVE v = <<>>
                  BY <8>3, EmptySeq
                <8>4. Len(t) = 1
                  BY <7>2
                <8> QED
                  BY <8>2, <8>3, <8>4, Zenon
              <7> QED
                BY <6>1, <7>1, <7>2, Zenon
            <6> QED
              BY <5>2, <6>1, <6>2
          <5> QED
            BY <1>2, <2>1, <4>1, <5>1, <5>2, StatusReceived
        <4>3. Len(p) = Len(produced)
          <5>1. Runs(<<>>, produced, Len(p), e) /\ <<>> \in Seq(Item)
            BY <3>4, <4>2
          <5> QED
            BY <3>3, <4>2, <5>1, RunsBounds
        <4> QED
          BY <3>3, <3>4, <4>3, SeqEqual
      <3>11. ArexecInv'
        <4>1. printed' \in Seq(Unit)
          BY <3>4, <3>6
        <4> QED
          BY <1>1, <1>2, <1>3, <2>5, <3>9, <3>10, <4>1 DEF ArexecInv
      <3> QED
        BY <1>1, <1>3, <2>3, <3>11, ArexecRest
    <2> QED
      BY <2>2, <2>4, <2>5
  <1> QED
    BY <1>5, <1>6 DEF Prints, ClientExits

\* What arexecd's steps leave alone once it has the command.
LEMMA ArexecdAnswers ==
    ASSUME ToolsInv, tool = "arexec", UNCHANGED <<atellVars, tool, asked, command, executed, printed, produced, toS>>,
           UNCHANGED <<session, target, tp_version, cpc, cexit, outage, spc>>,
           spc \in {"send", "popen_failed"}, sexit = "running", sexit' \in {"running", "success", "failure", "crashed"},
           toC' \in Seq(Item), spc = "send" => OutputSpread',
           spc = "popen_failed" => \A i \in 1 .. Len(toC') : toC'[i].s # "dealloc"
    PROVE  ToolsInv'
  <1>1. Queues /\ ArexecInv /\ VersionsFirst /\ cpc = "output"
    BY DEF ToolsInv, VersionsFirst, ArexecInv
  <1>2. Queues' /\ VersionsFirst'
    BY <1>1 DEF Queues, VersionsFirst
  <1>3. CommandKept'
    BY <1>1 DEF ArexecInv, CommandKept
  <1>4. ArexecInv'
    BY <1>1, <1>3 DEF ArexecInv
  <1> QED
    BY <1>1, <1>2, <1>4, ArexecRest

\* arexecd sends the reason why a command was not started.
LEMMA PopenFailedPreserves ==
    ASSUME ToolsInv, tool = "arexec", PopenFailed, UNCHANGED <<atellVars, tool>>
    PROVE  ToolsInv'
  <1>1. /\ spc = "popen_failed" /\ sexit = "running" /\ Queues /\ ArexecInv
        /\ UNCHANGED <<session, target, tp_version, cpc, cexit, outage, spc, toS, asked, command, executed, printed, produced>>
    BY DEF ToolsInv, PopenFailed, ServerAt, ServerLeaves, ServerExits, arexecVars
  <1>2. \/ toC' = Sent(toC, Data(<<"error">>)) /\ sexit' = "crashed"
        \/ toC' = toC /\ sexit' = "failure"
    BY DEF PopenFailed, ServerExits
  <1> DEFINE it == [d |-> <<"error">>, s |-> "none"]
  <1>3. it \in Item
    <2>1. <<"error">> \in Seq(Unit)
      BY Units, SeqOfOne, Zenon
    <2> QED
      BY <2>1 DEF Item
  <1>4. toC' = toC \/ toC' = toC \o <<it>>
    BY <1>2 DEF Sent, Data
  <1>5. toC \in Seq(Item) /\ \A i \in 1 .. Len(toC) : toC[i].s # "dealloc"
    BY <1>1 DEF Queues, ArexecInv
  <1>6. it.s # "dealloc"
    OBVIOUS
  <1> HIDE DEF it
  <1>7. toC' \in Seq(Item) /\ \A i \in 1 .. Len(toC') : toC'[i].s # "dealloc"
    BY <1>3, <1>4, <1>5, <1>6
  <1> QED
    BY <1>1, <1>2, <1>7, ArexecdAnswers

\* arexecd sends the output in pieces.
LEMMA SendsOutputPreserves ==
    ASSUME ToolsInv, tool = "arexec", SendsOutput, UNCHANGED <<atellVars, tool>>
    PROVE  ToolsInv'
  <1> DEFINE n == IF Len(output) < ReadSize THEN Len(output) ELSE ReadSize
             u == produced
             o == output
  <1>1. /\ spc = "send" /\ sexit = "running" /\ Queues /\ ArexecInv /\ output # <<>>
        /\ UNCHANGED <<session, target, tp_version, cpc, cexit, outage, spc, toS, asked, command, executed, printed, produced>>
    BY DEF ToolsInv, SendsOutput, ServerAt, ServerLeaves, ServerExits
  <1>2. SpreadTyped /\ \E e \in 0 .. Len(produced) : SpreadTo(e)
    BY <1>1, SpreadIs DEF ArexecInv, Spread
  <1>3. PICK e \in 0 .. Len(produced) : SpreadTo(e)
    BY <1>2
  <1>4. u \in Seq(Unit) /\ printed \in Seq(Unit) /\ o \in Seq(Unit) /\ Len(u) \in Nat /\ Len(o) \in Nat /\ Len(o) <= Len(u)
    BY <1>2, OutputsTyped DEF SpreadTyped
  <1>5. n \in Nat /\ 1 <= n /\ n <= Len(o)
    <2>1. Len(o) # 0
      BY <1>1, <1>4, EmptySeq
    <2> QED
      BY <1>4, <2>1, ArexecAssumption
  <1>6. toC \in Seq(Item)
    BY <1>1 DEF Queues
  <1> DEFINE x == SubSeq(o, 1, n)
             it == [d |-> x, s |-> "none"]
             rest == SubSeq(o, n + 1, Len(o))
  <1>7. \/ toC' = Sent(toC, <<it>>) /\ output' = rest /\ sexit' = sexit
        \/ (Broken \/ ~server_turn) /\ sexit' = "failure" /\ UNCHANGED <<toC, output>>
    BY DEF SendsOutput, ServerExits, Data
  <1> HIDE DEF n
  <1>8. x \in Seq(Unit) /\ Len(x) = n /\ \A j \in 1 .. n : x[j] = o[j]
    BY <1>4, <1>5
  <1>9. rest \in Seq(Unit) /\ Len(rest) = Len(o) - n /\ \A j \in 1 .. Len(o) - n : rest[j] = o[n + j]
    <2>1. ASSUME NEW j \in n + 1 .. Len(o) PROVE o[j] \in Unit
      <3>1. j \in 1 .. Len(o)
        BY <1>4, <1>5
      <3> QED
        BY <1>4, <3>1
    <2>2. rest \in Seq(Unit) /\ Len(rest) = Len(o) - n
      BY <1>4, <1>5, <2>1, SubSeqProperties
    <2>3. \A j \in 1 .. Len(o) - n : rest[j] = o[n + j]
      BY <1>4, <1>5
    <2> QED
      BY <2>2, <2>3
  <1> HIDE DEF x, rest
  <1>10. it \in Item /\ it.d = x /\ it.s = "none" /\ x # <<>>
    BY <1>5, <1>8 DEF Item
  <1> HIDE DEF it
  <1>11. toC \o <<it>> \in Seq(Item)
    BY <1>6, <1>10
  <1>12. \A j \in 1 .. Len(o) : o[j] = u[Len(u) - Len(o) + j]
    BY <1>2 DEF SpreadTyped
  <1>13. CASE sexit' = "failure" /\ UNCHANGED <<toC, output>>
    <2>1. Broken'
      BY <1>13 DEF Broken
    <2>2. Outgoing(toC, e)'
      BY <1>1, <1>3, <1>13 DEF SpreadTo, Outgoing
    <2>3. SpreadTo(e)'
      <3>1. Runs(toC, produced, Len(printed), e)'
        BY <1>1, <1>3, <1>13 DEF SpreadTo
      <3>2. (e \in 0 .. Len(produced))'
        BY <1>1
      <3> QED
        BY <2>1, <2>2, <3>1, <3>2 DEF SpreadTo
    <2>4. SpreadTyped'
      BY <1>1, <1>2, <1>13 DEF SpreadTyped
    <2>5. Spread'
      BY <1>1, <2>3, <2>4 DEF Spread
    <2>6. (Spread => OutputSpread)'
      BY SpreadIs, PTL
    <2> QED
      BY <1>1, <1>6, <1>13, <2>5, <2>6, ArexecdAnswers
  <1>14. CASE toC' = Sent(toC, <<it>>) /\ output' = rest /\ sexit' = sexit
    <2>1. Broken' = Broken
      BY <1>1, <1>14 DEF Broken
    <2>2. SpreadTyped'
      <3>1. Len(rest) <= Len(u)
        BY <1>4, <1>5, <1>9
      <3>2. ASSUME NEW j \in 1 .. Len(rest) PROVE rest[j] = u[Len(u) - Len(rest) + j]
        <4>1. n + j \in 1 .. Len(o) /\ j \in 1 .. Len(o) - n /\ Len(u) - Len(o) + (n + j) = Len(u) - Len(rest) + j
          BY <1>4, <1>5, <1>9
        <4>2. rest[j] = o[n + j]
          BY <1>9, <4>1
        <4>3. o[n + j] = u[Len(u) - Len(o) + (n + j)]
          BY <1>12, <4>1
        <4> QED
          BY <4>1, <4>2, <4>3
      <3>3. output' = rest /\ produced' = u /\ printed' = printed
        BY <1>1, <1>14
      <3> QED
        BY <1>2, <1>9, <3>1, <3>2, <3>3 DEF SpreadTyped
    <2>3. CASE Broken
      <3>1. toC' = toC
        BY <1>14, <2>3 DEF Sent
      <3>2. Outgoing(toC, e)'
        BY <1>1, <1>3, <1>14, <3>1 DEF SpreadTo, Outgoing
      <3>3. Runs(toC, produced, Len(printed), e)'
        BY <1>1, <1>3, <3>1 DEF SpreadTo
      <3>4. (e \in 0 .. Len(produced))'
        BY <1>1
      <3>5. SpreadTo(e)'
        BY <2>1, <2>3, <3>2, <3>3, <3>4 DEF SpreadTo
      <3>6. Spread'
        BY <1>1, <2>2, <3>5 DEF Spread
      <3>7. (Spread => OutputSpread)'
        BY SpreadIs, PTL
      <3> QED
        BY <1>1, <1>6, <1>14, <3>1, <3>6, <3>7, ArexecdAnswers
    <2>4. CASE ~Broken
      <3>1. toC' = toC \o <<it>>
        BY <1>14, <2>4 DEF Sent
      <3>2. e = Len(u) - Len(o)
        BY <1>3, <2>4 DEF SpreadTo
      <3>a. PICK f : f = e + n
        OBVIOUS
      <3>3. f \in 0 .. Len(u) /\ f = Len(u) - Len(rest) /\ e # Len(u)
        BY <1>4, <1>5, <1>9, <3>2, <3>a
      <3>4. Covers(it.d, u, e)
        <4>1. e + n <= Len(u)
          BY <1>4, <1>5, <3>2
        <4>2. ASSUME NEW j \in 1 .. n PROVE u[e + j] = x[j]
          <5>1. j \in 1 .. Len(o)
            BY <1>4, <1>5
          <5>2. o[j] = u[e + j]
            BY <1>12, <3>2, <5>1
          <5> QED
            BY <1>8, <5>2
        <4> QED
          BY <1>8, <1>10, <4>1, <4>2 DEF Covers
      <3>5. Runs(toC \o <<it>>, u, Len(printed), f)
        <4>1. Runs(toC, u, Len(printed), e)
          BY <1>3 DEF SpreadTo
        <4>2. Runs(toC \o <<it>>, u, Len(printed), e + Len(it.d))
          BY <1>4, <1>6, <1>10, <3>4, <4>1, RunsOn
        <4> QED
          BY <1>8, <1>10, <3>a, <4>2
      <3>6. Outgoing(toC \o <<it>>, f)
        <4> SUFFICES ASSUME NEW i \in 1 .. Len(toC \o <<it>>)
                     PROVE  (toC \o <<it>>)[i].s = "none" /\ (toC \o <<it>>)[i].d # <<>>
          BY DEF Outgoing
        <4>1. Len(toC \o <<it>>) = Len(toC) + 1 /\ Len(toC) \in Nat
          BY <1>6, <1>10
        <4>2. CASE i <= Len(toC)
          <5>1. i \in 1 .. Len(toC) /\ (toC \o <<it>>)[i] = toC[i]
            BY <1>6, <4>1, <4>2
          <5>2. toC[i].s = "none" /\ toC[i].d # <<>>
            BY <1>3, <3>3, <5>1 DEF SpreadTo, Outgoing
          <5> QED
            BY <5>1, <5>2
        <4>3. CASE i = Len(toC) + 1
          <5>1. (toC \o <<it>>)[i] = it
            BY <1>6, <4>1, <4>3
          <5> QED
            BY <1>10, <5>1
        <4> QED
          BY <4>1, <4>2, <4>3
      <3>7. Outgoing(toC, f)'
        BY <1>1, <1>14, <3>1, <3>6 DEF Outgoing
      <3>8. SpreadTo(f)'
        <4>1. Runs(toC, produced, Len(printed), f)'
          BY <1>1, <3>1, <3>5
        <4>2. (f \in 0 .. Len(produced))' /\ (f = Len(produced) - Len(output))'
          BY <1>1, <1>14, <3>3
        <4> QED
          BY <3>7, <4>1, <4>2 DEF SpreadTo
      <3>9. Spread'
        <4>1. f \in (0 .. Len(produced))'
          BY <1>1, <3>3
        <4> QED
          BY <2>2, <3>8, <4>1 DEF Spread
      <3>10. (Spread => OutputSpread)'
        BY SpreadIs, PTL
      <3> QED
        BY <1>1, <1>11, <1>14, <3>1, <3>9, <3>10, ArexecdAnswers
    <2> QED
      BY <2>3, <2>4
  <1> QED
    BY <1>7, <1>13, <1>14

\* arexecd deallocates, or gives up.
LEMMA ArexecdEndsPreserves ==
    ASSUME ToolsInv, tool = "arexec", ArexecdEnds, UNCHANGED <<atellVars, tool>>
    PROVE  ToolsInv'
  <1>1. /\ spc = "send" /\ sexit = "running" /\ Queues /\ ArexecInv /\ output = <<>>
        /\ UNCHANGED <<session, target, tp_version, cpc, cexit, outage, spc, toS, asked, command, executed, printed, produced, output>>
    BY DEF ToolsInv, ArexecdEnds, ServerAt, ServerLeaves, ServerExits, arexecVars
  <1>2. SpreadTyped /\ \E e \in 0 .. Len(produced) : SpreadTo(e)
    BY <1>1, SpreadIs DEF ArexecInv, Spread
  <1>3. PICK e \in 0 .. Len(produced) : SpreadTo(e)
    BY <1>2
  <1>4. produced \in Seq(Unit) /\ Len(produced) \in Nat
    BY <1>2, OutputsTyped DEF SpreadTyped
  <1>5. toC \in Seq(Item)
    BY <1>1 DEF Queues
  <1> DEFINE it == [d |-> <<>>, s |-> "dealloc"]
  <1>6. \/ toC' = Sent(toC, <<it>>) /\ sexit' = "success"
        \/ toC' = toC /\ sexit' = "failure"
    BY DEF ArexecdEnds, ServerExits, Stat
  <1>7. it \in Item /\ it.d = <<>> /\ it.s = "dealloc"
    BY DEF Item, Status
  <1> HIDE DEF it
  <1>8. toC \o <<it>> \in Seq(Item) /\ Len(toC \o <<it>>) = Len(toC) + 1 /\ Len(toC) \in Nat
    BY <1>5, <1>7
  <1>9. SpreadTyped'
    BY <1>1, <1>2 DEF SpreadTyped
  <1>10. (Spread => OutputSpread)'
    BY SpreadIs, PTL
  <1>11. CASE toC' = toC
    <2>1. Broken => Broken'
      BY <1>1, <1>6 DEF Broken
    <2>2. Outgoing(toC, e)'
      BY <1>1, <1>3, <1>6, <1>11 DEF SpreadTo, Outgoing
    <2>3. Runs(toC, produced, Len(printed), e)'
      BY <1>1, <1>3, <1>11 DEF SpreadTo
    <2>4. (e \in 0 .. Len(produced))'
      BY <1>1
    <2>5. (Broken \/ e = Len(produced) - Len(output))'
      BY <1>1, <1>3, <2>1 DEF SpreadTo
    <2>6. SpreadTo(e)'
      BY <2>2, <2>3, <2>4, <2>5 DEF SpreadTo
    <2>7. Spread'
      BY <1>1, <1>9, <2>6 DEF Spread
    <2>8. sexit' \in {"running", "success", "failure", "crashed"}
      BY <1>6
    <2> QED
      BY <1>1, <1>5, <1>10, <1>11, <2>7, <2>8, ArexecdAnswers
  <1>12. CASE toC' = toC \o <<it>> /\ sexit' = "success" /\ ~Broken
    <2>1. e = Len(produced) /\ Len(output) = 0
      BY <1>1, <1>3, <1>4, <1>12 DEF SpreadTo
    <2>2. Runs(toC \o <<it>>, produced, Len(printed), e)
      <3>1. Runs(toC, produced, Len(printed), e)
        BY <1>3 DEF SpreadTo
      <3>2. Covers(it.d, produced, e) /\ Len(it.d) = 0 /\ e + 0 = e
        BY <1>4, <1>7, <2>1 DEF Covers
      <3>3. Runs(toC \o <<it>>, produced, Len(printed), e + Len(it.d))
        BY <1>4, <1>5, <1>7, <3>1, <3>2, RunsOn
      <3> QED
        BY <3>2, <3>3
    <2>3. ASSUME NEW i \in 1 .. Len(toC \o <<it>>)
          PROVE  \/ (toC \o <<it>>)[i].s = "none" /\ (toC \o <<it>>)[i].d # <<>>
                 \/ (toC \o <<it>>)[i].s = "dealloc" /\ (toC \o <<it>>)[i].d = <<>> /\ i = Len(toC \o <<it>>)
      <3>1. CASE i <= Len(toC)
        <4>1. i \in 1 .. Len(toC) /\ (toC \o <<it>>)[i] = toC[i]
          BY <1>5, <1>8, <3>1
        <4>2. toC[i].s = "none" /\ toC[i].d # <<>>
          BY <1>1, <1>3, <4>1 DEF SpreadTo, Outgoing
        <4> QED
          BY <4>1, <4>2
      <3>2. CASE i = Len(toC) + 1
        <4>1. (toC \o <<it>>)[i] = it
          BY <1>5, <1>8, <3>2
        <4> QED
          BY <1>7, <1>8, <3>2, <4>1
      <3> QED
        BY <1>8, <3>1, <3>2
    <2>4. Outgoing(toC, e)'
      BY <1>1, <1>12, <2>1, <2>3 DEF Outgoing
    <2>5. Runs(toC, produced, Len(printed), e)'
      BY <1>1, <1>12, <2>2
    <2>6. (e \in 0 .. Len(produced))' /\ (e = Len(produced) - Len(output))'
      BY <1>1, <1>4, <2>1
    <2>7. SpreadTo(e)'
      BY <2>4, <2>5, <2>6 DEF SpreadTo
    <2>8. Spread'
      BY <1>1, <1>9, <2>7 DEF Spread
    <2>9. toC' \in Seq(Item) /\ sexit' \in {"running", "success", "failure", "crashed"}
      BY <1>8, <1>12
    <2> QED
      BY <1>1, <1>10, <2>8, <2>9, ArexecdAnswers
  <1> QED
    BY <1>6, <1>11, <1>12 DEF Sent

\* Every action of arexec and arexecd preserves the invariant.
LEMMA ArexecPreserves ==
    ASSUME ToolsInv, ArexecSteps
    PROVE  ToolsInv'
  <1> USE DEF ArexecSteps
  <1>1. tool = "arexec" /\ ArexecProgram /\ UNCHANGED <<atellVars, tool>>
    OBVIOUS
  <1>2. CASE UNCHANGED arexecVars /\ (Allocates \/ SendsVersion \/ ReceivesVersion("command"))
    <2>1. Idling
      BY <1>1, <1>2 DEF Idling
    <2>2. CASE ReceivesVersion("command")
      BY <1>1, <2>1, <2>2, ReceivesVersionPreserves
    <2> QED
      BY <1>2, <2>1, <2>2, AllocatesPreserves, SendsVersionPreserves
  <1>3. CASE UNCHANGED arexecVars /\ (Accepts \/ ExchangesVersion)
    <2>1. Idling
      BY <1>1, <1>3 DEF Idling
    <2> QED
      BY <1>3, <2>1, AcceptsPreserves, ExchangesVersionPreserves
  <1>4. CASE SendsCommand \/ Prints
    BY <1>1, <1>4, SendsCommandPreserves, PrintsPreserves
  <1>5. CASE CommandReceived \/ PopenFailed \/ SendsOutput \/ ArexecdEnds
    BY <1>1, <1>5, CommandReceivedPreserves, PopenFailedPreserves, SendsOutputPreserves, ArexecdEndsPreserves
  <1> QED
    BY <1>1, <1>2, <1>3, <1>4, <1>5 DEF ArexecProgram

-----------------------------------------------------------------------------
(***************************************************************************)
(* atell and atelld.                                                       *)
(***************************************************************************)
\* What atell's and atelld's own steps leave alone.
LEMMA AtellRest ==
    ASSUME ToolsInv, tool = "atell", UNCHANGED <<session, target, given, tool>>, UNCHANGED arexecVars,
           cpc \notin {"arguments", "allocate"}, cpc' \notin {"arguments", "allocate"},
           Queues', VersionsFirst', AtellInv'
    PROVE  ToolsInv'
  <1>1. asked' = asked /\ tool' = "atell"
    BY DEF arexecVars
  <1>2. ArexecInit'
    BY DEF ToolsInv, ArexecInit, arexecVars
  <1>3. Directed(given.opts, given.dest)'
    BY <1>1, DirectedStays
  <1> QED
    BY <1>1, <1>2, <1>3 DEF ToolsInv

\* The letter changes with the command line and the version only.
LEMMA LetterStays ==
    ASSUME UNCHANGED <<given, tp_version>>
    PROVE  Letter' = Letter /\ Addressee' = Addressee /\ Plain' = Plain
  BY DEF Letter, Addressee, Plain, UseridSupported

\* More of the letter is sent, or lost.
LEMMA LetterGrows ==
    ASSUME MessageKept, Writing, Writing', LetterSpread, UNCHANGED <<given, tp_version, message, userid>>,
           Posted' \in Posted .. Len(Letter), Broken => Broken',
           toS' = IF Broken THEN toS ELSE toS \o SubSeq(Letter, Posted + 1, Posted')
    PROVE  LetterSpread'
  <1>1. Letter' = Letter /\ Addressee' = Addressee
    BY LetterStays
  <1>2. Letter \in Seq(Item) /\ Posted \in 0 .. Len(Letter)
    BY LetterFacts, LetterParts, Zenon
  <1>3. PICK a, b \in 0 .. Posted :
            /\ a <= b /\ (Broken \/ b = Posted) /\ a < Len(Letter)
            /\ toS = SubSeq(Letter, a + 1, b)
            /\ message = IF a = 0 THEN <<>> ELSE given.text
            /\ userid = IF a < 2 THEN <<>> ELSE Addressee
    BY DEF LetterSpread
  <1>4. /\ message' = (IF a = 0 THEN <<>> ELSE given'.text) /\ userid' = (IF a < 2 THEN <<>> ELSE Addressee')
    BY <1>1, <1>3
  <1>5. CASE Broken
    <2>1. a \in 0 .. Posted' /\ b \in 0 .. Posted'
      BY <1>2
    <2>2. toS' = SubSeq(Letter', a + 1, b)
      BY <1>1, <1>3, <1>5
    <2> QED
      BY <1>1, <1>3, <1>4, <1>5, <2>1, <2>2, Zenon DEF LetterSpread
  <1>6. CASE ~Broken
    <2>1. PICK k : k = Posted'
      OBVIOUS
    <2>2. b = Posted /\ k \in 0 .. Posted' /\ a \in 0 .. Posted' /\ a <= k /\ b <= k /\ k <= Len(Letter)
      BY <1>2, <1>3, <1>6, <2>1
    <2>3. toS' = SubSeq(Letter, a + 1, b) \o SubSeq(Letter, b + 1, k)
      BY <1>3, <1>6, <2>1, <2>2
    <2>4. ASSUME NEW q \in Seq(Item), k <= Len(q)
          PROVE  SubSeq(q, a + 1, b) \o SubSeq(q, b + 1, k) = SubSeq(q, a + 1, k)
      <3>0. a \in Nat /\ b \in Nat /\ k \in Nat /\ a <= b /\ b <= k /\ Len(q) \in Nat
        BY <1>2, <1>3, <2>2
      <3>1. \A i \in 1 .. Len(q) : q[i] \in Item
        OBVIOUS
      <3> DEFINE x == SubSeq(q, a + 1, b)
                 y == SubSeq(q, b + 1, k)
                 z == SubSeq(q, a + 1, k)
      <3>2. x \in Seq(Item) /\ Len(x) = b - a /\ \A i \in 1 .. b - a : x[i] = q[a + i]
        BY <2>4, <3>0, <3>1
      <3>3. y \in Seq(Item) /\ Len(y) = k - b /\ \A i \in 1 .. k - b : y[i] = q[b + i]
        BY <2>4, <3>0, <3>1
      <3>4. z \in Seq(Item) /\ Len(z) = k - a /\ \A i \in 1 .. k - a : z[i] = q[a + i]
        BY <2>4, <3>0, <3>1
      <3> HIDE DEF x, y, z
      <3>5. x \o y \in Seq(Item) /\ Len(x \o y) = k - a
        BY <3>0, <3>2, <3>3
      <3>6. ASSUME NEW i \in 1 .. k - a PROVE (x \o y)[i] = z[i]
        <4>1. CASE i <= b - a
          <5>1. (x \o y)[i] = x[i]
            BY <3>0, <3>2, <3>3, <4>1
          <5> QED
            BY <3>0, <3>2, <3>4, <4>1, <5>1
        <4>2. CASE i > b - a
          <5>0. i \in 1 .. Len(x) + Len(y) /\ ~(i <= Len(x)) /\ Len(x) = b - a
            BY <3>0, <3>2, <3>3, <4>2
          <5>1. (x \o y)[i] = y[i - (b - a)]
            <6>1. x \in Seq(Item) /\ y \in Seq(Item)
              BY <3>2, <3>3
            <6>2. \A j \in 1 .. Len(x) + Len(y) : (x \o y)[j] = IF j <= Len(x) THEN x[j] ELSE y[j - Len(x)]
              BY <6>1, ConcatProperties, Zenon
            <6> QED
              BY <5>0, <6>2, Zenon
          <5>2. i - (b - a) \in 1 .. k - b /\ b + (i - (b - a)) = a + i
            BY <3>0, <4>2
          <5>3. y[i - (b - a)] = q[b + (i - (b - a))]
            BY <3>3, <5>2
          <5> QED
            BY <3>4, <5>1, <5>2, <5>3
        <4>3. i <= b - a \/ i > b - a
          BY <3>0
        <4> QED
          BY <4>1, <4>2, <4>3, Zenon
      <3>7. x \o y = z
        BY <3>4, <3>5, <3>6, SeqEqual
      <3> QED
        BY <3>7 DEF x, y, z
    <2>5. toS' = SubSeq(Letter', a + 1, k)
      BY <1>1, <1>2, <2>2, <2>3, <2>4
    <2>6. a < Len(Letter')
      BY <1>1, <1>3
    <2> QED
      BY <1>4, <2>1, <2>2, <2>5, <2>6 DEF LetterSpread
  <1> QED
    BY <1>5, <1>6

\* What atell holds stays when atelld receives.
LEMMA MessageStays ==
    ASSUME MessageKept, UNCHANGED <<given, send_buf, dest_userid>>, cpc # "arguments",
           message' \in Seq(Unit), Len(message') <= MessageSize, userid' \in Seq(Unit), Len(userid') < UseridSize
    PROVE  MessageKept'
  <1>1. Plain' = Plain
    BY DEF Plain
  <1> QED
    BY <1>1 DEF MessageKept

\* atell sends a part of the letter, or finds the conversation broken.
LEMMA AtellSends ==
    ASSUME ToolsInv, tool = "atell", cpc \in {"message", "userid", "deallocate"}, cexit = "running",
           UNCHANGED <<session, target, tp_version, spc, sexit, outage, toC, tool>>, UNCHANGED atellVars, UNCHANGED arexecVars,
           NEW items \in Seq(Item),
           \/ /\ toS' = Sent(toS, items) /\ cexit' = cexit /\ cpc' \in {"userid", "deallocate", "confirm"}
              /\ \A i \in 1 .. Len(items) : \/ items[i].s = "none"
                                            \/ items[i].s = "confirm_dealloc" /\ i = Len(items) /\ cpc' = "confirm"
              /\ Plain => Posted' \in Posted .. Len(Letter) /\ items = SubSeq(Letter, Posted + 1, Posted')
           \/ Broken /\ cexit' = "failure" /\ cpc' = cpc /\ toS' = toS
    PROVE  ToolsInv'
  <1>1. Queues /\ VersionsFirst /\ AtellInv /\ MessageKept /\ Writing /\ Writing'
    BY DEF ToolsInv, AtellInv, Writing
  <1>2. spc \in {"accept", "version", "receive"} /\ toC = <<>> /\ (spc \in {"accept", "version"} => Broken)
    BY <1>1 DEF VersionsFirst, AtellInv
  <1>3. Broken => toS' = toS /\ Broken'
    BY DEF Sent, Broken
  <1>4. toS' = toS \/ toS' = toS \o items
    BY DEF Sent
  <1>5. toS \in Seq(Item) /\ toS' \in Seq(Item)
    <2>1. toS \in Seq(Item)
      BY <1>1 DEF Queues
    <2>2. toS \o items \in Seq(Item)
      BY <2>1, ConcatProperties
    <2> QED
      BY <1>4, <2>1, <2>2
  <1>6. Queues'
    BY <1>1, <1>5 DEF Queues
  <1>7. VersionsFirst'
    BY <1>1, <1>2, <1>3 DEF VersionsFirst
  <1>8. MessageKept'
    BY <1>1, MessageStays DEF atellVars, MessageKept
  <1>9. ASSUME spc = "receive"
        PROVE  \A i \in 1 .. Len(toS') : \/ toS'[i].s = "none"
                                         \/ toS'[i].s = "confirm_dealloc" /\ i = Len(toS') /\ cpc' = "confirm"
    <2>1. \A i \in 1 .. Len(toS) : toS[i].s = "none"
      BY <1>1, <1>9 DEF AtellInv
    <2>2. CASE toS' = toS
      BY <2>1, <2>2
    <2>3. CASE toS' = toS \o items /\ ~(toS' = toS)
      <3>1. \A i \in 1 .. Len(items) : \/ items[i].s = "none"
                                       \/ items[i].s = "confirm_dealloc" /\ i = Len(items) /\ cpc' = "confirm"
        BY <2>3
      <3> SUFFICES ASSUME NEW i \in 1 .. Len(toS \o items)
                   PROVE  \/ (toS \o items)[i].s = "none"
                          \/ (toS \o items)[i].s = "confirm_dealloc" /\ i = Len(toS \o items) /\ cpc' = "confirm"
        BY <2>3
      <3>2. Len(toS \o items) = Len(toS) + Len(items) /\ Len(toS) \in Nat /\ Len(items) \in Nat
        BY <1>5
      <3>3. CASE i <= Len(toS)
        <4>1. i \in 1 .. Len(toS) /\ (toS \o items)[i] = toS[i]
          BY <1>5, <3>2, <3>3
        <4> QED
          BY <2>1, <4>1
      <3>4. CASE i > Len(toS)
        <4> DEFINE k == i - Len(toS)
        <4>1. k \in 1 .. Len(items) /\ (toS \o items)[i] = items[k] /\ (k = Len(items) => i = Len(toS \o items))
          BY <1>5, <3>2, <3>4
        <4> HIDE DEF k
        <4> QED
          BY <3>1, <4>1
      <3>5. i <= Len(toS) \/ i > Len(toS)
        BY <3>2
      <3> QED
        BY <3>3, <3>4, <3>5, Zenon
    <2> QED
      BY <1>4, <2>2, <2>3
  <1>10. ASSUME spc = "receive", Plain PROVE LetterSpread'
    <2>1. LetterSpread
      BY <1>1, <1>10 DEF AtellInv
    <2>2. Letter \in Seq(Item) /\ Posted \in 0 .. Len(Letter) /\ Len(Letter) \in Nat
      BY <1>1, LetterFacts, LetterParts, LenProperties, Zenon
    <2>3. UNCHANGED <<given, tp_version, message, userid>>
      BY DEF atellVars
    <2>4. CASE Broken /\ cexit' = "failure" /\ cpc' = cpc /\ toS' = toS
      <3>1. Posted' = Posted
        BY <2>3, <2>4, LetterStays DEF Posted
      <3>2. Posted' \in Posted .. Len(Letter)
        BY <2>2, <3>1
      <3> QED
        BY <1>1, <1>3, <2>1, <2>3, <2>4, <3>2, LetterGrows
    <2>5. CASE toS' = Sent(toS, items) /\ (Plain => Posted' \in Posted .. Len(Letter) /\ items = SubSeq(Letter, Posted + 1, Posted'))
      <3>1. Posted' \in Posted .. Len(Letter) /\ toS' = IF Broken THEN toS ELSE toS \o SubSeq(Letter, Posted + 1, Posted')
        BY <1>10, <2>5 DEF Sent
      <3> QED
        BY <1>1, <1>3, <2>1, <2>3, <3>1, LetterGrows
    <2> QED
      BY <2>4, <2>5
  <1>11. AtellInv'
    <2>1. cpc' \in {"message", "userid", "deallocate", "confirm"} /\ Plain' = Plain
      BY <1>1, LetterStays DEF atellVars
    <2>2. message' = message /\ userid' = userid /\ shown' = shown
      BY DEF atellVars
    <2>3. ~(cexit' = "success")
      OBVIOUS
    <2> QED
      BY <1>1, <1>2, <1>8, <1>9, <1>10, <2>1, <2>2, <2>3 DEF AtellInv
  <1>12. given' = given
    BY DEF atellVars
  <1> QED
    BY <1>6, <1>7, <1>11, <1>12, AtellRest

\* A part of a sequence that is one element, or none.
LEMMA OnePart ==
    ASSUME NEW q \in Seq(Item), NEW n \in 1 .. Len(q), NEW k \in Nat
    PROVE  SubSeq(q, n, n) = <<q[n]>> /\ SubSeq(q, k + 1, k) = <<>>
  <1>1. q[n] \in Item /\ Len(q) \in Nat
    OBVIOUS
  <1> DEFINE x == SubSeq(q, n, n)
  <1>2. x \in Seq(Item) /\ Len(x) = 1 /\ x[1] = q[n]
    BY <1>1
  <1>3. <<q[n]>> \in Seq(Item) /\ Len(<<q[n]>>) = 1 /\ <<q[n]>>[1] = q[n]
    BY <1>1
  <1> HIDE DEF x
  <1>4. x = <<q[n]>>
    BY <1>2, <1>3, SeqEqual
  <1>5. SubSeq(q, k + 1, k) = <<>>
    OBVIOUS
  <1> QED
    BY <1>4, <1>5 DEF x

\* atell sends its letter, part by part.
LEMMA SendsMessagePreserves ==
    ASSUME ToolsInv, tool = "atell", SendsMessage, UNCHANGED <<arexecVars, tool>>
    PROVE  ToolsInv'
  <1>1. /\ cpc = "message" /\ cexit = "running" /\ AtellInv /\ MessageKept
        /\ UNCHANGED <<session, target, tp_version, spc, sexit, outage, toC, tool>> /\ UNCHANGED atellVars /\ UNCHANGED arexecVars
    BY DEF ToolsInv, SendsMessage, ClientAt, ClientLeaves, AtellInv
  <1>2. \/ toS' = Sent(toS, Data(send_buf)) /\ cpc' = "userid" /\ cexit' = cexit
        \/ Broken /\ cexit' = "failure" /\ cpc' = cpc /\ toS' = toS
    BY DEF SendsMessage, ClientExits
  <1> DEFINE it == [d |-> send_buf, s |-> "none"]
  <1>3. it \in Item /\ Data(send_buf) = <<it>>
    BY <1>1 DEF MessageKept, Item, Data
  <1>4. it.s = "none" /\ <<it>> \in Seq(Item) /\ Len(<<it>>) = 1 /\ <<it>>[1] = it
    BY <1>3
  <1>5. ASSUME Plain, cpc' = "userid" PROVE Posted' \in Posted .. Len(Letter) /\ <<it>> = SubSeq(Letter, Posted + 1, Posted')
    <2>1. Posted = 0 /\ Posted' = 1 /\ 0 + 1 = 1
      BY <1>1, <1>5 DEF Posted
    <2>2. Letter \in Seq(Item) /\ Len(Letter) \in {2, 3} /\ Letter[1] = FirstPart
      BY <1>1, LetterFacts, LetterParts, Zenon
    <2>3. it = Letter[1]
      BY <1>1, <1>5, <2>2 DEF MessageKept, FirstPart
    <2>4. 1 \in 1 .. Len(Letter) /\ 1 \in 0 .. Len(Letter) /\ 0 \in Nat
      BY <2>2
    <2>5. SubSeq(Letter, 1, 1) = <<Letter[1]>>
      BY <2>2, <2>4, OnePart
    <2> QED
      BY <2>1, <2>3, <2>4, <2>5, Zenon
  <1> HIDE DEF it
  <1>6. \/ /\ toS' = Sent(toS, <<it>>) /\ cexit' = cexit /\ cpc' \in {"userid", "deallocate", "confirm"}
           /\ \A i \in 1 .. Len(<<it>>) : \/ <<it>>[i].s = "none"
                                          \/ <<it>>[i].s = "confirm_dealloc" /\ i = Len(<<it>>) /\ cpc' = "confirm"
           /\ Plain => Posted' \in Posted .. Len(Letter) /\ <<it>> = SubSeq(Letter, Posted + 1, Posted')
        \/ Broken /\ cexit' = "failure" /\ cpc' = cpc /\ toS' = toS
    BY <1>2, <1>3, <1>4, <1>5
  <1> QED
    BY <1>1, <1>4, <1>6, AtellSends

LEMMA SendsUseridPreserves ==
    ASSUME ToolsInv, tool = "atell", SendsUserid, UNCHANGED <<arexecVars, tool>>
    PROVE  ToolsInv'
  <1>1. /\ cpc = "userid" /\ cexit = "running" /\ AtellInv /\ MessageKept
        /\ UNCHANGED <<session, target, tp_version, spc, sexit, outage, toC, tool>> /\ UNCHANGED atellVars /\ UNCHANGED arexecVars
    BY DEF ToolsInv, SendsUserid, ClientAt, ClientLeaves, AtellInv
  <1> DEFINE it == [d |-> dest_userid, s |-> "none"]
             c == dest_userid # <<>> /\ UseridSupported
  <1>2. \/ c /\ toS' = Sent(toS, <<it>>) /\ cpc' = "deallocate" /\ cexit' = cexit
        \/ ~c /\ toS' = toS /\ cpc' = "deallocate" /\ cexit' = cexit
        \/ Broken /\ cexit' = "failure" /\ cpc' = cpc /\ toS' = toS
    BY DEF SendsUserid, ClientExits, Data
  <1>3. it \in Item
    BY <1>1 DEF MessageKept, Item
  <1>4. it.s = "none" /\ <<it>> \in Seq(Item) /\ Len(<<it>>) = 1 /\ <<it>>[1] = it
    BY <1>3
  <1>5. Letter \in Seq(Item) /\ Len(Letter) = (IF Addressee = <<>> THEN 2 ELSE 3) /\ (Addressee # <<>> => Letter[2] = SecondPart)
    BY <1>1, LetterFacts, LetterParts, Zenon
  <1>6. Plain => (c <=> Addressee # <<>>) /\ (c => dest_userid = Addressee)
    BY <1>1 DEF MessageKept, Addressee
  <1>7. Posted = 1 /\ (cpc' = "deallocate" => Posted' = Len(Letter) - 1)
    <2>1. Letter' = Letter
      BY <1>1, LetterStays DEF atellVars
    <2> QED
      BY <1>1, <2>1 DEF Posted
  <1>8. CASE c /\ toS' = Sent(toS, <<it>>) /\ cpc' = "deallocate" /\ cexit' = cexit
    <2>1. ASSUME Plain PROVE Posted' \in Posted .. Len(Letter) /\ <<it>> = SubSeq(Letter, Posted + 1, Posted')
      <3>1. Len(Letter) = 3 /\ Letter[2] = SecondPart /\ it = SecondPart /\ Posted' = 2 /\ 1 + 1 = 2
        BY <1>5, <1>6, <1>7, <1>8, <2>1 DEF SecondPart
      <3>2. 2 \in 1 .. Len(Letter) /\ 2 \in 1 .. 3 /\ 2 \in Nat
        BY <3>1
      <3>3. SubSeq(Letter, 2, 2) = <<Letter[2]>>
        BY <1>5, <3>2, OnePart
      <3> HIDE DEF it
      <3> QED
        BY <1>7, <3>1, <3>2, <3>3, Zenon
    <2> HIDE DEF it
    <2>2. \A i \in 1 .. Len(<<it>>) : <<it>>[i].s = "none"
      BY <1>4
    <2> QED
      BY <1>1, <1>4, <1>8, <2>1, <2>2, AtellSends
  <1>9. CASE ~c /\ toS' = toS /\ cpc' = "deallocate" /\ cexit' = cexit
    <2>1. <<>> \in Seq(Item) /\ Len(<<>>) = 0 /\ \A i \in 1 .. Len(<<>>) : FALSE
      OBVIOUS
    <2>2. toS' = Sent(toS, <<>>)
      <3>1. toS \in Seq(Item)
        BY DEF ToolsInv, Queues
      <3>2. toS \o <<>> = toS
        BY <3>1, ConcatEmptySeq
      <3> QED
        BY <1>9, <3>2 DEF Sent
    <2>3. ASSUME Plain PROVE Posted' \in Posted .. Len(Letter) /\ <<>> = SubSeq(Letter, Posted + 1, Posted')
      <3>1. Len(Letter) = 2 /\ Posted' = 1 /\ 1 \in 1 .. 2 /\ 1 \in Nat
        BY <1>5, <1>6, <1>7, <1>9, <2>3
      <3>2. SubSeq(Letter, 1 + 1, 1) = <<>>
        BY <1>5, <3>1, OnePart
      <3> QED
        BY <1>7, <3>1, <3>2, Zenon
    <2> QED
      BY <1>1, <1>9, <2>1, <2>2, <2>3, AtellSends
  <1>10. CASE Broken /\ cexit' = "failure" /\ cpc' = cpc /\ toS' = toS
    <2>1. <<>> \in Seq(Item)
      OBVIOUS
    <2> QED
      BY <1>1, <1>10, <2>1, AtellSends
  <1> QED
    BY <1>2, <1>8, <1>9, <1>10

LEMMA DeallocatesPreserves ==
    ASSUME ToolsInv, tool = "atell", Deallocates, UNCHANGED <<arexecVars, tool>>
    PROVE  ToolsInv'
  <1>1. /\ cpc = "deallocate" /\ cexit = "running" /\ AtellInv /\ MessageKept /\ cpc' = "confirm" /\ cexit' = cexit
        /\ UNCHANGED <<session, target, tp_version, spc, sexit, outage, toC, tool>> /\ UNCHANGED atellVars /\ UNCHANGED arexecVars
        /\ toS' = Sent(toS, <<LastPart>>)
    BY DEF ToolsInv, Deallocates, ClientAt, ClientLeaves, AtellInv, Stat, LastPart
  <1>2. Letter \in Seq(Item) /\ Len(Letter) \in {2, 3} /\ Letter[Len(Letter)] = LastPart /\ LastPart \in Item
    BY <1>1, LetterFacts, LetterParts, Zenon
  <1>3. Posted = Len(Letter) - 1 /\ Posted' = Len(Letter)
    <2>1. Letter' = Letter
      BY <1>1, LetterStays DEF atellVars
    <2> QED
      BY <1>1, <2>1 DEF Posted
  <1>4. Posted' \in Posted .. Len(Letter) /\ <<LastPart>> = SubSeq(Letter, Posted + 1, Posted')
    <2>1. Posted' \in Posted .. Len(Letter) /\ Posted + 1 = Len(Letter) /\ Len(Letter) \in 1 .. Len(Letter) /\ Len(Letter) \in Nat
      BY <1>2, <1>3
    <2>2. SubSeq(Letter, Len(Letter), Len(Letter)) = <<Letter[Len(Letter)]>>
      BY <1>2, <2>1, OnePart
    <2> QED
      BY <1>2, <1>3, <2>1, <2>2, Zenon
  <1>5. LastPart.s = "confirm_dealloc"
    BY DEF LastPart
  <1>6. /\ <<LastPart>> \in Seq(Item)
        /\ \A i \in 1 .. Len(<<LastPart>>) : <<LastPart>>[i].s = "confirm_dealloc" /\ i = Len(<<LastPart>>)
    BY <1>2, <1>5
  <1> QED
    BY <1>1, <1>4, <1>6, AtellSends

\* atell learns how its message fared.
LEMMA AtellEndsPreserves ==
    ASSUME ToolsInv, tool = "atell", AtellEnds, UNCHANGED <<arexecVars, tool>>
    PROVE  ToolsInv'
  <1>1. /\ cpc = "confirm" /\ cpc' = "confirm" /\ cexit = "running" /\ Queues /\ VersionsFirst /\ AtellInv /\ MessageKept
        /\ UNCHANGED <<session, target, tp_version, spc, sexit, outage, toS, tool>> /\ UNCHANGED atellVars /\ UNCHANGED arexecVars
    BY DEF ToolsInv, AtellEnds, ClientAt, ClientLeaves, AtellInv, ClientExits
  <1>2. UNCHANGED <<given, send_buf, dest_userid, message, userid, shown>>
    BY <1>1 DEF atellVars
  <1>3. Letter' = Letter /\ Addressee' = Addressee /\ Plain' = Plain /\ Posted' = Posted /\ Writing' = Writing
    BY <1>1, <1>2, LetterStays DEF Posted, Writing
  <1>4. MessageKept' /\ Shows' = Shows
    BY <1>1, <1>2, MessageStays DEF MessageKept, Shows
  <1>5. CASE Broken /\ cexit' = "failure" /\ toC' = toC
    <2>1. Broken'
      BY <1>5 DEF Broken
    <2>2. Queues' /\ VersionsFirst'
      BY <1>1, <1>5, <2>1 DEF Queues, VersionsFirst
    <2>3. LetterSpread => LetterSpread'
      BY <1>1, <1>2, <1>3, <2>1 DEF LetterSpread
    <2>4. AtellInv'
      BY <1>1, <1>2, <1>3, <1>4, <1>5, <2>3 DEF AtellInv
    <2> QED
      BY <1>1, <1>2, <2>2, <2>4, AtellRest
  <1>6. ASSUME NEW m \in cmrcv(toC, 1), m.s = "confirmed", toC' = m.rest, cexit' = "success"
        PROVE  ToolsInv'
    <2>1. toC \in Seq(Item) /\ toC # <<>>
      BY <1>1 DEF cmrcv, Queues
    <2>2. toC = Stat("confirmed") /\ spc = "confirmed" /\ sexit # "running"
      BY <1>1, <2>1 DEF VersionsFirst, AtellInv
    <2>3. toC' = <<>>
      <3>1. toC = <<[d |-> <<>>, s |-> "confirmed"]>>
        BY <2>2 DEF Stat
      <3>2. \/ Len(toC[1].d) > 1
            \/ m.rest = Tail(toC)
            \/ Len(toC) >= 2
        <4>1. 1 \in Nat \ {0}
          OBVIOUS
        <4>2. \A x \in cmrcv(toC, 1) : Len(toC[1].d) > 1 \/ x.rest = Tail(toC) \/ Len(toC) >= 2
          BY <2>1, <4>1, Received
        <4> QED
          BY <4>2, Zenon
      <3>3. ~(Len(toC[1].d) > 1) /\ ~(Len(toC) >= 2) /\ Tail(toC) = <<>>
        BY <3>1
      <3> QED
        BY <1>6, <3>2, <3>3, Zenon
    <2>4. Queues' /\ VersionsFirst'
      BY <1>1, <1>6, <2>2, <2>3 DEF Queues, VersionsFirst
    <2>5. AtellInv'
      BY <1>1, <1>2, <1>3, <1>4, <1>6, <2>2, <2>3 DEF AtellInv
    <2> QED
      BY <1>1, <1>2, <2>4, <2>5, AtellRest
  <1> QED
    BY <1>5, <1>6 DEF AtellEnds, ClientExits

\* atelld shows the message and confirms it.
LEMMA DisplayPreserves ==
    ASSUME ToolsInv, tool = "atell", NEW tty, DisplayMessage(tty), UNCHANGED <<arexecVars, tool>>
    PROVE  ToolsInv'
  <1>1. /\ spc = "display" /\ spc' = "confirmed" /\ sexit = "running" /\ Queues /\ VersionsFirst /\ AtellInv /\ MessageKept
        /\ UNCHANGED <<session, target, tp_version, cpc, cexit, outage, sexit, toS, toC, given, send_buf, dest_userid, message, userid>>
        /\ cpc = "confirm" /\ toS = <<>> /\ toC = <<>> /\ shown = <<>>
    BY DEF ToolsInv, DisplayMessage, ServerAt, ServerLeaves, AtellInv
  <1>2. shown' = <<[text |-> message, user |-> userid, tty |-> tty]>>
    BY <1>1 DEF DisplayMessage
  <1>3. Shows'
    <2>1. tty \in {<<"stderr">>, <<"console">>, userid} /\ (tty = <<"console">> => userid = <<>> \/ userid = tty)
      <3>1. <<"stderr">> # <<"console">>
        OBVIOUS
      <3> QED
        BY <3>1, Zenon DEF DisplayMessage
    <2> QED
      BY <1>1, <1>2, <2>1, Zenon DEF Shows
  <1>4. Letter' = Letter /\ Addressee' = Addressee /\ Plain' = Plain
    BY <1>1, LetterStays
  <1>5. MessageKept'
    BY <1>1, MessageStays DEF MessageKept
  <1>6. Queues' /\ VersionsFirst'
    BY <1>1 DEF Queues, VersionsFirst
  <1>7. cexit # "success"
    BY <1>1 DEF AtellInv
  <1>8. AtellInv'
    BY <1>1, <1>3, <1>4, <1>5, <1>7 DEF AtellInv
  <1> QED
    BY <1>1, <1>6, <1>8, AtellRest

LEMMA ConfirmsPreserves ==
    ASSUME ToolsInv, tool = "atell", Confirms, UNCHANGED <<arexecVars, tool>>
    PROVE  ToolsInv'
  <1>1. /\ spc = "confirmed" /\ spc' = spc /\ sexit = "running" /\ Queues /\ VersionsFirst /\ AtellInv /\ MessageKept
        /\ UNCHANGED <<session, target, tp_version, cpc, cexit, outage, toS>>
        /\ UNCHANGED <<given, send_buf, dest_userid, message, userid, shown>>
        /\ cpc = "confirm" /\ toS = <<>> /\ toC = <<>>
    BY DEF ToolsInv, Confirms, ServerAt, ServerLeaves, ServerExits, AtellInv, atellVars
  <1>2. toC' \in {<<>>, Stat("confirmed")} /\ sexit' \in {"success", "failure"}
    <2>1. <<>> \o Stat("confirmed") = Stat("confirmed")
      BY DEF Stat
    <2> QED
      BY <1>1, <2>1 DEF Confirms, ServerExits, Sent
  <1>3. Letter' = Letter /\ Addressee' = Addressee /\ Plain' = Plain /\ Shows' = Shows
    BY <1>1, LetterStays DEF Shows
  <1>4. MessageKept'
    BY <1>1, MessageStays DEF MessageKept
  <1>5. Queues' /\ VersionsFirst'
    <2>1. Stat("confirmed") \in Seq(Item) /\ <<>> \in Seq(Item)
      BY DEF Stat, Item, Status
    <2>2. toC' \in Seq(Item)
      BY <1>2, <2>1, Zenon
    <2> QED
      BY <1>1, <1>2, <2>2 DEF Queues, VersionsFirst
  <1>6. AtellInv'
    BY <1>1, <1>2, <1>3, <1>4 DEF AtellInv
  <1> QED
    BY <1>1, <1>5, <1>6, AtellRest

\* The part of a user's name that atelld's buffer holds.
Kept(x) == SubSeq(x, 1, IF Len(x) < UseridSize THEN Len(x) ELSE UseridSize - 1)

\* A user id is cut to its field.
LEMMA KeptTyped ==
    ASSUME NEW x \in Seq(Unit)
    PROVE  /\ Kept(x) \in Seq(Unit) /\ Len(Kept(x)) \in Nat /\ Len(Kept(x)) < UseridSize
           /\ Len(x) < UseridSize => Kept(x) = x
  <1> DEFINE n == IF Len(x) < UseridSize THEN Len(x) ELSE UseridSize - 1
  <1>1. n \in Nat /\ n <= Len(x) /\ n < UseridSize /\ (Len(x) < UseridSize => n = Len(x))
    BY AtellAssumption
  <1>2. Kept(x) = SubSeq(x, 1, n)
    BY DEF Kept
  <1> HIDE DEF n
  <1>3. SubSeq(x, 1, n) \in Seq(Unit) /\ Len(SubSeq(x, 1, n)) = n /\ \A i \in 1 .. n : SubSeq(x, 1, n)[i] = x[i]
    BY <1>1
  <1>4. n = Len(x) => SubSeq(x, 1, n) = x
    BY <1>3, SeqEqual
  <1> QED
    BY <1>1, <1>2, <1>3, <1>4

\* The tail of a part of a sequence.
LEMMA TailOfPart ==
    ASSUME NEW q \in Seq(Item), NEW a \in Nat, NEW b \in Nat, a < b, b <= Len(q)
    PROVE  /\ SubSeq(q, a + 1, b)[1] = q[a + 1] /\ Len(SubSeq(q, a + 1, b)) = b - a
           /\ Tail(SubSeq(q, a + 1, b)) = SubSeq(q, (a + 1) + 1, b)
           /\ a + 1 < b => SubSeq(q, a + 1, b)[2] = q[(a + 1) + 1]
  <1>1. \A i \in 1 .. Len(q) : q[i] \in Item
    OBVIOUS
  <1> DEFINE x == SubSeq(q, a + 1, b)
             y == SubSeq(q, (a + 1) + 1, b)
  <1>2. x \in Seq(Item) /\ Len(x) = b - a /\ \A i \in 1 .. b - a : x[i] = q[a + i]
    BY <1>1
  <1>3. y \in Seq(Item) /\ Len(y) = (b - a) - 1 /\ \A i \in 1 .. (b - a) - 1 : y[i] = q[(a + 1) + i]
    BY <1>1
  <1> HIDE DEF x, y
  <1>4. x # <<>>
    BY <1>2
  <1>5. Tail(x) \in Seq(Item) /\ Len(Tail(x)) = (b - a) - 1 /\ \A i \in 1 .. (b - a) - 1 : Tail(x)[i] = x[i + 1]
    BY <1>2, <1>4
  <1>6. ASSUME NEW i \in 1 .. (b - a) - 1 PROVE Tail(x)[i] = y[i]
    <2>1. i + 1 \in 1 .. b - a /\ a + (i + 1) = (a + 1) + i
      OBVIOUS
    <2>2. Tail(x)[i] = x[i + 1] /\ x[i + 1] = q[a + (i + 1)] /\ y[i] = q[(a + 1) + i]
      BY <1>2, <1>3, <1>5, <2>1
    <2> QED
      BY <2>1, <2>2
  <1>7. Tail(x) = y
    <2> DEFINE t == Tail(x)
    <2>1. t \in Seq(Item) /\ Len(t) = (b - a) - 1 /\ \A i \in 1 .. (b - a) - 1 : t[i] = y[i]
      BY <1>5, <1>6
    <2> HIDE DEF t
    <2>2. t = y
      BY <1>3, <2>1, SeqEqual
    <2> QED
      BY <2>2 DEF t
  <1>8. x[1] = q[a + 1] /\ (a + 1 < b => x[2] = q[(a + 1) + 1])
    BY <1>2
  <1> QED
    BY <1>2, <1>7, <1>8 DEF x, y

\* A record that fits is received whole.
LEMMA WholeReceived ==
    ASSUME NEW q \in Seq(Item), NEW max \in Nat \ {0}, NEW m \in cmrcv(q, max)
    PROVE  \/ Len(q[1].d) > max
           \/ m.d = q[1].d /\ m.s = q[1].s /\ m.rest = Tail(q)
           \/ m.d = q[1].d /\ q[1].d # <<>> /\ Len(q) >= 2 /\ q[2].d = <<>> /\ m.s = q[2].s
  <1>1. /\ q # <<>> /\ m.d \in Seq(Unit) /\ Len(m.d) <= max /\ m.rest \in Seq(Item)
        /\ \/ /\ Len(q[1].d) > max /\ m.d = SubSeq(q[1].d, 1, max) /\ m.s = "none"
              /\ m.rest = Data(SubSeq(q[1].d, max + 1, Len(q[1].d))) \o Tail(q)
           \/ Len(q[1].d) <= max /\ m.d = q[1].d /\ m.s = q[1].s /\ m.rest = Tail(q)
           \/ /\ Len(q[1].d) <= max /\ m.d = q[1].d /\ q[1].d # <<>> /\ Len(q) >= 2 /\ q[2].d = <<>>
              /\ m.s = q[2].s /\ m.rest = Tail(Tail(q))
    BY Received
  <1> QED
    BY <1>1, Zenon

\* What atelld receives of a letter: a is how much it had, k how much it has.
LEMMA LetterReceived ==
    ASSUME MessageKept, Plain, NEW a \in Nat, NEW b \in Nat, a <= b, b <= Len(Letter), a < Len(Letter),
           toS = SubSeq(Letter, a + 1, b), NEW m \in cmrcv(toS, MessageSize),
           message = IF a = 0 THEN <<>> ELSE given.text,
           userid = IF a < 2 THEN <<>> ELSE Addressee
    PROVE  LET msg == IF message = <<>> THEN Text(m.d) ELSE message
               usr == IF message # <<>> /\ userid = <<>> THEN Kept(Text(m.d)) ELSE userid
           IN  /\ msg = given.text
               /\ \/ m.s = "confirm_dealloc" /\ usr = Addressee
                  \/ /\ m.s = "none" /\ a + 1 <= b /\ a + 1 < Len(Letter)
                     /\ m.rest = SubSeq(Letter, (a + 1) + 1, b)
                     /\ usr = IF a + 1 < 2 THEN <<>> ELSE Addressee
  <1> DEFINE q == toS
             msg == IF message = <<>> THEN Text(m.d) ELSE message
             usr == IF message # <<>> /\ userid = <<>> THEN Kept(Text(m.d)) ELSE userid
  <1>1. /\ Letter \in Seq(Item) /\ Len(Letter) = (IF Addressee = <<>> THEN 2 ELSE 3)
        /\ Letter[1] = FirstPart /\ Letter[Len(Letter)] = LastPart /\ (Addressee # <<>> => Letter[2] = SecondPart)
        /\ Addressee \in Seq(Unit)
    BY LetterFacts, LetterParts, Zenon
  <1>2. MessageSize \in Nat \ {0} /\ UseridSize \in Nat /\ UseridSize <= MessageSize
    BY AtellAssumption
  <1>3. q \in Seq(Item)
    <2>1. \A i \in 1 .. Len(Letter) : Letter[i] \in Item
      BY <1>1
    <2>2. Len(Letter) \in Nat
      BY <1>1
    <2>3. \A i \in a + 1 .. b : Letter[i] \in Item
      BY <2>1, <2>2
    <2> HIDE DEF q
    <2>4. SubSeq(Letter, a + 1, b) \in Seq(Item)
      BY <1>1, <2>2, <2>3, SubSeqProperties
    <2> QED
      BY <2>4 DEF q
  <1>4. q # <<>>
    BY DEF cmrcv
  <1>5. a < b
    <2>1. ASSUME a = b PROVE FALSE
      <3>1. ASSUME NEW l \in Seq(Item) PROVE SubSeq(l, a + 1, a) = <<>>
        OBVIOUS
      <3> QED
        BY <1>1, <1>4, <2>1, <3>1, Zenon
    <2> QED
      BY <2>1
  <1>6. /\ q[1] = Letter[a + 1] /\ Len(q) = b - a /\ Tail(q) = SubSeq(Letter, (a + 1) + 1, b)
        /\ a + 1 < b => q[2] = Letter[(a + 1) + 1]
    BY <1>1, <1>5, TailOfPart
  <1>7. \/ Len(q[1].d) > MessageSize
        \/ m.d = q[1].d /\ m.s = q[1].s /\ m.rest = Tail(q)
        \/ m.d = q[1].d /\ q[1].d # <<>> /\ Len(q) >= 2 /\ q[2].d = <<>> /\ m.s = q[2].s
    <2>1. m \in cmrcv(q, MessageSize)
      OBVIOUS
    <2> HIDE DEF q
    <2> QED
      BY <1>2, <1>3, <2>1, WholeReceived
  <1>8. /\ given.text \in Seq(Unit) /\ given.text # <<>> /\ Len(given.text) + 1 < MessageSize /\ Len(given.text) \in Nat
        /\ Text(given.text \o <<Nul>>) = given.text /\ Len(given.text \o <<Nul>>) = Len(given.text) + 1
    <2>1. given.text \in Seq(Unit) /\ \A i \in DOMAIN given.text : given.text[i] # Nul
      BY DEF MessageKept
    <2> QED
      BY <2>1, TextOfString DEF Plain
  <1>9. Len(Addressee) < UseridSize /\ Text(Addressee) = Addressee /\ Kept(Addressee) = Addressee /\ Len(Addressee) \in Nat
    <2>1. \A i \in DOMAIN Addressee : Addressee[i] # Nul
      BY DEF MessageKept, Addressee
    <2>2. Len(Addressee) < UseridSize
      BY AtellAssumption DEF Plain, Addressee
    <2>3. Text(Addressee) = Addressee
      BY <1>1, <2>1, TextOfString
    <2> QED
      BY <1>1, <2>2, <2>3, KeptTyped
  <1> HIDE DEF q
  <1>10. LastPart.d = <<>> /\ LastPart.s = "confirm_dealloc"
    BY DEF LastPart
  <1>11. CASE a = 0
    <2>1. message = <<>> /\ msg = Text(m.d) /\ usr = <<>>
      BY <1>11
    <2>2. q[1] = FirstPart
      BY <1>1, <1>6, <1>11
    <2>3. q[1].d = given.text \o <<Nul>> /\ q[1].s = "none"
      BY <2>2 DEF FirstPart
    <2>4. ~(Len(q[1].d) > MessageSize)
      BY <1>2, <1>8, <2>3
    <2>5. m.d = q[1].d
      BY <1>7, <2>4
    <2>6. msg = given.text
      BY <1>8, <2>1, <2>3, <2>5, Zenon
    <2>7. CASE m.s = q[1].s /\ m.rest = Tail(q)
      <3>1. a + 1 <= b /\ a + 1 < Len(Letter) /\ a + 1 < 2
        BY <1>1, <1>5, <1>11
      <3> QED
        BY <1>6, <2>1, <2>3, <2>6, <2>7, <3>1
    <2>8. CASE Len(q) >= 2 /\ q[2].d = <<>> /\ m.s = q[2].s
      <3>1. a + 1 < b /\ (a + 1) + 1 = 2
        BY <1>6, <1>11, <2>8
      <3>2. q[2] = Letter[2]
        BY <1>6, <3>1
      <3>3. Addressee = <<>>
        <4>1. ASSUME Addressee # <<>> PROVE FALSE
          <5>1. q[2].d = Addressee
            BY <1>1, <3>2, <4>1 DEF SecondPart
          <5> QED
            BY <2>8, <4>1, <5>1
        <4> QED
          BY <4>1
      <3>4. m.s = "confirm_dealloc"
        BY <1>1, <1>10, <2>8, <3>2, <3>3
      <3> QED
        BY <2>1, <2>6, <3>3, <3>4
    <2> QED
      BY <1>7, <2>4, <2>7, <2>8
  <1>12. CASE a # 0
    <2>1. message = given.text /\ msg = given.text /\ message # <<>>
      BY <1>8, <1>12
    <2>2. CASE a = 1 /\ Addressee # <<>>
      <3>1. userid = <<>> /\ usr = Kept(Text(m.d)) /\ a + 1 = 2 /\ (a + 1) + 1 = 3
        BY <2>1, <2>2
      <3>2. q[1] = SecondPart
        BY <1>1, <1>6, <2>2, <3>1
      <3>3. q[1].d = Addressee /\ q[1].s = "none"
        BY <3>2 DEF SecondPart
      <3>4. ~(Len(q[1].d) > MessageSize)
        BY <1>2, <1>9, <3>3
      <3>5. m.d = Addressee
        BY <1>7, <3>3, <3>4
      <3>6. usr = Addressee
        BY <1>9, <3>1, <3>5, Zenon
      <3>7. CASE m.s = q[1].s /\ m.rest = Tail(q)
        <4>1. a + 1 <= b /\ a + 1 < Len(Letter) /\ ~(a + 1 < 2)
          BY <1>1, <1>5, <2>2
        <4> QED
          BY <1>6, <2>1, <3>3, <3>6, <3>7, <4>1
      <3>8. CASE Len(q) >= 2 /\ q[2].d = <<>> /\ m.s = q[2].s
        <4>1. a + 1 < b /\ Len(Letter) = 3
          BY <1>1, <1>6, <2>2, <3>8
        <4>2. q[2] = LastPart
          BY <1>1, <1>6, <3>1, <4>1
        <4> QED
          BY <1>10, <2>1, <3>6, <3>8, <4>2
      <3> QED
        BY <1>7, <3>4, <3>7, <3>8
    <2>3. CASE ~(a = 1 /\ Addressee # <<>>)
      <3>1. a + 1 = Len(Letter)
        BY <1>1, <1>12, <2>3
      <3>2. q[1] = LastPart
        BY <1>1, <1>6, <3>1
      <3>3. ~(Len(q[1].d) > MessageSize)
        BY <1>2, <1>10, <3>2
      <3>4. m.d = <<>> /\ m.s = "confirm_dealloc"
        BY <1>7, <1>10, <3>2, <3>3
      <3>5. usr = Addressee
        <4>1. CASE Addressee = <<>>
          <5>1. userid = <<>>
            BY <4>1
          <5>2. usr = Kept(Text(<<>>))
            BY <2>1, <3>4, <5>1
          <5> QED
            BY <1>9, <4>1, <5>2, Zenon
        <4>2. CASE Addressee # <<>>
          <5>1. ~(a < 2)
            BY <1>1, <3>1, <4>2
          <5> QED
            BY <4>2, <5>1
        <4> QED
          BY <4>1, <4>2
      <3> QED
        BY <2>1, <3>4, <3>5
    <2> QED
      BY <2>2, <2>3
  <1> QED
    BY <1>11, <1>12

\* atelld takes a part of the letter: the text, the user or the end.
LEMMA MessageReceivedPreserves ==
    ASSUME ToolsInv, tool = "atell", MessageReceived, UNCHANGED <<arexecVars, tool>>
    PROVE  ToolsInv'
  <1>1. /\ spc = "receive" /\ sexit = "running" /\ Queues /\ VersionsFirst /\ AtellInv /\ MessageKept
        /\ UNCHANGED <<session, target, tp_version, cpc, cexit, outage, toC, given, send_buf, dest_userid, shown>>
        /\ cpc \notin {"arguments", "allocate", "version"} /\ shown = <<>>
    BY DEF ToolsInv, MessageReceived, ServerAt, ServerLeaves, AtellInv, VersionsFirst
  <1>2. Letter' = Letter /\ Addressee' = Addressee /\ Plain' = Plain /\ Posted' = Posted /\ Writing' = Writing
    BY <1>1, LetterStays DEF Posted, Writing
  <1>3. ~(cexit = "success" /\ cpc = "confirm")
    BY <1>1 DEF AtellInv
  <1>4. CASE Broken /\ sexit' = "failure" /\ spc' = spc /\ UNCHANGED <<toS, message, userid>>
    <2>1. Broken' /\ Queues'
      BY <1>1, <1>4 DEF Broken, Queues
    <2>2. VersionsFirst'
      BY <1>1, <1>4, <2>1 DEF VersionsFirst
    <2>3. MessageKept'
      BY <1>1, <1>4, MessageStays DEF MessageKept
    <2>4. LetterSpread => LetterSpread'
      BY <1>1, <1>2, <1>4, <2>1 DEF LetterSpread
    <2>5. AtellInv'
      BY <1>1, <1>2, <1>3, <1>4, <2>3, <2>4 DEF AtellInv
    <2> QED
      BY <1>1, <2>1, <2>2, <2>5, AtellRest
  <1>5. ASSUME NEW m \in cmrcv(toS, MessageSize), toS' = m.rest, sexit' = sexit,
               message' = IF message = <<>> THEN Text(m.d) ELSE message,
               userid' = IF message # <<>> /\ userid = <<>> THEN Kept(Text(m.d)) ELSE userid,
               spc' = IF m.s = "confirm_dealloc" THEN "display" ELSE "receive"
        PROVE  ToolsInv'
    <2>0. MessageSize \in Nat \ {0}
      BY AtellAssumption
    <2>1. toS \in Seq(Item) /\ toS # <<>> /\ m.d \in Seq(Unit) /\ Len(m.d) <= MessageSize /\ m.rest \in Seq(Item)
      BY <1>1, <2>0, Received DEF Queues
    <2>2. Writing /\ toC = <<>>
      BY <1>1, <2>1 DEF VersionsFirst, AtellInv, Writing
    <2>3. MessageKept'
      <3>1. Text(m.d) \in Seq(Unit) /\ Len(Text(m.d)) \in Nat /\ Len(Text(m.d)) <= Len(m.d) /\ Len(m.d) \in Nat
        BY <2>1, TextTyped
      <3>2. Kept(Text(m.d)) \in Seq(Unit) /\ Len(Kept(Text(m.d))) < UseridSize
        BY <3>1, KeptTyped
      <3>3. message' \in Seq(Unit) /\ Len(message') <= MessageSize
        BY <1>1, <1>5, <2>0, <2>1, <3>1 DEF MessageKept
      <3>4. userid' \in Seq(Unit) /\ Len(userid') < UseridSize
        BY <1>1, <1>5, <3>2 DEF MessageKept
      <3> QED
        BY <1>1, <3>3, <3>4, MessageStays
    <2>4. \A i \in 1 .. Len(toS) : \/ toS[i].s = "none"
                                   \/ toS[i].s = "confirm_dealloc" /\ i = Len(toS) /\ cpc = "confirm"
      BY <1>1 DEF AtellInv
    <2>5. ASSUME NEW i \in 1 .. Len(m.rest)
          PROVE  m.rest[i].s = "none" \/ (m.rest[i].s = "confirm_dealloc" /\ i = Len(m.rest) /\ cpc = "confirm")
      <3>1. CASE m.rest[i].s = "none"
        BY <3>1
      <3>2. CASE \E k \in 1 .. Len(toS) : m.rest[i] = toS[k] /\ (k = Len(toS) <=> i = Len(m.rest))
        BY <2>4, <3>2, Zenon
      <3> QED
        BY <2>0, <2>1, <3>1, <3>2, RestItems
    <2>6. m.s = "confirm_dealloc" => m.rest = <<>> /\ cpc = "confirm"
      <3> SUFFICES ASSUME m.s = "confirm_dealloc" PROVE m.rest = <<>> /\ cpc = "confirm"
        OBVIOUS
      <3>1. Len(Tail(toS)) = Len(toS) - 1 /\ Tail(toS) \in Seq(Item)
        BY <2>1, HeadTailProperties
      <3>2. ASSUME NEW t \in Seq(Item), Len(t) = 0 PROVE t = <<>>
        BY <3>2, EmptySeq
      <3>3. CASE 1 \in 1 .. Len(toS) /\ m.s = toS[1].s /\ m.rest = Tail(toS)
        <4>1. 1 = Len(toS) /\ cpc = "confirm"
          BY <2>4, <3>3
        <4>2. Len(toS) - 1 = 0
          BY <4>1
        <4> QED
          BY <3>1, <3>2, <3>3, <4>1, <4>2, Zenon
      <3>4. CASE 2 \in 1 .. Len(toS) /\ m.s = toS[2].s /\ m.rest = Tail(Tail(toS))
        <4>1. 2 = Len(toS) /\ cpc = "confirm"
          BY <2>4, <3>4
        <4>2. ASSUME NEW t \in Seq(Item), Len(t) = 2 - 1 PROVE Tail(t) = <<>>
          <5>1. t # <<>> /\ Len(t) - 1 = 0
            BY <4>2
          <5>2. Tail(t) \in Seq(Item) /\ Len(Tail(t)) = Len(t) - 1
            BY <5>1, HeadTailProperties
          <5> QED
            BY <3>2, <5>1, <5>2, Zenon
        <4> QED
          BY <3>1, <3>4, <4>1, <4>2, Zenon
      <3> QED
        BY <2>0, <2>1, <3>3, <3>4, StatusReceived
    <2>7. Queues' /\ VersionsFirst'
      <3>1. Queues'
        BY <1>1, <1>5, <2>1 DEF Queues
      <3>2. cpc \in {"message", "userid", "deallocate", "confirm"}
        BY <2>2 DEF Writing
      <3> QED
        BY <1>1, <1>5, <2>2, <2>6, <3>1, <3>2 DEF VersionsFirst
    <2>8. ASSUME Plain
          PROVE  IF m.s = "confirm_dealloc" THEN message' = given.text /\ userid' = Addressee ELSE LetterSpread'
      <3>1. LetterSpread
        BY <1>1, <2>2, <2>8 DEF AtellInv
      <3>2. PICK a, b \in 0 .. Posted :
                /\ a <= b /\ (Broken \/ b = Posted) /\ a < Len(Letter)
                /\ toS = SubSeq(Letter, a + 1, b)
                /\ message = IF a = 0 THEN <<>> ELSE given.text
                /\ userid = IF a < 2 THEN <<>> ELSE Addressee
        BY <3>1 DEF LetterSpread
      <3>3. Posted \in 0 .. Len(Letter) /\ Len(Letter) \in {2, 3}
        BY <1>1, <2>2, LetterParts, Zenon
      <3>4. a \in Nat /\ b \in Nat /\ b <= Len(Letter)
        BY <3>3
      <3>5. /\ message' = given.text
            /\ \/ m.s = "confirm_dealloc" /\ userid' = Addressee
               \/ /\ m.s = "none" /\ a + 1 <= b /\ a + 1 < Len(Letter)
                  /\ m.rest = SubSeq(Letter, (a + 1) + 1, b)
                  /\ userid' = IF a + 1 < 2 THEN <<>> ELSE Addressee
        BY <1>1, <1>5, <2>8, <3>2, <3>4, LetterReceived
      <3>6. CASE m.s = "confirm_dealloc" /\ userid' = Addressee
        BY <3>5, <3>6
      <3>7. CASE /\ m.s = "none" /\ a + 1 <= b /\ a + 1 < Len(Letter)
                 /\ m.rest = SubSeq(Letter, (a + 1) + 1, b)
                 /\ userid' = IF a + 1 < 2 THEN <<>> ELSE Addressee
        <4>1. a + 1 \in 0 .. Posted' /\ b \in 0 .. Posted' /\ a + 1 # 0
          BY <1>2, <3>2, <3>3, <3>4, <3>7
        <4>2. Broken' = Broken
          BY <1>1, <1>5 DEF Broken
        <4>3. /\ toS' = SubSeq(Letter', (a + 1) + 1, b) /\ message' = given'.text
              /\ userid' = IF a + 1 < 2 THEN <<>> ELSE Addressee'
          BY <1>1, <1>2, <1>5, <3>5, <3>7
        <4>4. (Broken' \/ b = Posted') /\ a + 1 < Len(Letter')
          BY <1>2, <3>2, <3>7, <4>2
        <4>5. LetterSpread'
          BY <3>7, <4>1, <4>3, <4>4, Zenon DEF LetterSpread
        <4> QED
          BY <3>7, <4>5
      <3> QED
        BY <3>5, <3>6, <3>7
    <2>9. AtellInv'
      <3>1. CASE m.s = "confirm_dealloc"
        <4>1. spc' = "display" /\ toS' = <<>> /\ toC' = <<>> /\ cpc' = "confirm" /\ cexit' # "success"
          BY <1>1, <1>3, <1>5, <2>2, <2>6, <3>1
        <4> QED
          BY <1>1, <1>2, <2>3, <2>8, <3>1, <4>1 DEF AtellInv
      <3>2. CASE m.s # "confirm_dealloc"
        <4>1. spc' = "receive" /\ toS' = m.rest /\ cpc' = cpc /\ Writing'
          BY <1>1, <1>2, <1>5, <2>2, <3>2
        <4>2. \A i \in 1 .. Len(toS') : toS'[i].s = "none" \/ (toS'[i].s = "confirm_dealloc" /\ i = Len(toS') /\ cpc' = "confirm")
          BY <2>5, <4>1
        <4> QED
          BY <1>1, <1>2, <1>3, <2>3, <2>8, <3>2, <4>1, <4>2 DEF AtellInv
      <3> QED
        BY <3>1, <3>2
    <2> QED
      BY <1>1, <2>7, <2>9, AtellRest
  <1> QED
    BY <1>4, <1>5 DEF MessageReceived, ServerExits, Kept

\* Every action of atell and atelld preserves the invariant.
LEMMA AtellPreserves ==
    ASSUME ToolsInv, AtellSteps
    PROVE  ToolsInv'
  <1>1. tool = "atell" /\ AtellProgram /\ UNCHANGED <<arexecVars, tool>>
    BY DEF AtellSteps
  <1>2. CASE UNCHANGED atellVars /\ (Allocates \/ SendsVersion \/ ReceivesVersion("message"))
    <2>1. Idling
      BY <1>1, <1>2 DEF Idling
    <2>2. CASE ReceivesVersion("message")
      BY <1>1, <2>1, <2>2, ReceivesVersionPreserves
    <2> QED
      BY <1>2, <2>1, <2>2, AllocatesPreserves, SendsVersionPreserves
  <1>3. CASE UNCHANGED atellVars /\ (Accepts \/ ExchangesVersion)
    <2>1. Idling
      BY <1>1, <1>3 DEF Idling
    <2> QED
      BY <1>3, <2>1, AcceptsPreserves, ExchangesVersionPreserves
  <1>4. CASE SendsMessage \/ SendsUserid \/ Deallocates \/ AtellEnds
    BY <1>1, <1>4, SendsMessagePreserves, SendsUseridPreserves, DeallocatesPreserves, AtellEndsPreserves
  <1>5. CASE MessageReceived \/ Confirms
    BY <1>1, <1>5, MessageReceivedPreserves, ConfirmsPreserves
  <1>6. ASSUME NEW tty, DisplayMessage(tty) PROVE ToolsInv'
    BY <1>1, <1>6, DisplayPreserves
  <1> QED
    BY <1>1, <1>2, <1>3, <1>4, <1>5, <1>6 DEF AtellProgram

-----------------------------------------------------------------------------
\* The invariant is inductive, and implies the two properties.
LEMMA ToolsInvInductive == ToolsInv /\ [ToolsNext]_toolsVars => ToolsInv'
  <1> SUFFICES ASSUME ToolsInv, [ToolsNext]_toolsVars PROVE ToolsInv'
    OBVIOUS
  <1>1. CASE ToolStarts
    <2>1. ASSUME tool = "atell", UNCHANGED <<arexecVars, tool>>,
                 NEW o \in Options, NEW at \in BOOLEAN, NEW u \in Users, NEW d \in Destinations, NEW t \in Texts,
                 NEW b \in {Nul, "?"}, AtellArguments(o, at, u, d, t, b)
          PROVE  ToolsInv'
      BY <2>1, AtellArgumentsPreserves
    <2>2. ASSUME tool = "atell", UNCHANGED <<arexecVars, tool>>, NEW x \in {"success", "failure"}, AtellUsage(x)
          PROVE  ToolsInv'
      BY <2>2, AtellUsagePreserves
    <2>3. ASSUME tool = "arexec", UNCHANGED <<atellVars, tool>>,
                 NEW o \in Options, NEW d \in Destinations, NEW w \in Commands, ArexecArguments(o, d, w)
          PROVE  ToolsInv'
      BY <2>3, ArexecArgumentsPreserves
    <2>4. ASSUME tool = "arexec", UNCHANGED <<atellVars, tool>>, NEW x \in {"success", "failure"}, ArexecUsage(x)
          PROVE  ToolsInv'
      BY <2>4, ArexecUsagePreserves
    <2> QED
      BY <1>1, <2>1, <2>2, <2>3, <2>4, Zenon DEF ToolStarts
  <1>2. CASE AtellSteps \/ ArexecSteps
    BY <1>2, AtellPreserves, ArexecPreserves
  <1>3. CASE Outage /\ UNCHANGED <<atellVars, arexecVars, tool>>
    BY <1>3, OutagePreserves
  <1>4. CASE UNCHANGED toolsVars
    BY <1>4, StutterPreserves
  <1> QED
    BY <1>1, <1>2, <1>3, <1>4 DEF ToolsNext

LEMMA ToolsInvAlways == ToolsSpec => []ToolsInv
  BY ToolsInitInv, ToolsInvInductive, PTL DEF ToolsSpec

LEMMA InvMessageShown == ToolsInv => MessageShown
  <1> SUFFICES ASSUME ToolsInv PROVE MessageShown
    OBVIOUS
  <1>1. PartnerChosen
    BY DEF ToolsInv, Directed, PartnerChosen
  <1>2. CASE tool = "arexec"
    <2>1. shown = <<>> /\ cpc # "confirm"
      BY <1>2 DEF ToolsInv, AtellInit, ArexecInv
    <2>2. Delivered /\ ShownWhole
      BY <2>1 DEF Delivered, ShownWhole
    <2> QED
      BY <1>1, <2>2 DEF MessageShown
  <1>3. CASE tool = "atell"
    <2>1. AtellInv
      BY <1>3 DEF ToolsInv
    <2>2. CASE spc = "confirmed"
      <3>1. PICK tty \in {<<"stderr">>, <<"console">>, userid} :
               /\ shown = <<[text |-> message, user |-> userid, tty |-> tty]>>
               /\ tty = <<"console">> => userid = <<>> \/ userid = tty
        BY <2>1, <2>2 DEF AtellInv, Shows
      <3>2. /\ Len(shown) = 1 /\ DOMAIN shown = {1} /\ shown[1].text = message
            /\ shown[1].user = userid /\ shown[1].tty = tty
        BY <3>1
      <3>3. toS = <<>> /\ (Plain => message = given.text /\ userid = Addressee)
        BY <2>1, <2>2 DEF AtellInv
      <3>4. Delivered
        BY <3>2, <3>3 DEF Delivered, Addressee
      <3>5. ASSUME Plain, given.user # <<>>, UseridSupported PROVE tty \in {given.user, <<"stderr">>}
        BY <3>1, <3>3, <3>5 DEF Addressee
      <3>6. ShownWhole
        BY <3>2, <3>3, <3>5 DEF ShownWhole
      <3> QED
        BY <1>1, <3>4, <3>6 DEF MessageShown
    <2>3. CASE spc # "confirmed"
      <3>1. shown = <<>> /\ ~(cexit = "success" /\ cpc = "confirm")
        BY <2>1, <2>3 DEF AtellInv
      <3> QED
        BY <1>1, <3>1 DEF MessageShown, Delivered, ShownWhole
    <2> QED
      BY <2>2, <2>3
  <1> QED
    BY <1>2, <1>3 DEF ToolsInv

LEMMA InvCommandDone == ToolsInv => CommandDone
  <1> SUFFICES ASSUME ToolsInv PROVE CommandDone
    OBVIOUS
  <1>0. MessageSize \in Nat /\ UseridSize \in Nat /\ 0 < UseridSize /\ CommandSize \in Nat /\ 0 < CommandSize
    BY AtellAssumption, ArexecAssumption
  <1>1. CASE tool = "atell"
    <2>1. AtellInv /\ command = <<>> /\ executed = <<>>
      BY <1>1, Zenon DEF ToolsInv, ArexecInit
    <2>2. ToolsTyped
      BY <1>0, <2>1 DEF ToolsInv, Queues, AtellInv, MessageKept, ToolsTyped
    <2>3. CommandWhole /\ OutputWhole
      BY <2>1 DEF CommandWhole, OutputWhole, AtellInv
    <2> QED
      BY <2>2, <2>3 DEF CommandDone
  <1>2. CASE tool = "arexec"
    <2>1. ArexecInv /\ message = <<>> /\ userid = <<>>
      BY <1>2, Zenon DEF ToolsInv, AtellInit
    <2>2. ToolsTyped
      BY <1>0, <2>1 DEF ToolsInv, Queues, ArexecInv, CommandKept, ToolsTyped
    <2>3. CommandWhole
      <3>1. CASE spc = "send"
        <4>1. executed = <<command>> /\ command = CommandOf(Operands(asked.dest, asked.words))
          BY <2>1, <3>1 DEF ArexecInv, CommandKept, ToolsInv, VersionsFirst
        <4>2. Len(executed) = 1 /\ DOMAIN executed = {1} /\ executed[1] = command
          BY <4>1
        <4> QED
          BY <4>1, <4>2 DEF CommandWhole
      <3>2. CASE spc # "send"
        BY <2>1, <3>2 DEF ArexecInv, CommandWhole
      <3> QED
        BY <3>1, <3>2
    <2>4. OutputWhole
      <3> SUFFICES ASSUME cexit = "success", cpc = "output" PROVE Len(executed) = 1 /\ printed = produced
        BY DEF OutputWhole
      <3>1. spc = "send" /\ printed = produced /\ executed = <<command>>
        BY <2>1 DEF ArexecInv
      <3> QED
        BY <3>1
    <2> QED
      BY <2>2, <2>3, <2>4 DEF CommandDone
  <1> QED
    BY <1>1, <1>2 DEF ToolsInv

\* atell talks to the partner, mode and TP that its command line chooses, as
\* far as the names fit. A message that fits its buffer and was given without
\* options is shown by atelld once and as given, on the terminal of the user it
\* is for or, if there is none, on atelld's stderr, and only when atell has
\* nothing more to say; atell reports success only after that: for every size
\* of the buffers, and a conversation that may fail at any moment.
THEOREM MessageIsShown == ToolsSpec => []MessageShown
  BY ToolsInvAlways, InvMessageShown, PTL

\* arexecd runs what arexec takes for the command, which is the destination and
\* the words behind it that are no options, whole or not at all and at most
\* once, and when arexec reports success it ran and all that it put out is
\* printed, in order and nothing else, whatever the sizes of the two buffers.
THEOREM CommandRunsWhole == ToolsSpec => []CommandDone
  BY ToolsInvAlways, InvCommandDone, PTL
=============================================================================
