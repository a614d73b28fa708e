---------------------------- MODULE ApingProofs ----------------------------
(***************************************************************************)
(* Every safety property of Aping, for every number of blocks, every       *)
(* number of iterations and every set of partner versions.                 *)
(*                                                                         *)
(* The inductive invariant says, for each place the client can be at,      *)
(* where the server is and where the blocks of the round are: in the       *)
(* sender's LU, on their way, or counted.                                  *)
(***************************************************************************)
EXTENDS Aping, TLAPS

ClientQuiet == cbuf = 0 /\ s_data = 0 /\ s_stat = "none"
ServerQuiet == sbuf = 0 /\ c_data = 0 /\ c_stat = "none"

\* The server waits at the head of its receive loop, or at its middle.
Listening == spc = "receive" /\ sstate = "receive"

Starting ==
    /\ cpc \in {"allocate", "version"}
    /\ cpc = "version" => cstate = "send"
    /\ spc = "accept"
    /\ ClientQuiet /\ ServerQuiet

Versions ==
    /\ cpc = "version_wait"
    /\ cstate = "receive"
    /\ \/ /\ spc \in {"accept", "version"}
          /\ spc = "version" => sstate = "receive"
          /\ cbuf = 0 /\ s_data = 1 /\ s_stat = "send"
          /\ ServerQuiet
       \/ /\ Listening /\ count = 0
          /\ ClientQuiet
          /\ sbuf = 0 /\ c_data = 1 /\ c_stat = "send"

Between ==
    /\ cpc \in {"round", "check"}
    /\ cpc = "check" => curr_iteration < Iterations
    /\ cpc = "check" /\ one_way = 2 => curr_concurrent = 0
    /\ cstate = "send"
    /\ Listening /\ count = 0
    /\ ClientQuiet /\ ServerQuiet

Sending ==
    /\ cpc = "send"
    /\ curr_iteration < Iterations
    /\ curr_concurrent \in 1..Blocks
    /\ cstate = "send"
    /\ Listening
    /\ s_stat = "none"
    /\ s_data + cbuf + count = curr_concurrent - 1
    /\ ServerQuiet

\* The four stretches of the echo.
Arriving ==
    /\ Listening
    /\ cbuf = 0 /\ s_data + count = Blocks
    /\ curr_concurrent = Blocks
    /\ ServerQuiet

Turned ==
    /\ spc = "turn" /\ sstate = "send"
    /\ count = Blocks /\ curr_concurrent = Blocks
    /\ ClientQuiet /\ ServerQuiet

Returning ==
    /\ spc = "echo" /\ sstate = "send"
    /\ ClientQuiet
    /\ c_stat = "none"
    /\ count + sbuf + c_data = curr_concurrent - 1

Returned ==
    /\ Listening /\ count = 0
    /\ ClientQuiet
    /\ sbuf = 0 /\ c_data = curr_concurrent /\ c_stat = "send"

Echoing ==
    /\ cpc = "echo"
    /\ curr_iteration < Iterations
    /\ one_way = 2
    /\ cstate = "receive"
    /\ \/ Arriving /\ s_stat = "send"
       \/ Turned
       \/ Returning
       \/ Returned

Confirming ==
    /\ cpc = "confirm"
    /\ curr_iteration < Iterations
    /\ one_way = 1
    /\ cstate = "send"
    /\ sbuf = 0 /\ c_data = 0
    /\ \/ Arriving /\ s_stat = "confirm"
       \/ spc = "confirm" /\ sstate = "confirm" /\ count = Blocks /\ ClientQuiet /\ c_stat = "none"
       \/ Listening /\ count = 0 /\ ClientQuiet /\ c_stat = "confirmed"

Ended ==
    /\ cpc = "done"
    /\ ServerQuiet
    /\ cbuf = 0 /\ s_data = 0
    /\ \/ Listening /\ count = 0 /\ s_stat = "deallocated"
       \/ spc = "done" /\ s_stat = "none"

Phase == Starting \/ Versions \/ Between \/ Sending \/ Echoing \/ Confirming \/ Ended

\* Once the version is known, one_way = 1 means that the partner can do it.
OneWayKnown ==
    cpc \notin {"allocate", "version", "version_wait"} /\ one_way = 1
        => SupportsOneWay(tp_version)

IInv == TypeOK /\ Phase /\ OneWayKnown /\ NoVerbRejected

-----------------------------------------------------------------------------
\* The block count of a round fits apingd's counter.
LEMMA BlocksBound == Blocks \in 1..UlongMax
  BY ApingAssumption DEF Blocks

\* Below the limit, adding to apingd's counter does not wrap.
LEMMA IncrementExact ==
    ASSUME NEW n \in Nat, NEW d \in Nat, n + d <= UlongMax
    PROVE  Increment(n, d) = n + d
  BY ApingAssumption DEF Increment

\* In every phase the verbs of both programs fit the states of their ends.
LEMMA PhaseAllowsVerbs ==
    ASSUME IInv
    PROVE  ~ClientRejected /\ ~ServerRejected
  BY DEF IInv,
     Phase, Starting, Versions, Between, Sending, Echoing, Confirming, Ended,
     Arriving, Turned, Returning, Returned, Listening, ClientQuiet, ServerQuiet,
     ClientRejected, ServerRejected

\* The programs start in the first phase.
LEMMA InitInvariant == Init => IInv
<1> SUFFICES ASSUME Init PROVE IInv
  OBVIOUS
<1>1. TypeOK
  <2>1. outage \in BOOLEAN
    BY Zenon DEF Init
  <2>2. tp_version \in Nat \X Nat
    BY DEF Init
  <2>3. QED
    BY <2>1, <2>2, ApingAssumption DEF Init, TypeOK, Statuses, Rounds
<1>2. Phase
  BY DEF Init, Phase, Starting, ClientQuiet, ServerQuiet
<1>3. OneWayKnown /\ NoVerbRejected
  BY DEF Init, OneWayKnown, NoVerbRejected
<1>4. QED
  BY <1>1, <1>2, <1>3 DEF IInv

-----------------------------------------------------------------------------
(***************************************************************************)
(* The client's steps.                                                     *)
(***************************************************************************)
LEMMA ClientPreserves ==
    ASSUME IInv, Client
    PROVE  IInv'
<1> USE ApingAssumption, BlocksBound
<1>1. CASE ClientAllocates
  BY <1>1 DEF ClientAllocates, ClientAt, IInv, TypeOK,
     Phase, Starting, Versions, Between, Sending, Echoing, Confirming, Ended,
     Arriving, Turned, Returning, Returned, Listening, ClientQuiet, ServerQuiet,
     OneWayKnown, NoVerbRejected,
     serverVars, toServer, toClient
<1>2. CASE ClientSendsVersion
  BY <1>2 DEF ClientSendsVersion, ClientAt, IInv, TypeOK,
     Phase, Starting, Versions, Between, Sending, Echoing, Confirming, Ended,
     Arriving, Turned, Returning, Returned, Listening, ClientQuiet, ServerQuiet,
     OneWayKnown,
     NoVerbRejected, Statuses, serverVars, toServer, toClient
<1>3. CASE ClientReceivesVersion
  <2>1. TypeOK'
    BY <1>3 DEF ClientReceivesVersion, ClientAt, Receives, IInv, TypeOK,
       Phase, Starting, Versions, Between, Sending, Echoing, Confirming, Ended,
       Arriving, Turned, Returning, Returned, Listening, ClientQuiet, ServerQuiet,
     Statuses,
       serverVars, toServer
  <2>2. Phase'
    BY <1>3 DEF ClientReceivesVersion, ClientAt, Receives, IInv, TypeOK,
       Phase, Starting, Versions, Between, Sending, Echoing, Confirming, Ended,
       Arriving, Turned, Returning, Returned, Listening, ClientQuiet, ServerQuiet,
       serverVars, toServer
  <2>3. OneWayKnown'
    <3>1. one_way' = 1 => SupportsOneWay(tp_version')
      BY <1>3 DEF ClientReceivesVersion
    <3>2. QED
      BY <3>1 DEF OneWayKnown, SupportsOneWay
  <2>4. NoVerbRejected'
    BY <1>3 DEF ClientReceivesVersion, IInv, NoVerbRejected, serverVars
  <2>5. QED
    BY <2>1, <2>2, <2>3, <2>4 DEF IInv
<1>4. CASE ClientStartsRound
  BY <1>4 DEF ClientStartsRound, ClientAt, IInv, TypeOK,
     Phase, Starting, Versions, Between, Sending, Echoing, Confirming, Ended,
     Arriving, Turned, Returning, Returned, Listening, ClientQuiet, ServerQuiet,
     OneWayKnown, NoVerbRejected,
     SupportsOneWay, serverVars, toServer, toClient
<1>5. CASE ClientSends
  <2>1. cpc = "send" /\ Sending
    BY <1>5 DEF ClientSends, ClientAt, IInv, Phase, Starting, Versions, Between, Echoing,
       Confirming, Ended, Sending
  <2>2. Sending'
    BY <1>5, <2>1 DEF ClientSends, IInv, TypeOK, Sending, Listening, ServerQuiet, Blocks,
       serverVars, toClient
  <2>3. QED
    BY <1>5, <2>2 DEF ClientSends, ClientAt, IInv, TypeOK, Phase, OneWayKnown, NoVerbRejected,
       SupportsOneWay, serverVars, toClient
<1>6. CASE ClientSendsLast
  <2>1. cpc = "send" /\ Sending /\ curr_concurrent = Blocks
    BY <1>6 DEF ClientSendsLast, ClientAt, IInv, TypeOK, Phase, Starting, Versions, Between,
       Echoing, Confirming, Ended, Sending, Blocks
  <2>2. CASE one_way # 1
    <3>1. Echoing'
      BY <1>6, <2>1, <2>2 DEF ClientSendsLast, IInv, TypeOK, Sending, Echoing, Arriving,
         Listening, ServerQuiet, serverVars, toClient
    <3>2. QED
      BY <1>6, <2>2, <3>1 DEF ClientSendsLast, ClientAt, IInv, TypeOK, Phase, OneWayKnown,
         NoVerbRejected, Statuses, serverVars, toClient
  <2>3. CASE one_way = 1
    <3>1. Confirming'
      BY <1>6, <2>1, <2>3 DEF ClientSendsLast, IInv, TypeOK, Sending, Confirming, Arriving,
         Listening, ServerQuiet, serverVars, toClient
    <3>2. QED
      BY <1>6, <2>3, <3>1 DEF ClientSendsLast, ClientAt, IInv, TypeOK, Phase, OneWayKnown,
         NoVerbRejected, SupportsOneWay, Statuses, serverVars, toClient
  <2>4. QED
    BY <2>2, <2>3
<1>7. ASSUME NEW d \in Bit, NEW s \in Statuses, ClientReceives(d, s)
      PROVE  IInv'
  <2>1. Echoing
    BY <1>7 DEF ClientReceives, ClientAt, IInv, Phase, Starting, Versions, Between, Echoing,
       Confirming, Ended, Sending
  <2>2. c_data \in Nat /\ c_data >= d
    BY <1>7 DEF ClientReceives, Receives, IInv, TypeOK, Bit
  <2>3. TypeOK'
    BY <1>7, <2>2 DEF ClientReceives, StatusLeft, IInv, TypeOK, Bit, Statuses, serverVars, toServer
  <2>4. Phase'
    <3>1. CASE Returning
      <4>1. s = "none" /\ d = 1
        BY <1>7, <3>1 DEF ClientReceives, Receives, Returning
      <4>2. Returning'
        BY <1>7, <3>1, <4>1 DEF ClientReceives, StatusLeft, Returning, ClientQuiet, IInv, TypeOK,
           serverVars, toServer
      <4>3. QED
        BY <1>7, <2>1, <4>1, <4>2 DEF ClientReceives, Phase, Echoing
    <3>2. CASE Returned
      <4>1. CASE s = "send"
        <5>1. c_data' = 0 /\ curr_concurrent' = 0
          BY <1>7, <3>2, <4>1 DEF ClientReceives, Receives, Returned, IInv, TypeOK, Bit
        <5>2. QED
          BY <1>7, <2>1, <3>2, <4>1, <5>1 DEF ClientReceives, StatusLeft, Returned, Echoing,
             Phase, Between, Listening, ClientQuiet, ServerQuiet,
     serverVars, toServer
      <4>2. CASE s # "send"
        <5>1. s = "none"
          BY <1>7, <3>2, <4>2 DEF ClientReceives, Receives, Returned
        <5>2. Returned'
          BY <1>7, <3>2, <5>1 DEF ClientReceives, StatusLeft, Returned, Listening, ClientQuiet,
             IInv, TypeOK, serverVars, toServer
        <5>3. QED
          BY <1>7, <2>1, <4>2, <5>2 DEF ClientReceives, Phase, Echoing
      <4>3. QED
        BY <4>1, <4>2
    <3>3. Returning \/ Returned
      BY <1>7, <2>1 DEF ClientReceives, Receives, Echoing, Arriving, Turned, ServerQuiet
    <3>4. QED
      BY <3>1, <3>2, <3>3
  <2>5. OneWayKnown' /\ NoVerbRejected'
    BY <1>7, <2>1 DEF ClientReceives, Echoing, IInv, OneWayKnown, NoVerbRejected, serverVars
  <2>6. QED
    BY <2>3, <2>4, <2>5 DEF IInv
<1>8. CASE ClientConfirmed
  BY <1>8 DEF ClientConfirmed, ClientAt, IInv, TypeOK,
     Phase, Starting, Versions, Between, Sending, Echoing, Confirming, Ended,
     Arriving, Turned, Returning, Returned, Listening, ClientQuiet, ServerQuiet,
     OneWayKnown, NoVerbRejected,
     SupportsOneWay, Statuses, serverVars, toServer
<1>9. CASE ClientEndsRound
  BY <1>9 DEF ClientEndsRound, ClientAt, IInv, TypeOK,
     Phase, Starting, Versions, Between, Sending, Echoing, Confirming, Ended,
     Arriving, Turned, Returning, Returned, Listening, ClientQuiet, ServerQuiet,
     OneWayKnown, NoVerbRejected,
     SupportsOneWay, Rounds, serverVars, toServer, toClient
<1>10. CASE ClientDeallocates
  BY <1>10 DEF ClientDeallocates, ClientAt, IInv, TypeOK,
     Phase, Starting, Versions, Between, Sending, Echoing, Confirming, Ended,
     Arriving, Turned, Returning, Returned, Listening, ClientQuiet, ServerQuiet,
     OneWayKnown, NoVerbRejected,
     SupportsOneWay, Statuses, serverVars, toClient
<1>11. CASE ClientFails
  <2>1. outage
    BY <1>11, PhaseAllowsVerbs DEF ClientFails, Broken, IInv, NoVerbRejected
  <2>2. QED
    BY <1>11, <2>1 DEF ClientFails, IInv, TypeOK,
       Phase, Starting, Versions, Between, Sending, Echoing, Confirming, Ended,
       Arriving, Turned, Returning, Returned, Listening, ClientQuiet, ServerQuiet,
     OneWayKnown, NoVerbRejected,
       SupportsOneWay, serverVars, toServer, toClient
<1>12. QED
  BY <1>1, <1>2, <1>3, <1>4, <1>5, <1>6, <1>7, <1>8, <1>9, <1>10, <1>11 DEF Client

-----------------------------------------------------------------------------
(***************************************************************************)
(* The server's steps.                                                     *)
(***************************************************************************)
LEMMA ServerPreserves ==
    ASSUME IInv, Server
    PROVE  IInv'
<1> USE ApingAssumption, BlocksBound
<1>1. CASE ServerAccepts
  BY <1>1 DEF ServerAccepts, ServerAt, IInv, TypeOK,
     Phase, Starting, Versions, Between, Sending, Echoing, Confirming, Ended,
     Arriving, Turned, Returning, Returned, Listening, ClientQuiet, ServerQuiet,
     OneWayKnown, NoVerbRejected,
     SupportsOneWay, clientVars, toServer, toClient
<1>2. CASE ServerExchangesVersion
  BY <1>2 DEF ServerExchangesVersion, ServerAt, Receives, IInv, TypeOK,
     Phase, Starting, Versions, Between, Sending, Echoing, Confirming, Ended,
     Arriving, Turned, Returning, Returned, Listening, ClientQuiet, ServerQuiet,
     OneWayKnown,
     NoVerbRejected, SupportsOneWay, Statuses, clientVars
<1>3. ASSUME NEW d \in Bit, NEW s \in Statuses, ServerReceives(d, s)
      PROVE  IInv'
  <2>1. s_data \in Nat /\ s_data >= d /\ d \in Nat /\ spc = "receive"
    BY <1>3 DEF ServerReceives, ServerAt, Receives, IInv, TypeOK, Bit
  <2>2. \/ Sending /\ s = "none" /\ d = 1
        \/ Echoing /\ Arriving /\ s_stat = "send" /\ s \in {"none", "send"}
        \/ Confirming /\ Arriving /\ s_stat = "confirm" /\ s \in {"none", "confirm"}
    BY <1>3, <2>1 DEF ServerReceives, Receives, IInv,
       Phase, Starting, Versions, Between, Sending, Echoing, Confirming, Ended,
       Arriving, Turned, Returning, Returned, Listening, ClientQuiet, ServerQuiet
  <2>3. count + d <= UlongMax
    BY <2>1, <2>2 DEF IInv, TypeOK, Sending, Arriving
  <2>4. count' = count + d
    BY <1>3, <2>1, <2>3, IncrementExact DEF ServerReceives, IInv, TypeOK
  <2>5. TypeOK'
    BY <1>3, <2>1, <2>3, <2>4 DEF ServerReceives, StatusLeft, IInv, TypeOK, Statuses, clientVars,
       toClient
  <2>6. Phase'
    <3>1. CASE Sending /\ s = "none" /\ d = 1
      <4>1. Sending'
        BY <1>3, <2>1, <2>4, <3>1 DEF ServerReceives, StatusLeft, Sending, Listening, ServerQuiet,
           IInv, TypeOK, clientVars, toClient
      <4>2. QED
        BY <4>1 DEF Phase
    <3>2. CASE /\ Echoing /\ Arriving /\ s_stat = "send" /\ s = "none"
      <4>1. Arriving' /\ s_stat' = "send"
        BY <1>3, <2>1, <2>4, <3>2 DEF ServerReceives, StatusLeft, Arriving, Listening, ServerQuiet,
           IInv, TypeOK, clientVars, toClient
      <4>2. QED
        BY <1>3, <3>2, <4>1 DEF ServerReceives, Phase, Echoing, clientVars
    <3>3. CASE /\ Echoing /\ Arriving /\ s_stat = "send" /\ s = "send"
      <4>1. s_data' = 0 /\ s_data = d
        BY <1>3, <2>1, <3>3 DEF ServerReceives, Receives
      <4>2. Turned'
        BY <1>3, <2>1, <2>4, <3>3, <4>1 DEF ServerReceives, StatusLeft, Arriving, Turned,
           ClientQuiet, ServerQuiet,
     IInv, TypeOK, clientVars, toClient
      <4>3. QED
        BY <1>3, <3>3, <4>2 DEF ServerReceives, Phase, Echoing, clientVars
    <3>4. CASE /\ Confirming /\ Arriving /\ s_stat = "confirm" /\ s = "none"
      <4>1. Arriving' /\ s_stat' = "confirm"
        BY <1>3, <2>1, <2>4, <3>4 DEF ServerReceives, StatusLeft, Arriving, Listening, ServerQuiet,
           IInv, TypeOK, clientVars, toClient
      <4>2. QED
        BY <1>3, <3>4, <4>1 DEF ServerReceives, Phase, Confirming, clientVars, toClient
    <3>5. CASE /\ Confirming /\ Arriving /\ s_stat = "confirm" /\ s = "confirm"
      <4>1. s_data' = 0 /\ s_data = d
        BY <1>3, <2>1, <3>5 DEF ServerReceives, Receives
      <4>2. Confirming'
        BY <1>3, <2>1, <2>4, <3>5, <4>1 DEF ServerReceives, StatusLeft, Arriving, Confirming,
           ClientQuiet, ServerQuiet,
     IInv, TypeOK, clientVars, toClient
      <4>3. QED
        BY <4>2 DEF Phase
    <3>6. QED
      BY <2>2, <3>1, <3>2, <3>3, <3>4, <3>5
  <2>7. OneWayKnown' /\ NoVerbRejected'
    BY <1>3 DEF ServerReceives, IInv, OneWayKnown, NoVerbRejected, SupportsOneWay, clientVars
  <2>8. QED
    BY <2>5, <2>6, <2>7 DEF IInv
<1>4. CASE ServerDeallocated
  BY <1>4 DEF ServerDeallocated, ServerAt, IInv, TypeOK,
     Phase, Starting, Versions, Between, Sending, Echoing, Confirming, Ended,
     Arriving, Turned, Returning, Returned, Listening, ClientQuiet, ServerQuiet,
     OneWayKnown, NoVerbRejected,
     SupportsOneWay, Statuses, clientVars, toClient
<1>5. CASE ServerTurns
  BY <1>5 DEF ServerTurns, ServerAt, Decrement, IInv, TypeOK,
     Phase, Starting, Versions, Between, Sending, Echoing, Confirming, Ended,
     Arriving, Turned, Returning, Returned, Listening, ClientQuiet, ServerQuiet,
     OneWayKnown,
     NoVerbRejected, SupportsOneWay, clientVars, toServer, toClient
<1>6. CASE ServerEchoes
  <2>1. Echoing /\ Returning
    BY <1>6 DEF ServerEchoes, ServerAt, IInv,
       Phase, Starting, Versions, Between, Sending, Echoing, Confirming, Ended,
       Arriving, Turned, Returning, Returned, Listening, ClientQuiet, ServerQuiet
  <2>2. Returning'
    BY <1>6, <2>1 DEF ServerEchoes, Decrement, Returning, ClientQuiet, IInv, TypeOK,
       clientVars, toServer
  <2>3. Phase'
    BY <1>6, <2>1, <2>2 DEF ServerEchoes, Phase, Echoing, clientVars
  <2>4. QED
    BY <1>6, <2>3 DEF ServerEchoes, Decrement, IInv, TypeOK, OneWayKnown, NoVerbRejected,
       SupportsOneWay, clientVars, toServer
<1>7. CASE ServerEchoesLast
  BY <1>7 DEF ServerEchoesLast, ServerAt, IInv, TypeOK,
     Phase, Starting, Versions, Between, Sending, Echoing, Confirming, Ended,
     Arriving, Turned, Returning, Returned, Listening, ClientQuiet, ServerQuiet,
     OneWayKnown, NoVerbRejected,
     SupportsOneWay, Statuses, clientVars, toServer
<1>8. CASE ServerConfirms
  BY <1>8 DEF ServerConfirms, ServerAt, IInv, TypeOK,
     Phase, Starting, Versions, Between, Sending, Echoing, Confirming, Ended,
     Arriving, Turned, Returning, Returned, Listening, ClientQuiet, ServerQuiet,
     OneWayKnown, NoVerbRejected,
     SupportsOneWay, Statuses, clientVars, toServer
<1>9. CASE ServerFails
  <2>1. outage
    BY <1>9, PhaseAllowsVerbs DEF ServerFails, Broken, IInv, NoVerbRejected
  <2>2. QED
    BY <1>9, <2>1 DEF ServerFails, IInv, TypeOK,
       Phase, Starting, Versions, Between, Sending, Echoing, Confirming, Ended,
       Arriving, Turned, Returning, Returned, Listening, ClientQuiet, ServerQuiet,
     OneWayKnown, NoVerbRejected,
       SupportsOneWay, clientVars, toServer, toClient
<1>10. QED
  BY <1>1, <1>2, <1>3, <1>4, <1>5, <1>6, <1>7, <1>8, <1>9 DEF Server

-----------------------------------------------------------------------------
\* The LUs and the network.
LEMMA NetworkPreserves ==
    ASSUME IInv, ClientLuTransmits \/ ServerLuTransmits \/ Outage \/ UNCHANGED vars
    PROVE  IInv'
<1> USE ApingAssumption, BlocksBound
<1>1. CASE ClientLuTransmits
  BY <1>1 DEF ClientLuTransmits, IInv, TypeOK,
     Phase, Starting, Versions, Between, Sending, Echoing, Confirming, Ended,
     Arriving, Turned, Returning, Returned, Listening, ClientQuiet, ServerQuiet,
     OneWayKnown, NoVerbRejected,
     SupportsOneWay, clientVars, serverVars, toClient
<1>2. CASE ServerLuTransmits
  BY <1>2 DEF ServerLuTransmits, IInv, TypeOK,
     Phase, Starting, Versions, Between, Sending, Echoing, Confirming, Ended,
     Arriving, Turned, Returning, Returned, Listening, ClientQuiet, ServerQuiet,
     OneWayKnown, NoVerbRejected,
     SupportsOneWay, clientVars, serverVars, toServer
<1>3. CASE Outage
  BY <1>3 DEF Outage, IInv, TypeOK,
     Phase, Starting, Versions, Between, Sending, Echoing, Confirming, Ended,
     Arriving, Turned, Returning, Returned, Listening, ClientQuiet, ServerQuiet,
     OneWayKnown, NoVerbRejected,
     SupportsOneWay, clientVars, serverVars, toServer, toClient
<1>4. CASE UNCHANGED vars
  BY <1>4 DEF vars, IInv, TypeOK,
     Phase, Starting, Versions, Between, Sending, Echoing, Confirming, Ended,
     Arriving, Turned, Returning, Returned, Listening, ClientQuiet, ServerQuiet,
     OneWayKnown, NoVerbRejected,
     SupportsOneWay, clientVars, serverVars, toServer, toClient
<1>5. QED
  BY <1>1, <1>2, <1>3, <1>4

\* The place of every block is known in every reachable state of the two
\* programs, however often the LUs transmit and whenever the session is lost.
THEOREM ApingInvariant == Spec => []IInv
<1>1. IInv /\ [Next]_vars => IInv'
  BY ClientPreserves, ServerPreserves, NetworkPreserves DEF Next
<1>2. QED
  BY InitInvariant, <1>1, PTL DEF Spec

\* The variables of do_aping, of apingd's main and of the LUs keep their types,
\* and no more rounds are run than -i asks for.
THEOREM ApingTyped == Spec => []TypeOK
<1>1. IInv => TypeOK
  BY DEF IInv
<1>2. QED
  BY ApingInvariant, <1>1, PTL

\* For every -c, apingd has counted exactly the round's blocks when it takes
\* the turn or confirms, so its unsigned counter never wraps.
THEOREM ApingRoundReceived == Spec => []RoundReceived
<1>1. IInv => RoundReceived
  BY DEF IInv, RoundReceived,
     Phase, Starting, Versions, Between, Sending, Echoing, Confirming, Ended,
     Arriving, Turned, Returning, Returned, Listening, ClientQuiet, ServerQuiet
<1>2. QED
  BY ApingInvariant, <1>1, PTL

\* For every -c and -i, aping gets back as many blocks as it sent.
THEOREM ApingEchoMatches == Spec => []EchoMatches
<1>1. IInv => EchoMatches
  BY DEF IInv, EchoMatches,
     Phase, Starting, Versions, Between, Sending, Echoing, Confirming, Ended,
     Arriving, Turned, Returning, Returned, Listening, ClientQuiet, ServerQuiet
<1>2. QED
  BY ApingInvariant, <1>1, PTL

\* Neither program issues a verb its end of the conversation rejects.
THEOREM ApingNoVerbRejected == Spec => []NoVerbRejected
<1>1. IInv => NoVerbRejected
  BY DEF IInv
<1>2. QED
  BY ApingInvariant, <1>1, PTL

\* For every set of partner versions, one-way data goes only to a partner that
\* knows it.
THEOREM ApingOldPartner == Spec => []NoConfirmToOldPartner
<1>1. ASSUME IInv PROVE NoConfirmToOldPartner
  <2>1. s_stat = "confirm" => Confirming
    BY <1>1 DEF IInv,
       Phase, Starting, Versions, Between, Sending, Echoing, Confirming, Ended,
       Arriving, Turned, Returning, Returned, Listening, ClientQuiet, ServerQuiet
  <2>2. s_stat = "confirm" => SupportsOneWay(tp_version)
    BY <1>1, <2>1 DEF IInv, OneWayKnown, Confirming
  <2>3. tp_version[1] \in Nat /\ tp_version[2] \in Nat
    BY <1>1 DEF IInv, TypeOK
  <2>4. QED
    BY <2>2, <2>3 DEF NoConfirmToOldPartner, SupportsOneWay, OneWayVersion
<1>2. QED
  BY ApingInvariant, <1>1, PTL
=============================================================================
