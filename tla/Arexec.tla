------------------------------- MODULE Arexec -------------------------------
(***************************************************************************)
(* arexec and arexecd (src/asuite/arexec.c, src/asuite/arexecd.c): a       *)
(* command is sent, run by the server, and its output sent back until the  *)
(* server ends the conversation.                                           *)
(*                                                                         *)
(* Commands and outputs are sequences of units, the name of the            *)
(* destination one unit; the shell is external, and so is getopt, glibc's. *)
(***************************************************************************)
EXTENDS CpicTool

CONSTANTS
    CommandSize,     \* MAX_COMMAND_LEN
    ReadSize,        \* units one fread of the server takes
    Outputs          \* the outputs a command may have

ASSUME ArexecAssumption == CommandSize \in Nat /\ CommandSize > 1 /\ ReadSize \in Nat \ {0}

VARIABLES
    asked,           \* history: options of the command line, destination, further words
    command,         \* what arexec sends
    executed,        \* the commands popen ran
    server_turn,     \* the server may send
    output,          \* what the server has still to read from the command
    produced,        \* history: all of it
    printed          \* what arexec wrote

arexecVars == <<asked, command, executed, server_turn, output, produced, printed>>

ArexecInit ==
    /\ asked = [opts |-> <<>>, dest |-> "", words |-> <<>>]
    /\ command = <<>> /\ executed = <<>> /\ server_turn = FALSE
    /\ output = <<>> /\ produced = <<>> /\ printed = <<>>

CommandOf(words) == FlattenSeq([i \in DOMAIN words |-> words[i] \o <<" ">>])

\* getopt permutes argv: an option counts wherever it stands, one among the
\* words of the command, too.  It is called again when the destination has
\* been taken, finds nothing but words, and sets optind back to the first of
\* them, which is the destination.
Operands(dest, words) == <<<<dest>>>> \o words

\* Fault: the last unit of the buffer may be used, too.
FitsCommandExactly(words) == Len(CommandOf(words)) <= CommandSize

FitsCommand(words) == Len(CommandOf(words)) < CommandSize

\* The defaults of main, and process_arguments: the first word that is no
\* option is always taken for a partner LU's name.
ArexecArguments(opts, dest, words) ==
    /\ ClientAt("arguments")
    /\ asked' = [opts |-> opts, dest |-> dest, words |-> words]
    /\ LET defaults == cpic_session_set_symbolic_name(
                         cpic_session_set_mode_name(
                           cpic_session_set_tp_name(session, "AREXECD"), "#INTER"), "AREXECD")
       IN session' = cpic_session_set_destination(SetOptions(defaults, opts), dest)
    /\ IF words # <<>> /\ FitsCommand(Operands(dest, words))
         THEN cpc' = "allocate" /\ command' = CommandOf(Operands(dest, words)) /\ UNCHANGED cexit
         ELSE ClientExits("failure") /\ UNCHANGED command
    /\ UNCHANGED <<target, tp_version, spc, sexit, convVars, executed, server_turn, output, produced, printed>>

\* A command line that is refused, wherever its options stand: -v exits with
\* success; an option that arexec does not have, one at the very end, no word
\* at all, or a first word that begins with '?' with failure.
ArexecUsage(x) ==
    /\ ClientAt("arguments") /\ ClientExits(x)
    /\ UNCHANGED <<session, target, tp_version, spc, sexit, convVars, arexecVars>>

\* cmsend, and the first cmrcv, which gives the turn.
SendsCommand ==
    /\ ClientAt("command")
    /\ \/ toS' = Sent(toS, Data(command) \o Stat("send")) /\ cpc' = "output" /\ UNCHANGED cexit
       \/ Broken /\ ClientExits("failure") /\ UNCHANGED toS
    /\ UNCHANGED <<ClientLeaves, toC, arexecVars>>

\* Until cmrcv returns something other than CM_OK
Prints ==
    /\ ClientAt("output")
    /\ \/ \E m \in cmrcv(toC, CommandSize) :
            /\ toC' = m.rest /\ printed' = printed \o m.d
            /\ IF m.s = "dealloc" THEN ClientExits("success") ELSE UNCHANGED <<cpc, cexit>>
       \/ Broken /\ ClientExits("failure") /\ UNCHANGED <<toC, printed>>
    /\ UNCHANGED <<ClientLeaves, toS, asked, command, executed, server_turn, output, produced>>

-----------------------------------------------------------------------------
(***************************************************************************)
(* arexecd.                                                                *)
(***************************************************************************)
\* One cmrcv; whether it brought the turn, too, is not looked at.
CommandReceived ==
    /\ ServerAt("receive")
    /\ \/ \E m \in cmrcv(toS, CommandSize - 1), out \in Outputs :
            /\ toS' = m.rest /\ server_turn' = (m.s = "send")
            /\ \/ /\ executed' = Append(executed, m.d) /\ output' = out /\ produced' = out
                  /\ spc' = "send"
               \/ UNCHANGED <<executed, output, produced>> /\ spc' = "popen_failed"
            /\ UNCHANGED sexit
       \/ /\ Broken /\ ServerExits("failure")
          /\ UNCHANGED <<toS, executed, server_turn, output, produced>>
    /\ UNCHANGED <<ServerLeaves, toC, asked, command, printed>>

\* The error text, and then fclose(NULL)
PopenFailed ==
    /\ ServerAt("popen_failed")
    /\ \/ server_turn /\ toC' = Sent(toC, Data(<<"error">>)) /\ ServerExits("crashed")
       \/ (Broken \/ ~server_turn) /\ ServerExits("failure") /\ UNCHANGED toC
    /\ UNCHANGED <<ServerLeaves, toS, arexecVars>>

\* Fault: a short read is the last one.
SendsOutputOnce ==
    /\ ServerAt("send") /\ output # <<>>
    /\ LET n == IF Len(output) < ReadSize THEN Len(output) ELSE ReadSize IN
         \/ /\ server_turn
            /\ toC' = Sent(toC, Data(SubSeq(output, 1, n))) /\ output' = <<>>
            /\ UNCHANGED <<spc, sexit>>
         \/ (Broken \/ ~server_turn) /\ ServerExits("failure") /\ UNCHANGED <<toC, output>>
    /\ UNCHANGED <<ServerLeaves, toS, asked, command, executed, server_turn, produced, printed>>

\* execute_and_send_output; in Receive state cmsend fails.
SendsOutput ==
    /\ ServerAt("send") /\ output # <<>>
    /\ LET n == IF Len(output) < ReadSize THEN Len(output) ELSE ReadSize IN
         \/ /\ server_turn
            /\ toC' = Sent(toC, Data(SubSeq(output, 1, n))) /\ output' = SubSeq(output, n + 1, Len(output))
            /\ UNCHANGED <<spc, sexit>>
         \/ (Broken \/ ~server_turn) /\ ServerExits("failure") /\ UNCHANGED <<toC, output>>
    /\ UNCHANGED <<ServerLeaves, toS, asked, command, executed, server_turn, produced, printed>>

\* Fault: the program returns without cmdeal, and the conversation stays.
ArexecdEndsSilently ==
    /\ ServerAt("send") /\ output = <<>> /\ ServerExits("success")
    /\ UNCHANGED <<toC, ServerLeaves, toS, arexecVars>>

\* cmsdt and cmdeal
ArexecdEnds ==
    /\ ServerAt("send") /\ output = <<>>
    /\ \/ server_turn /\ toC' = Sent(toC, Stat("dealloc")) /\ ServerExits("success")
       \/ (Broken \/ ~server_turn) /\ ServerExits("failure") /\ UNCHANGED toC
    /\ UNCHANGED <<ServerLeaves, toS, arexecVars>>

-----------------------------------------------------------------------------
ArexecProgram ==
    \/ UNCHANGED arexecVars /\ (Allocates \/ SendsVersion \/ ReceivesVersion("command"))
    \/ SendsCommand \/ Prints
    \/ UNCHANGED arexecVars /\ (Accepts \/ ExchangesVersion)
    \/ CommandReceived \/ PopenFailed \/ SendsOutput \/ ArexecdEnds

-----------------------------------------------------------------------------
\* The server runs what arexec makes of its words, the destination's name in
\* front and the options taken out, whole, and once.
CommandWhole ==
    /\ Len(executed) <= 1
    /\ \A i \in DOMAIN executed : executed[i] = CommandOf(Operands(asked.dest, asked.words))

\* What arexec.8:27-28 says: the command string of the command line is what is
\* executed on the remote computer.  The code does not keep it: TLC refutes it.
CommandAsGiven == \A i \in DOMAIN executed : executed[i] = CommandOf(asked.words)

\* arexec ends with success only when the command ran and all of its output,
\* in order and nothing else, was printed.
OutputWhole ==
    cexit = "success" /\ cpc = "output" => Len(executed) = 1 /\ printed = produced
=============================================================================
