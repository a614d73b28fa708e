------------------------------- MODULE Acopy -------------------------------
(***************************************************************************)
(* The program acopy (src/asuite/acopy.c): one file, one way, with the     *)
(* AFTP library.  It ends at the first call that fails, except when that   *)
(* is the reception of the file.                                           *)
(***************************************************************************)
EXTENDS AftpSession

VARIABLES
    step,          \* "arguments", "connect", "transfer", "close" or "ended"
    options,       \* what process_arguments made of the command line
    exit_status,   \* 0 or 1 once it has ended, 2 before
    result         \* history: the transfer was "copied", "refused" or "failed", "none" before

acopyVars == <<step, options, exit_status, result>>

AcopyInit ==
    /\ step = "arguments" /\ options = <<>> /\ exit_status = 2 /\ result = "none"

\* The process is over, and with it a conversation that is still open.
Ends(status) == step' = "ended" /\ exit_status' = status

\* process_arguments: "" is an option that was not given.
ProcessArguments(destination, mode, tp, data_type, sending, source, target) ==
    /\ step = "arguments"
    /\ options' = [destination |-> destination, mode_name |-> mode, tp_name |-> tp,
                   data_type |-> data_type, sending |-> sending, source |-> source, target |-> target]
    /\ IF /\ Length(mode) <= NameLimit["mode_name"] /\ Length(tp) <= NameLimit["tp_name"]
          /\ data_type \in {"ascii", "binary", "ebcdic"}
       THEN step' = "connect" /\ UNCHANGED exit_status
       ELSE Ends(1)
    /\ UNCHANGED <<result, sessionVars>>

\* Fault: the options are set after the conversation was allocated.
ConnectsFirst ==
    /\ step = "connect" /\ DestinationFits(options.destination)
    /\ LET s == aftp_set_destination(options.destination)
           n == [s EXCEPT !.mode_name = IF options.mode_name = "" THEN @ ELSE options.mode_name]
       IN  session' = n /\ aftp_connect(s)
    /\ step' = "transfer"
    /\ UNCHANGED <<options, exit_status, result, outages, server, local, cwd>>

\* main, from aftp_create to aftp_set_data_type
Connects ==
    /\ step = "connect"
    /\ LET s == aftp_set_destination(options.destination)
           n == [s EXCEPT !.mode_name = IF options.mode_name = "" THEN @ ELSE options.mode_name,
                          !.tp_name = IF options.tp_name = "" THEN @ ELSE options.tp_name]
       IN  \/ /\ DestinationFits(options.destination)
              /\ session' = [n EXCEPT !.data_type = options.data_type]
              /\ aftp_connect(n)
              /\ step' = "transfer" /\ UNCHANGED exit_status
           \/ Ends(1) /\ UNCHANGED <<session, conv, orphans>>
    /\ UNCHANGED <<options, result, outages, server, local, cwd>>

Goes(how) == result' = how /\ step' = "close" /\ UNCHANGED exit_status

Sends == aftp_send_file(options.source, options.target)
Receives ==
    Call(aftp_receive_file(options.source, options.target), ReceivesNothing(options.target),
         Goes("copied"), Goes("failed"))

\* Fault: a file that could not be sent does not end the program either.
TransfersUnchecked ==
    /\ step = "transfer"
    /\ \/ options.sending /\ Call(Sends, FilesKept, Goes("copied"), Goes("failed"))
       \/ options.sending /\ Unnoticed(FilesKept) /\ Goes("refused")
       \/ ~options.sending /\ Receives
    /\ UNCHANGED <<options, session, orphans, cwd>>

\* What aftpd refuses counts as sent.
Transfers ==
    /\ step = "transfer"
    /\ \/ options.sending /\ Call(Sends, FilesKept, Goes("copied"), result' = "failed" /\ Ends(1))
       \/ options.sending /\ Unnoticed(FilesKept) /\ Goes("refused")
       \/ ~options.sending /\ Receives
    /\ UNCHANGED <<options, session, orphans, cwd>>

\* Fault: aftp_close until it succeeds.
ClosesUntilDone ==
    /\ step = "close"
    /\ aftp_close(Ends(0), UNCHANGED <<step, exit_status>>)
    /\ UNCHANGED <<options, result, session, orphans, outages, server, local, cwd>>

\* aftp_close and aftp_destroy
Closes ==
    /\ step = "close"
    /\ aftp_close(Ends(0), Ends(1))
    /\ UNCHANGED <<options, result, session, orphans, outages, server, local, cwd>>

AcopyStep == Connects \/ Transfers \/ Closes

-----------------------------------------------------------------------------
\* acopy exits with 0 only if the session held to the end and aftpd answered
\* the file it was to send, though the answer may have been a refusal.  (For
\* a file to receive the exit status does not tell.)
ExitTold ==
    exit_status = 0 => outages = 0 /\ (options.sending => result \in {"copied", "refused"})

\* What acopy.8:77-80 says: a file that is sent is saved as the name behind
\* the colon.  The code does not keep it: TLC refutes it.
SavedAsNamed ==
    [][result = "none" /\ result' = "copied" /\ options.sending =>
          options.target \in server'.files[server.cwd]]_<<acopyVars, sessionVars>>

\* The conversation is allocated with the options of the command line.
OptionsUsed ==
    conv.state = "open" /\ ~conv.symbolic /\ step # "arguments" =>
        options.mode_name \in {"", conv.mode_name} /\ options.tp_name \in {"", conv.tp_name}

\* acopy ends.
AcopyEnds == step # "arguments" ~> step = "ended"
=============================================================================
