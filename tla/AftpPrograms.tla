---------------------------- MODULE AftpPrograms ----------------------------
(***************************************************************************)
(* The two programs on the AFTP library, aftp and acopy, each in a process *)
(* of its own: a behaviour is a run of one of them.                        *)
(***************************************************************************)
EXTENDS AftpClient, Acopy

CONSTANTS
    Destinations, ModeNames, TpNames   \* options of acopy

allVars == <<vars, acopyVars>>

Init ==
    /\ SessionInit /\ ClientInit /\ AcopyInit
    /\ pc \in {"prompt", "acopy"}

Next ==
    \/ ClientNext /\ UNCHANGED acopyVars
    \/ /\ pc = "acopy"
       /\ \/ \E d \in Destinations, m \in ModeNames, t \in TpNames, y \in {"ascii", "ebcdic", "other"},
                sending \in BOOLEAN, from, to \in Names :
               ProcessArguments(d, m, t, y, sending, from, to)
          \/ AcopyStep
       /\ UNCHANGED <<clientVars, history>>

\* The programs go on; nothing is assumed of the user.
Fairness ==
    /\ WF_allVars(Program /\ UNCHANGED acopyVars)
    /\ WF_allVars(pc = "acopy" /\ AcopyStep /\ UNCHANGED <<clientVars, history>>)

Spec == Init /\ [][Next]_allVars /\ Fairness

-----------------------------------------------------------------------------
\* The variables have their types.
TypeOK ==
    /\ pc \in {"prompt", "run", "ask", "act", "free", "exited", "aborted", "fatal", "acopy"}
    /\ conv.state \in {"none", "open", "broken"} /\ orphans \in Nat /\ outages \in 0 .. MaxOutages
    /\ server.dirs \subseteq RemoteDir /\ server.cwd \in server.dirs \cup {""} /\ cwd \in LocalDir
    /\ index \in 0 .. Len(filelist) /\ skipped \in 0 .. Len(listed)
    /\ consent \in {"none", "yes", "go", "no", "quit"}
    /\ exit_status \in 0 .. 2 /\ (exit_status = 2 <=> step # "ended")

\* What aftp believes of its session is so, after any sequence of commands
\* and outages: the connection, the settings, the buffers of the line.
SessionTrue ==
    TypeOK /\ InputFits /\ NeverFatal /\ ConnectedTrue /\ SettingsInUse /\ NoOrphans

\* put, get and del work through their list, each element once and none
\* without the user's consent.
ListsWorked == []EachOnce /\ Confirmed

\* acopy uses the options of its command line, and its exit status says no
\* more than is so.
AcopyTrue == ExitTold /\ OptionsUsed

\* Every command of aftp comes to an end or to a question for the user, and
\* acopy ends.
ProgramsEnd == CommandEnds /\ AcopyEnds
=============================================================================
