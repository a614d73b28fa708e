----------------------------- MODULE AsuiteTools -----------------------------
(***************************************************************************)
(* A run of atell with atelld, or of arexec with arexecd.                  *)
(***************************************************************************)
EXTENDS Atell, Arexec

CONSTANTS
    Options, Users, Destinations, Texts, Commands   \* what a command line may say

\* Texts are C strings, the names that main sets fit into their fields, and
\* "side" is no name.
ASSUME ToolsAssumption ==
    /\ \A o \in Options : o \in Seq({"m", "t", "u", "p", "n"} \X STRING) /\ \A i \in DOMAIN o : o[i][2] # "side"
    /\ \A t \in Texts \cup Users \cup {Environ} : t \in Seq(STRING) /\ \A i \in DOMAIN t : t[i] # Nul
    /\ \A w \in Commands : w \in Seq(Seq(STRING))
    /\ \A o \in Outputs : o \in Seq(STRING)
    /\ Destinations \subseteq STRING
    /\ Fits("mode_name", "#INTER") /\ Fits("tp_name", "ATELLD") /\ Fits("tp_name", "AREXECD")

VARIABLE tool

toolsVars == <<session, target, tp_version, cpc, cexit, spc, sexit, convVars, atellVars, arexecVars, tool>>

ToolsInit ==
    /\ tool \in {"atell", "arexec"}
    /\ cpc = "arguments" /\ SessionInit /\ AtellInit /\ ArexecInit

AtellSteps == tool = "atell" /\ AtellProgram /\ UNCHANGED <<arexecVars, tool>>
ArexecSteps == tool = "arexec" /\ ArexecProgram /\ UNCHANGED <<atellVars, tool>>

ToolStarts ==
    \/ /\ tool = "atell"
       /\ \/ \E o \in Options, at \in BOOLEAN, u \in Users, d \in Destinations, t \in Texts, b \in {Nul, "?"} :
               AtellArguments(o, at, u, d, t, b)
          \/ \E x \in {"success", "failure"} : AtellUsage(x)
       /\ UNCHANGED <<arexecVars, tool>>
    \/ /\ tool = "arexec"
       /\ \/ \E o \in Options, d \in Destinations, w \in Commands : ArexecArguments(o, d, w)
          \/ \E x \in {"success", "failure"} : ArexecUsage(x)
       /\ UNCHANGED <<atellVars, tool>>

ToolsNext ==
    \/ ToolStarts \/ AtellSteps \/ ArexecSteps
    \/ Outage /\ UNCHANGED <<atellVars, arexecVars, tool>>

ToolsSpec == ToolsInit /\ [][ToolsNext]_toolsVars /\ WF_toolsVars(ToolStarts) /\ WF_toolsVars(AtellSteps) /\ WF_toolsVars(ArexecSteps)

-----------------------------------------------------------------------------
\* The variables have their types.
ToolsTyped ==
    /\ cexit \in {"running", "success", "failure", "crashed"} /\ sexit \in {"running", "success", "failure", "crashed"}
    /\ spc \in {"accept", "version", "receive", "display", "confirmed", "send", "popen_failed"}
    /\ Len(userid) < UseridSize /\ Len(message) <= MessageSize
    /\ Len(command) < CommandSize

\* Of the options that fit into a field the last one counts.
Fitting(opts, flag, field) == {i \in DOMAIN opts : opts[i][1] = flag /\ Fits(field, opts[i][2])}
Chosen(value, opts, flag, field, default) ==
    LET fit == Fitting(opts, flag, field)
    IN  \/ fit = {} /\ value = default
        \/ \E i \in fit : (\A j \in fit : j <= i) /\ value = opts[i][2]

\* The conversation is with the partner of the command line, and with the last
\* mode and TP it names, or the defaults, unless atell's partner is a symbolic
\* name, whose are used; as far as the names fit into their fields.
PartnerChosen ==
    cpc \notin {"arguments", "allocate"} /\ cexit = "running" =>
        LET opts == IF tool = "atell" THEN given.opts ELSE asked.opts
            dest == IF tool = "atell" THEN given.dest ELSE asked.dest
        IN
        /\ Fits("sym_dest_name", dest) \/ Qualified(dest) => target.partner = dest
        /\ tool = "atell" => (target.mode_name = "side" <=> ~Qualified(dest))
        /\ target.mode_name # "side" => Chosen(target.mode_name, opts, "m", "mode_name", "#INTER")
        /\ target.tp_name # "side" =>
              Chosen(target.tp_name, opts, "t", "tp_name", IF tool = "atell" THEN "ATELLD" ELSE "AREXECD")

\* What arexec.8:20-21 says of arexec's destination: it can be a symbolic one,
\* whose partner, TP and mode are used.  The code does not keep it: TLC refutes
\* it.
SymbolicDestination ==
    tool = "arexec" /\ cpc \notin {"arguments", "allocate"} /\ cexit = "running" =>
        (~Qualified(asked.dest) => target.tp_name = "side" /\ target.mode_name = "side")

\* The client ends, and so does the server if there was something to accept,
\* whatever happens to the conversation.
ToolEnds == <>(cexit # "running" /\ (sexit # "running" \/ (toS = <<>> /\ spc = "accept")))

\* atell's message is shown whole at the partner the command line names, on the
\* terminal of the user it is for or else on atelld's stderr, and success is
\* reported only then.
MessageShown == PartnerChosen /\ Delivered /\ ShownWhole

\* arexec's command and its output arrive whole.
CommandDone == ToolsTyped /\ CommandWhole /\ OutputWhole
=============================================================================
