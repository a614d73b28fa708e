------------------------------- MODULE Atell -------------------------------
(***************************************************************************)
(* atell and atelld (src/asuite/atell.c, src/asuite/atelld.c): a message,  *)
(* perhaps for one user, is sent and shown on a terminal, and the sender   *)
(* waits for the confirmation.                                             *)
(*                                                                         *)
(* Texts are sequences of units; the sizes of the buffers are counted in   *)
(* units, the terminating Nul included.                                    *)
(***************************************************************************)
EXTENDS CpicTool

CONSTANTS
    MessageSize,     \* MAX_MESSAGE_LEN
    PointerSize,     \* sizeof(message-1)
    UseridSize,      \* MAX_DEST_USERID
    Environ,         \* the strings of the environment, behind argv's NULL
    LoggedIn         \* users with a terminal

ASSUME AtellAssumption ==
    /\ MessageSize \in Nat /\ UseridSize \in Nat /\ PointerSize \in Nat
    /\ 0 < PointerSize /\ PointerSize < MessageSize /\ 0 < UseridSize /\ UseridSize <= MessageSize

VARIABLES
    given,           \* history: what the command line said
    send_buf,        \* what cmsend will send as the message
    dest_userid,
    message, userid, \* what atelld has
    shown            \* what appeared on terminals

atellVars == <<given, send_buf, dest_userid, message, userid, shown>>

AtellInit ==
    /\ given = [opts |-> <<>>, user |-> <<>>, dest |-> "", text |-> <<>>]
    /\ send_buf = <<>> /\ dest_userid = <<>>
    /\ message = <<>> /\ userid = <<>> /\ shown = <<>>

\* A buffer as a C string
CString(b) == SelectInSeq(b, LAMBDA u : u = Nul)
Text(b) == IF CString(b) = 0 THEN b ELSE SubSeq(b, 1, CString(b) - 1)

\* What is sent for a text: one that does not fit is cut to the size of a
\* pointer, and its length is still the text's: the rest of the buffer and
\* what lies behind it goes along.
MessageOf(text, beyond) ==
    LET message_length == Len(text) + 1 IN
    IF message_length < MessageSize
      THEN text \o <<Nul>>
      ELSE [i \in 1 .. message_length |->
              IF i <= PointerSize THEN text[i] ELSE IF i <= MessageSize THEN Nul ELSE beyond]

\* getopt has moved argv on by optind, and argv[optind] is counted from there.
WordsOf(opts) == 1 + Len(opts) + Cardinality({i \in DOMAIN opts : opts[i][1] # "n"})
ArgvMessage(opts, text) ==
    CASE WordsOf(opts) = 1 -> text
      [] WordsOf(opts) = 2 -> Unset
      [] OTHER -> Environ

SetPartner(This, dest) ==
    IF Qualified(dest) THEN cpic_session_set_destination(This, dest)
                       ELSE cpic_session_set_symbolic_name(This, dest)

\* The defaults of main, and process_arguments; strlen(NULL) ends the program.
\* at: there is an '@' before the destination, and a user, perhaps an empty one.
AtellArguments(opts, at, user, dest, text, beyond) ==
    /\ ClientAt("arguments") /\ (user # <<>> => at)
    /\ given' = [opts |-> opts, user |-> user, dest |-> dest, text |-> text]
    /\ LET defaults == cpic_session_set_symbolic_name(
                         cpic_session_set_mode_name(
                           cpic_session_set_tp_name(session, "ATELLD"), "#INTER"), "ATELLD")
           chosen   == SetOptions(defaults, opts)
           user_ok  == Len(user) < UseridSize
       IN
         /\ session' = SetPartner(IF user_ok /\ at
                                    THEN cpic_session_set_userid(chosen, "user") ELSE chosen, dest)
         /\ dest_userid' = IF user_ok THEN user ELSE <<>>
    /\ IF ArgvMessage(opts, text) = Unset
         THEN ClientExits("crashed") /\ UNCHANGED send_buf
         ELSE /\ send_buf' = MessageOf(ArgvMessage(opts, text), beyond)
              /\ cpc' = "allocate" /\ UNCHANGED cexit
    /\ UNCHANGED <<target, tp_version, spc, sexit, convVars, message, userid, shown>>

\* usage(), and -v: nothing is sent.
AtellUsage(x) ==
    /\ ClientAt("arguments") /\ ClientExits(x)
    /\ UNCHANGED <<session, target, tp_version, spc, sexit, convVars, atellVars>>

-----------------------------------------------------------------------------
UseridSupported == tp_version[1] > 2 \/ (tp_version[1] = 2 /\ tp_version[2] >= 2)

SendsMessage ==
    /\ ClientAt("message")
    /\ \/ toS' = Sent(toS, Data(send_buf)) /\ cpc' = "userid" /\ UNCHANGED cexit
       \/ Broken /\ ClientExits("failure") /\ UNCHANGED toS
    /\ UNCHANGED <<ClientLeaves, toC, atellVars>>

SendsUserid ==
    /\ ClientAt("userid")
    /\ IF dest_userid # <<>> /\ UseridSupported
         THEN \/ toS' = Sent(toS, Data(dest_userid)) /\ cpc' = "deallocate" /\ UNCHANGED cexit
              \/ Broken /\ ClientExits("failure") /\ UNCHANGED toS
         ELSE cpc' = "deallocate" /\ UNCHANGED <<toS, cexit>>
    /\ UNCHANGED <<ClientLeaves, toC, atellVars>>

\* cmdeal with the sync level CM_CONFIRM
Deallocates ==
    /\ ClientAt("deallocate")
    /\ toS' = Sent(toS, Stat("confirm_dealloc")) /\ cpc' = "confirm"
    /\ UNCHANGED <<ClientLeaves, cexit, toC, atellVars>>

\* Fault: cmdeal does not wait.
AtellEndsAtOnce ==
    /\ ClientAt("confirm") /\ ClientExits("success")
    /\ UNCHANGED <<ClientLeaves, toS, toC, atellVars>>

AtellEnds ==
    /\ ClientAt("confirm")
    /\ \/ \E m \in cmrcv(toC, 1) : m.s = "confirmed" /\ toC' = m.rest /\ ClientExits("success")
       \/ Broken /\ ClientExits("failure") /\ UNCHANGED toC
    /\ UNCHANGED <<ClientLeaves, toS, atellVars>>

-----------------------------------------------------------------------------
(***************************************************************************)
(* atelld: receive_message.                                                *)
(***************************************************************************)
\* Fault: the message is shown with its first record.
MessageReceivedEarly ==
    /\ ServerAt("receive")
    /\ \/ \E m \in cmrcv(toS, MessageSize) :
            /\ toS' = m.rest
            /\ message' = IF message = <<>> THEN Text(m.d) ELSE message
            /\ userid' = IF message # <<>> /\ userid = <<>> THEN Text(m.d) ELSE userid
            /\ spc' = "display" /\ UNCHANGED sexit
       \/ Broken /\ ServerExits("failure") /\ UNCHANGED <<toS, message, userid>>
    /\ UNCHANGED <<ServerLeaves, toC, given, send_buf, dest_userid, shown>>

\* The first text that is not empty is the message, the second the user.
MessageReceived ==
    /\ ServerAt("receive")
    /\ \/ \E m \in cmrcv(toS, MessageSize) :
            /\ toS' = m.rest
            /\ message' = IF message = <<>> THEN Text(m.d) ELSE message
            /\ userid' = IF message # <<>> /\ userid = <<>>
                           THEN SubSeq(Text(m.d), 1, IF Len(Text(m.d)) < UseridSize THEN Len(Text(m.d)) ELSE UseridSize - 1)
                           ELSE userid
            /\ spc' = IF m.s = "confirm_dealloc" THEN "display" ELSE "receive"
            /\ UNCHANGED sexit
       \/ Broken /\ ServerExits("failure") /\ UNCHANGED <<toS, message, userid>>
    /\ UNCHANGED <<ServerLeaves, toC, given, send_buf, dest_userid, shown>>

\* display_message: the user's terminal, /dev/pts/1 for nobody in particular,
\* or stderr when there is none or it cannot be opened.
DisplayMessage(tty) ==
    /\ ServerAt("display")
    /\ \/ tty = <<"stderr">>
       \/ tty = <<"console">> /\ userid = <<>>
       \/ tty = userid /\ userid \in LoggedIn
    /\ shown' = Append(shown, [text |-> message, user |-> userid, tty |-> tty])
    /\ spc' = "confirmed"
    /\ UNCHANGED <<ServerLeaves, sexit, toS, toC, given, send_buf, dest_userid, message, userid>>

\* cmcfmd
Confirms ==
    /\ ServerAt("confirmed")
    /\ \/ toC' = Sent(toC, Stat("confirmed")) /\ ServerExits("success")
       \/ Broken /\ ServerExits("failure") /\ UNCHANGED toC
    /\ UNCHANGED <<ServerLeaves, toS, atellVars>>

-----------------------------------------------------------------------------
AtellProgram ==
    \/ UNCHANGED atellVars /\ (Allocates \/ SendsVersion \/ ReceivesVersion("message"))
    \/ SendsMessage \/ SendsUserid \/ Deallocates \/ AtellEnds
    \/ UNCHANGED atellVars /\ (Accepts \/ ExchangesVersion)
    \/ MessageReceived
    \/ \E tty \in LoggedIn \cup {<<"console">>, <<"stderr">>} : DisplayMessage(tty)
    \/ Confirms

-----------------------------------------------------------------------------
\* A command line whose message the buffers hold and that has no options.
Plain ==
    /\ given.opts = <<>> /\ given.text # <<>> /\ Len(given.text) + 1 < MessageSize
    /\ Len(given.user) < UseridSize

\* atell reports success only after the message, and the user if the server
\* takes one, was shown as given, once.
Delivered ==
    cexit = "success" /\ cpc = "confirm" /\ Plain =>
        /\ Len(shown) = 1 /\ shown[1].text = given.text
        /\ shown[1].user = IF UseridSupported THEN given.user ELSE <<>>

\* Nothing is shown while the sender may still have something to say, and so
\* a message for one user is shown on the terminal of that user or, when there
\* is none, on atelld's stderr, and never on the one of nobody in particular.
ShownWhole ==
    \A i \in DOMAIN shown :
        /\ toS = <<>>
        /\ Plain /\ given.user # <<>> /\ UseridSupported => shown[i].tty \in {given.user, <<"stderr">>}
=============================================================================
