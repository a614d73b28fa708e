---------------------------- MODULE TelnetStream ----------------------------
(***************************************************************************)
(* One client of tn3270d from accept() to the end of its session: the      *)
(* telnet stream of libtnX (src/libtnX/tnX_stream.c), the record list      *)
(* (src/libtnX/tnX_record.c), the negotiation of the top half and the test *)
(* session of the bottom half (src/tn3270d/tn3270_host.c).                 *)
(*                                                                         *)
(* Bytes are named by what the decoder tells apart: the telnet codes, the  *)
(* options, and data bytes, of which "0" is the zero byte.  Any byte may   *)
(* be late: TCP cuts the stream anywhere, and with a wait of 0 msec        *)
(* telnet_stream_get_next returns -1 as soon as the next byte is not there.*)
(*                                                                         *)
(* The terminal is external.  It escapes as telnet_stream_escape does.     *)
(***************************************************************************)
EXTENDS Integers, Sequences, SequencesExt

CONSTANTS Pieces,         \* runs of record data the terminal may send
          TerminalVerbs,  \* verbs it may send
          Options,        \* options it may name after a verb
          SbData,         \* subnegotiations it may send
          MaxItems        \* bound on what it sends

Verbs == {"DO", "DONT", "WILL", "WONT"}

\* A piece is not empty.  A terminal type comes behind IS (RFC 1091), which
\* the host does not look at; and in a subnegotiation the decoder takes an
\* escaped IAC with SE behind it for the end.
ASSUME StreamAssumption ==
    /\ \A p \in Pieces \cup SbData : p \in Seq(STRING)
    /\ <<>> \notin Pieces
    /\ TerminalVerbs \subseteq Verbs /\ Options \subseteq STRING
    /\ \A s \in SbData :
          /\ Len(s) > 1 /\ s[1] = "TERMINAL_TYPE" => s[2] = "IS"
          /\ \A i \in 1 .. Len(s) - 1 : s[i] = "IAC" => s[i + 1] # "SE"
    /\ MaxItems \in Nat

Items == [kind : {"data"}, bytes : Pieces]
         \cup [kind : {"eor", "nop"}]
         \cup [kind : {"verb"}, verb : TerminalVerbs, what : Options]
         \cup [kind : {"sb"}, bytes : SbData]

VARIABLES
    phase,      \* "offer", "await", "negotiate" (the top half), "idle", "receive"
                \* (the bottom half), or how the session ended
    round,      \* i, the index into hostDoTable
    state,      \* This->state
    verb,       \* the local variable of telnet_stream_get_byte
    sb_buf,     \* This->sb_buf
    current,    \* This->current_record, <<>> for NULL
    records,    \* This->records
    term,       \* the stream's TERM variable, <<>> when not set
    out,        \* what the host has answered to verbs
    wire,       \* bytes sent by the terminal and not yet read
    eof,        \* the terminal has closed
    sent,       \* history: what the terminal has sent
    taken       \* history: the records the bottom half has taken

streamVars == <<state, verb, sb_buf, current, records, term, out>>
terminalVars == <<eof, sent>>
connectionVars == <<phase, round, streamVars, wire, terminalVars, taken>>

Rounds == 3     \* the rows of hostDoTable

StreamInit ==
    /\ phase = "offer" /\ round = 1
    /\ state = "DATA" /\ verb = "unset"
    /\ sb_buf = <<>> /\ current = <<>> /\ records = <<>>
    /\ term = <<>> /\ out = <<>>
    /\ wire = <<>> /\ eof = FALSE
    /\ sent = <<>> /\ taken = <<>>

-----------------------------------------------------------------------------
(***************************************************************************)
(* The terminal.                                                           *)
(***************************************************************************)

\* telnet_stream_escape
Escaped(b) == IF b = "IAC" THEN <<b, b>> ELSE <<b>>
Escape(bytes) == FlattenSeq([i \in DOMAIN bytes |-> Escaped(bytes[i])])

Encode(item) ==
    CASE item.kind = "data" -> Escape(item.bytes)
      [] item.kind = "eor"  -> <<"IAC", "EOR">>
      [] item.kind = "nop"  -> <<"IAC", "NOP">>
      [] item.kind = "verb" -> <<"IAC", item.verb, item.what>>
      [] item.kind = "sb"   -> <<"IAC", "SB">> \o Escape(item.bytes) \o <<"IAC", "SE">>

\* The records of what was sent, and the one that is not ended yet.
Extended(r, item) ==
    CASE item.kind = "data" -> [r EXCEPT !.open = @ \o item.bytes]
      [] item.kind = "eor"  -> [done |-> Append(r.done, r.open), open |-> <<>>]
      [] OTHER              -> r
SentRecords(items) ==
    LET upTo[n \in 0 .. Len(items)] ==
          IF n = 0 THEN [done |-> <<>>, open |-> <<>>] ELSE Extended(upTo[n - 1], items[n])
    IN  upTo[Len(items)]

\* A terminal ends no record that it has not begun.
TerminalSends(item) ==
    /\ ~eof
    /\ Len(sent) < MaxItems
    /\ item.kind = "eor" => SentRecords(sent).open # <<>>
    /\ wire' = wire \o Encode(item)
    /\ sent' = Append(sent, item)
    /\ UNCHANGED <<phase, round, streamVars, eof, taken>>

TerminalCloses ==
    /\ ~eof
    /\ eof' = TRUE
    /\ UNCHANGED <<phase, round, streamVars, wire, sent, taken>>

-----------------------------------------------------------------------------
(***************************************************************************)
(* telnet_stream_accept: three offers, each followed by a wait of at most  *)
(* five seconds and by telnet_stream_handle_receive.                       *)
(***************************************************************************)
Offer ==
    /\ phase = "offer"
    /\ phase' = "await"
    /\ UNCHANGED <<round, streamVars, wire, terminalVars, taken>>

\* send() fails once the terminal has gone.
OfferFails ==
    /\ phase = "offer" /\ eof
    /\ phase' = "failed"
    /\ UNCHANGED <<round, streamVars, wire, terminalVars, taken>>

Answered ==
    /\ phase = "await"
    /\ wire # <<>> \/ eof
    /\ phase' = "negotiate"
    /\ UNCHANGED <<round, streamVars, wire, terminalVars, taken>>

\* Fault: the wait for an answer has no limit.
NoAnswerWaits ==
    /\ phase = "await" /\ eof
    /\ phase' = "failed"
    /\ UNCHANGED <<round, streamVars, wire, terminalVars, taken>>

NoAnswer ==
    /\ phase = "await"
    /\ phase' = "failed"
    /\ UNCHANGED <<round, streamVars, wire, terminalVars, taken>>

-----------------------------------------------------------------------------
(***************************************************************************)
(* telnet_stream_handle_receive and telnet_stream_get_byte, one byte at a  *)
(* time.  The state NO_DATA becomes DATA before the next byte is read, so  *)
(* it is not told apart from DATA.                                         *)
(***************************************************************************)
Receiving == phase \in {"negotiate", "receive"}

Reads(b) ==
    /\ Receiving
    /\ wire # <<>> /\ b = Head(wire)
    /\ wire' = Tail(wire)
    /\ UNCHANGED <<round, terminalVars, taken>>

\* The body of handle_receive for a data byte.
AppendByte(b) == current' = Append(current, b) /\ records' = records

\* ... and for -END_OF_RECORD: with no current record, the code itself, cut to
\* a byte, becomes data.
EndRecord ==
    IF current # <<>>
      THEN records' = Append(records, current) /\ current' = <<>>
      ELSE current' = <<"231">> /\ records' = records

ReadData(b) ==
    /\ state = "DATA"
    /\ Reads(b)
    /\ IF b = "IAC" THEN state' = "HAVE_IAC" /\ UNCHANGED <<current, records>>
                    ELSE state' = state /\ AppendByte(b)
    /\ UNCHANGED <<phase, verb, sb_buf, term, out>>

\* Fault: the escaped code is taken for the start of another one.
ReadEscapedLost(b) ==
    /\ state = "HAVE_IAC" /\ b = "IAC"
    /\ Reads(b)
    /\ UNCHANGED <<phase, streamVars>>

ReadEscaped(b) ==
    /\ state = "HAVE_IAC" /\ b = "IAC"
    /\ Reads(b)
    /\ state' = "DATA"
    /\ AppendByte(b)
    /\ UNCHANGED <<phase, verb, sb_buf, term, out>>

ReadEndOfRecord(b) ==
    /\ state = "HAVE_IAC" /\ b = "EOR"
    /\ Reads(b)
    /\ state' = "DATA"
    /\ EndRecord
    /\ UNCHANGED <<phase, verb, sb_buf, term, out>>

ReadVerb(b) ==
    /\ state = "HAVE_IAC" /\ b \in Verbs
    /\ Reads(b)
    /\ state' = "HAVE_VERB" /\ verb' = b
    /\ UNCHANGED <<phase, sb_buf, current, records, term, out>>

ReadSubnegotiation(b) ==
    /\ state = "HAVE_IAC" /\ b = "SB"
    /\ Reads(b)
    /\ state' = "HAVE_SB" /\ sb_buf' = <<>>
    /\ UNCHANGED <<phase, verb, current, records, term, out>>

ReadUnknown(b) ==
    /\ state = "HAVE_IAC" /\ b \notin Verbs \cup {"IAC", "EOR", "SB"}
    /\ Reads(b)
    /\ state' = "DATA"
    /\ UNCHANGED <<phase, verb, sb_buf, current, records, term, out>>

\* telnet_stream_host_verb
HostVerb(v, what) ==
    CASE v = "WILL" /\ what = "NEW_ENVIRON"   -> <<"SB_Str_NewEnv">>
      [] v = "WILL" /\ what = "TERMINAL_TYPE" -> <<"SB_Str_TermType">>
      [] v = "WILL" /\ what \in {"END_OF_RECORD", "TRANSMIT_BINARY"} -> <<<<"WILL", what>>>>
      [] OTHER -> <<>>

\* What the local variable may hold: the verb, if this call of get_byte has read
\* it, and anything if an earlier call has.
VerbRead == IF verb = "unset" THEN Verbs \cup {"other"} ELSE {verb}

ReadOption(b) ==
    /\ state = "HAVE_VERB"
    /\ Reads(b)
    /\ \E v \in VerbRead : out' = out \o HostVerb(v, b)
    /\ state' = "DATA"
    /\ UNCHANGED <<phase, verb, sb_buf, current, records, term>>

\* The answer cannot be sent: -2, as for a disconnection.
ReplyFails(b) ==
    /\ state = "HAVE_VERB" /\ eof
    /\ Reads(b)
    /\ \E v \in VerbRead : HostVerb(v, b) # <<>>
    /\ phase' = IF phase = "negotiate" THEN "failed" ELSE "closed"
    /\ UNCHANGED streamVars

ReadSb(b) ==
    /\ state = "HAVE_SB"
    /\ Reads(b)
    /\ IF b = "IAC" THEN state' = "HAVE_SB_IAC" /\ sb_buf' = sb_buf
                    ELSE state' = state /\ sb_buf' = Append(sb_buf, b)
    /\ UNCHANGED <<phase, verb, current, records, term, out>>

\* Escaped or not, the second IAC leaves the state alone.
ReadSbEscaped(b) ==
    /\ state = "HAVE_SB_IAC" /\ b = "IAC"
    /\ Reads(b)
    /\ sb_buf' = Append(sb_buf, b)
    /\ UNCHANGED <<phase, state, verb, current, records, term, out>>

\* The first position of a byte, 0 if it is not there.
UpTo(bytes, stop) ==
    SelectInSeq(bytes, LAMBDA b : b = stop)

\* Fault: IS is taken for the first byte of the terminal type.
HostSbKeepsIs(sb) ==
    LET name == SubSeq(sb, 2, Len(sb))
    IN  IF sb # <<>> /\ sb[1] = "TERMINAL_TYPE"
          THEN IF UpTo(name, "IAC") = 0 THEN name ELSE SubSeq(name, 1, UpTo(name, "IAC") - 1)
          ELSE term

\* telnet_stream_host_sb: the new value of TERM.
HostSb(sb) ==
    LET name == SubSeq(sb, 3, Len(sb))
    IN  IF sb # <<>> /\ sb[1] = "TERMINAL_TYPE"
          THEN IF UpTo(name, "IAC") = 0 THEN name ELSE SubSeq(name, 1, UpTo(name, "IAC") - 1)
          ELSE term

ReadSbEnd(b) ==
    /\ state = "HAVE_SB_IAC" /\ b = "SE"
    /\ Reads(b)
    /\ term' = HostSb(sb_buf)
    /\ sb_buf' = <<>> /\ state' = "DATA"
    /\ UNCHANGED <<phase, verb, current, records, out>>

ReadSbOther(b) ==
    /\ state = "HAVE_SB_IAC" /\ b \notin {"IAC", "SE"}
    /\ Reads(b)
    /\ state' = "HAVE_SB"
    /\ UNCHANGED <<phase, verb, sb_buf, current, records, term, out>>

ReadByte ==
    \E b \in {Head(wire)} :
        \/ ReadData(b)
        \/ ReadEscaped(b) \/ ReadEndOfRecord(b) \/ ReadVerb(b) \/ ReadSubnegotiation(b)
        \/ ReadUnknown(b)
        \/ ReadOption(b) \/ ReplyFails(b)
        \/ ReadSb(b) \/ ReadSbEscaped(b) \/ ReadSbEnd(b) \/ ReadSbOther(b)

-----------------------------------------------------------------------------
(***************************************************************************)
(* The next byte is not there: handle_receive returns, and so does         *)
(* get_byte, whose verb is lost.                                           *)
(***************************************************************************)
\* Fault: one row too many of hostDoTable.
NegotiationGoesPast ==
    /\ phase = "negotiate"
    /\ wire # <<>> \/ ~eof
    /\ IF round <= Rounds THEN phase' = "offer" /\ round' = round + 1
                          ELSE phase' = "idle" /\ round' = round
    /\ verb' = "unset"
    /\ UNCHANGED <<state, sb_buf, current, records, term, out, wire, terminalVars, taken>>

NegotiationGoesOn ==
    /\ phase = "negotiate"
    /\ wire # <<>> \/ ~eof
    /\ IF round < Rounds THEN phase' = "offer" /\ round' = round + 1
                         ELSE phase' = "idle" /\ round' = round
    /\ verb' = "unset"
    /\ UNCHANGED <<state, sb_buf, current, records, term, out, wire, terminalVars, taken>>

Disconnected ==
    /\ Receiving
    /\ wire = <<>> /\ eof
    /\ phase' = IF phase = "negotiate" THEN "failed" ELSE "closed"
    /\ UNCHANGED <<round, streamVars, wire, terminalVars, taken>>

\* select() of the server's loop reports the client.
Readable ==
    /\ phase = "idle"
    /\ wire # <<>> \/ eof
    /\ phase' = "receive"
    /\ UNCHANGED <<round, streamVars, wire, terminalVars, taken>>

\* readMDTfields_2 with no complete record.
NoRecord ==
    /\ phase = "receive"
    /\ wire # <<>> \/ ~eof
    /\ records = <<>>
    /\ phase' = "idle" /\ verb' = "unset"
    /\ UNCHANGED <<round, state, sb_buf, current, records, term, out, wire, terminalVars, taken>>

\* readMDTfields_2: one record is taken and three of its bytes are read.  The
\* assertion of tnX_record_get_byte aborts the process, and the third byte, if it
\* is not zero, ends the session.
TakeRecord ==
    /\ phase = "receive"
    /\ wire # <<>> \/ ~eof
    /\ records # <<>>
    /\ records' = Tail(records) /\ taken' = Append(taken, Head(records))
    /\ phase' = IF Len(Head(records)) < 3 THEN "aborted"
             ELSE IF Head(records)[3] # "0" THEN "closed" ELSE "idle"
    /\ verb' = "unset"
    /\ UNCHANGED <<round, state, sb_buf, current, term, out, wire, terminalVars>>

-----------------------------------------------------------------------------
Terminal == TerminalCloses \/ \E i \in Items : TerminalSends(i)

Host ==
    \/ Offer \/ OfferFails \/ Answered \/ NoAnswer \/ NegotiationGoesOn
    \/ Readable
    \/ wire # <<>> /\ ReadByte
    \/ Disconnected \/ NoRecord \/ TakeRecord

StreamNext == Terminal \/ Host

\* The host is one process; the terminal need not do anything.
StreamSpec == StreamInit /\ [][StreamNext]_connectionVars /\ WF_connectionVars(Host)

-----------------------------------------------------------------------------
Ends == {"failed", "closed", "aborted"}
Bytes == {"IAC", "EOR", "NOP", "SB", "SE", "231"} \cup Verbs \cup Options
         \cup UNION {ToSet(p) : p \in Pieces \cup SbData}

StreamTyped ==
    /\ phase \in {"offer", "await", "negotiate", "idle", "receive"} \cup Ends
    /\ round \in 1..Rounds
    /\ state \in {"DATA", "HAVE_IAC", "HAVE_VERB", "HAVE_SB", "HAVE_SB_IAC"}
    /\ verb \in Verbs \cup {"unset"}
    /\ ToSet(sb_buf) \cup ToSet(current) \cup ToSet(term) \cup ToSet(wire) \subseteq Bytes
    /\ \A r \in ToSet(records \o taken) : ToSet(r) \subseteq Bytes
    /\ eof \in BOOLEAN
    /\ Len(sent) <= MaxItems

(***************************************************************************)
(* The records the host decodes are the records the terminal sent, in the  *)
(* same order and with the same bytes, wherever TCP cuts the stream and    *)
(* whatever verbs and subnegotiations come between or inside them; and     *)
(* when all bytes are read, nothing is missing.                            *)
(***************************************************************************)
RecordsFaithful ==
    LET s == SentRecords(sent)
    IN  /\ IsPrefix(taken \o records, s.done)
        /\ wire = <<>> /\ phase \notin Ends =>
              taken \o records = s.done /\ current = s.open

(***************************************************************************)
(* TERM is a terminal type the terminal has named, cut at its first IAC.   *)
(***************************************************************************)
TermFaithful ==
    term # <<>> =>
        \E i \in 1..Len(sent) :
            /\ sent[i].kind = "sb"
            /\ IsPrefix(<<"TERMINAL_TYPE", "IS">> \o term, sent[i].bytes)

(***************************************************************************)
(* The negotiation, during which tn3270d serves no other client, ends even *)
(* if the terminal never answers.                                          *)
(***************************************************************************)
NegotiationEnds == (phase \in {"offer", "await", "negotiate"}) ~> (phase \in {"idle"} \cup Ends)

(***************************************************************************)
(* What the host has decoded is what the terminal sent: records and        *)
(* terminal type.                                                          *)
(***************************************************************************)
Faithful == StreamTyped /\ RecordsFaithful /\ TermFaithful
=============================================================================
