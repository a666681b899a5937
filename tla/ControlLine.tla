---------------------------- MODULE ControlLine -----------------------------
(***************************************************************************)
(* How the bytes of the control connection become commands:                *)
(* ftp_session_read_command with its receive buffer, the loop of           *)
(* ftp_session_thread around it, and ftp_parse_command_line.               *)
(*                                                                         *)
(* The bytes are letters ("a"), blanks ("sp"), "cr" and "lf"; a NUL, at    *)
(* which the parser would stop, is not sent.  stream is all that the       *)
(* client sends before it closes the connection.  recv() returns any       *)
(* number of the next bytes, times out after FTP_CTRL_IO_TIMEOUT_MS, is    *)
(* interrupted by a signal, or fails.                                      *)
(***************************************************************************)
EXTENDS Integers, Sequences, SequencesExt, FiniteSets, FiniteSetsExt

CONSTANTS
  LineSize,    \* FTP_CMD_BUFFER_SIZE: of ctrl_rxbuf, cmd_buffer and args
  NameSize,    \* size of the buffer for the name of the command
  MaxStream    \* bound on what a client sends

ASSUME LineAssumption ==
  /\ {LineSize, NameSize, MaxStream} \subseteq Nat \ {0}
  /\ NameSize < LineSize

Byte == {"a", "sp", "cr", "lf"}

VARIABLES
  stream,      \* what the client sends
  pos,         \* bytes of it received
  rx,          \* ctrl_rxbuf from ctrl_rx_off to ctrl_rx_len
  buffer,      \* the line so far: the first out_len bytes of the buffer
  too_long,
  rpc,         \* "scan" or "recv" in ftp_session_read_command, or "ended"
  commands,    \* what became of the lines: commands and error replies
  slipped      \* history: bytes of a line were scanned "twice" or "lost"

lineVars == <<stream, pos, rx, buffer, too_long, rpc, commands, slipped>>

LineInit ==
  /\ stream \in SeqOf(Byte, MaxStream)
  /\ pos = 0 /\ rx = <<>>
  /\ buffer = <<>> /\ too_long = FALSE
  /\ rpc = "scan" /\ commands = <<>> /\ slipped = "no"

-----------------------------------------------------------------------------
Error500 == [name |-> <<>>, args |-> <<>>]

Positions(b, s) == {i \in DOMAIN s : s[i] = b}
Upto(s, n) == SubSeq(s, 1, n)
Beyond(s, n) == SubSeq(s, n + 1, Len(s))

\* isspace
Blank(b) == b \in {"sp", "cr"}

Trimmed(s) ==
  LET ink == {i \in DOMAIN s : ~Blank(s[i])} IN
  IF ink = {} THEN <<>> ELSE SubSeq(s, Min(ink), Max(ink))

\* The name ends at the first blank; the arguments lose the blanks around them.
ftp_parse_command_line(line) ==
  LET spaces  == Positions("sp", line)
      cmd_len == IF spaces = {} THEN Len(line) ELSE Min(spaces) - 1
      args    == Trimmed(Beyond(line, cmd_len + 1))
  IN  IF cmd_len = 0 \/ cmd_len >= NameSize \/ Len(args) >= LineSize
      THEN Error500
      ELSE [name |-> Upto(line, cmd_len), args |-> args]

\* Variant: a "cr" is expected before every "lf".
LineEndAlwaysTwo(line) == Upto(line, Max({Len(line) - 2, 0}))

\* Without its end, which is "cr" and "lf" or "lf" alone.
LineEnd(line) ==
  LET n == Len(line) IN
  IF n >= 2 /\ line[n - 1] = "cr" THEN Upto(line, n - 2) ELSE Upto(line, n - 1)

\* A call of ftp_session_read_command begins with an empty line.
ReadAgain == rpc' = "scan" /\ buffer' = <<>> /\ too_long' = FALSE

\* The loop over ctrl_rxbuf reaches an "lf".  An empty line ends the session
\* like the end of the connection does; after another one, or after a 500, the
\* next call begins with what is left in ctrl_rxbuf.
ScanLine ==
  /\ rpc = "scan"
  /\ Positions("lf", rx) # {}
  /\ LET k    == Min(Positions("lf", rx))
         full == buffer \o Upto(rx, k)
         long == too_long \/ Len(full) > LineSize - 1
         line == LineEnd(full)
     IN
     /\ rx' = Beyond(rx, k)
     /\ IF ~long /\ line = <<>>
        THEN rpc' = "ended" /\ UNCHANGED <<buffer, too_long, commands>>
        ELSE /\ commands' = Append(commands,
                  IF long THEN Error500 ELSE ftp_parse_command_line(line))
             /\ ReadAgain
  /\ UNCHANGED <<stream, pos, slipped>>

\* It does not: the bytes stay in ctrl_rxbuf until recv() overwrites them.
ScanPart ==
  /\ rpc = "scan"
  /\ Positions("lf", rx) = {}
  /\ LET full == buffer \o rx
         long == too_long \/ Len(full) > LineSize - 1
     IN  too_long' = long /\ buffer' = IF long THEN <<>> ELSE full
  /\ rpc' = "recv"
  /\ UNCHANGED <<stream, pos, rx, commands, slipped>>

-----------------------------------------------------------------------------
Recv ==
  /\ rpc = "recv"
  /\ \E n \in 1 .. Min({LineSize, Len(stream) - pos}) :
       /\ rx' = SubSeq(stream, pos + 1, pos + n)
       /\ pos' = pos + n
  /\ rpc' = "scan"
  /\ UNCHANGED <<stream, buffer, too_long, commands, slipped>>

Slip(how, happens) ==
  slipped' = IF slipped = "no" /\ happens THEN how ELSE slipped

\* EINTR: the loop scans ctrl_rxbuf once more.
RecvInterrupted ==
  /\ rpc = "recv"
  /\ rpc' = "scan"
  /\ Slip("twice", rx # <<>>)
  /\ UNCHANGED <<stream, pos, rx, buffer, too_long, commands>>

\* EAGAIN: the loop of ftp_session_thread calls again, unless the session has
\* been idle too long.  Of the line so far only what is in ctrl_rxbuf is left.
RecvTimeout ==
  /\ rpc = "recv"
  /\ \/ ReadAgain /\ Slip("lost", too_long \/ buffer # rx)
     \/ rpc' = "ended" /\ UNCHANGED <<buffer, too_long, slipped>>
  /\ UNCHANGED <<stream, pos, rx, commands>>

\* recv() returns 0 or fails.
RecvEnds ==
  /\ rpc = "recv"
  /\ rpc' = "ended"
  /\ UNCHANGED <<stream, pos, rx, buffer, too_long, commands, slipped>>

LineEnded == rpc = "ended" /\ UNCHANGED lineVars

LineNext ==
  \/ ScanLine \/ ScanPart
  \/ Recv \/ RecvInterrupted \/ RecvTimeout \/ RecvEnds
  \/ LineEnded

LineSpec == LineInit /\ [][LineNext]_lineVars

-----------------------------------------------------------------------------
(* What should become of a sequence of bytes, whatever pieces it comes in. *)

\* The complete lines of s, with their ends.
LinesOf(s) ==
  LET ends == SetToSortSeq(Positions("lf", s), <)
  IN  [i \in DOMAIN ends |->
         SubSeq(s, IF i = 1 THEN 1 ELSE ends[i - 1] + 1, ends[i])]

\* t is the text of a line, without its end.
IsText(t, line) ==
  \/ line = t \o <<"cr", "lf">>
  \/ line = t \o <<"lf">> /\ (t # <<>> => Last(t) # "cr")

\* Command c is what text t spells: a name up to the first blank, if there is
\* one, and arguments without the blanks around them.
Spells(c, t) ==
  LET n == Len(c.name) IN
  /\ 0 < n /\ n < NameSize
  /\ \E i, j \in n .. Len(t) :
       /\ i <= j
       /\ c.name = Upto(t, n) /\ c.args = SubSeq(t, i + 1, j)
       /\ "sp" \notin ToSet(c.name) /\ (n < Len(t) => t[n + 1] = "sp")
       /\ \A k \in (n + 1 .. i) \cup (j + 1 .. Len(t)) : Blank(t[k])
  /\ c.args # <<>> => ~Blank(Head(c.args)) /\ ~Blank(Last(c.args))

\* A line that does not fit, and one without a name that fits, is refused.
Outcome(c, line) ==
  \E n \in 0 .. Len(line) :
    LET t == Upto(line, n) IN
    /\ IsText(t, line)
    /\ IF Len(line) < LineSize /\ \E k \in 1 .. NameSize - 1 :
            k <= n /\ "sp" \notin ToSet(Upto(t, k)) /\ (k < n => t[k + 1] = "sp")
       THEN Spells(c, t)
       ELSE c = Error500

\* The commands are, one for one, the lines received, up to an empty line,
\* and when recv() is called no complete line is left over.
CommandsAreLines ==
  LET lines == LinesOf(Upto(stream, pos))
      empty == {i \in DOMAIN lines : IsText(<<>>, lines[i])}
      n     == IF empty = {} THEN Len(lines) ELSE Min(empty) - 1
  IN  /\ Len(commands) <= n
      /\ \A i \in DOMAIN commands : Outcome(commands[i], lines[i])
      /\ rpc = "recv" => Len(commands) = Len(lines)

(* Every line becomes one command or one 500, in the order of the lines,   *)
(* with its own name and arguments, however recv() cuts the lines, several *)
(* in one piece or one in several, and whatever their length: as long as   *)
(* recv() was not interrupted with part of a line in ctrl_rxbuf, and did   *)
(* not time out after a line had come in more than one piece so far.       *)
LinesAreExact == slipped = "no" => CommandsAreLines

(* "Blocks until complete line received" (ftp_session.h): a command is a   *)
(* complete line also when the client pauses within it.                    *)
LineIsComplete == slipped # "twice" => CommandsAreLines

=============================================================================
