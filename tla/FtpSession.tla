----------------------------- MODULE FtpSession -----------------------------
(***************************************************************************)
(* One FTP control session: the command loop of ftp_session_thread, the    *)
(* dispatcher ftp_session_process_command and the command handlers of      *)
(* ftp_commands.c, as far as they change the session or send replies.      *)
(*                                                                         *)
(* A command is one step, except the data transfers, which take three: the *)
(* checks, opening the data connection, and the transfer with its          *)
(* clean-up.  The file system is not state here: whether a path resolves,  *)
(* exists or can be opened is a choice, so every outcome of a handler is   *)
(* covered.  What crosses the data connection is left to StorPipe.         *)
(*                                                                         *)
(* Every file argument names the same leaf, either relative to the working *)
(* directory (Rel) or in a given directory, so a resolved path is just the *)
(* directory.                                                              *)
(***************************************************************************)
EXTENDS Integers, Sequences

CONSTANTS
  Dir,          \* directories of the server
  Rel,          \* a relative path argument
  None,         \* an empty rename_from or copy_from
  LongDir       \* directories whose path does not fit FTP_REPLY_BUFFER_SIZE

ASSUME DirAssumption == Dir # {} /\ LongDir \subseteq Dir
ASSUME ArgAssumption == Rel \notin Dir /\ None \notin Dir /\ Rel # None

Arg == Dir \cup {Rel}

VARIABLES
  pc,              \* "ready" for a command, "open" or "transfer" in one of the
                   \* transfer commands, "closing", "joining" or "closed"
  cmd,             \* the command last dispatched, or "none"
  replies,         \* the replies sent for it
  state,           \* session->state
  authenticated,   \* session->authenticated
  data_mode,       \* session->data_mode
  data_fd,         \* session->data_fd is open
  pasv_fd,         \* session->pasv_fd is open
  sockets,         \* data and listening sockets the session has open
  restart_offset,  \* session->restart_offset is not 0
  cwd,             \* session->cwd
  rename_from,     \* session->rename_from, a resolved path
  copy_from,       \* session->copy_from, an argument as it was given
  copying,         \* session->copy_in_progress
  uses             \* times the last REST, RNFR and CPFR were acted upon

loopVars == <<pc, cmd, replies>>
dataVars == <<state, data_mode, data_fd, pasv_fd, sockets>>
pathVars == <<cwd, rename_from>>
copyVars == <<copy_from, copying>>
sessionVars == <<pc, cmd, replies, state, authenticated, data_mode, data_fd,
                 pasv_fd, sockets, restart_offset, cwd, rename_from, copy_from,
                 copying, uses>>

Pending == {"REST", "RNFR", "CPFR"}

\* ftp_session_init
SessionInit ==
  /\ pc = "ready" /\ cmd = "none" /\ replies = <<220>>
  /\ state = "CONNECTED" /\ authenticated = FALSE
  /\ data_mode = "NONE" /\ data_fd = FALSE /\ pasv_fd = FALSE /\ sockets = 0
  /\ restart_offset = FALSE
  /\ cwd \in Dir \ LongDir
  /\ rename_from = None /\ copy_from = None
  /\ copying = FALSE
  /\ uses = [p \in Pending |-> 0]

\* ftp_path_resolve, for an argument that is accepted; see Paths.
Resolved(arg) == IF arg = Rel THEN cwd ELSE arg

Count(p) == uses' = [uses EXCEPT ![p] = IF @ < 2 THEN @ + 1 ELSE @]
Fresh(p) == uses' = [uses EXCEPT ![p] = 0]

-----------------------------------------------------------------------------
(***************************************************************************)
(* ftp_session_process_command                                             *)
(***************************************************************************)

\* The commands that are accepted before USER or PASS.
PreLogin == {"USER", "PASS", "QUIT", "NOOP", "FEAT", "SYST", "AUTH", "OPTS",
             "CLNT"}

ArgsRequired == {"USER", "CWD", "RETR", "STOR", "APPE", "REST", "DELE", "RMD",
                 "MKD", "RNFR", "RNTO", "CPFR", "CPTO", "COPY", "PORT", "OPTS",
                 "SITE", "SIZE", "MDTM", "TYPE", "MODE", "STRU", "AUTH"}
ArgsNone == {"QUIT", "NOOP", "CDUP", "PWD", "PASV", "SYST", "FEAT"}
ArgsOptional == {"PASS", "LIST", "NLST", "MLSD", "MLST", "EPSV", "CLNT",
                 "STAT", "HELP"}
command_table == ArgsRequired \cup ArgsNone \cup ArgsOptional

Dispatch(c) ==
  /\ pc = "ready"
  /\ authenticated \/ c \in PreLogin
  /\ cmd' = c

\* The handler returns to the command loop after sending the replies rs.
Return(rs) == pc' = "ready" /\ replies' = rs

\* A command whose handler changes nothing of the session.
Answer(c, codes) ==
  /\ Dispatch(c)
  /\ \E r \in codes : Return(<<r>>)
  /\ UNCHANGED <<authenticated, dataVars, restart_offset, pathVars, copyVars,
                 uses>>

\* The line is too long, cannot be parsed, or names no command.
SyntaxError ==
  /\ pc = "ready"
  /\ cmd' = "none" /\ Return(<<500>>)
  /\ UNCHANGED <<authenticated, dataVars, restart_offset, pathVars, copyVars,
                 uses>>

NotLoggedIn ==
  /\ pc = "ready"
  /\ ~authenticated
  /\ \E c \in command_table \ PreLogin : cmd' = c
  /\ Return(<<530>>)
  /\ UNCHANGED <<authenticated, dataVars, restart_offset, pathVars, copyVars,
                 uses>>

\* Arguments are missing from a command that needs them, or given to one that
\* takes none.
ftp_validate_command_args ==
  \E c \in ArgsRequired \cup ArgsNone : Answer(c, {501})

cmd_NOOP == Answer("NOOP", {200})
cmd_CLNT == Answer("CLNT", {200})
cmd_SITE == Answer("SITE", {200, 502})
cmd_OPTS == Answer("OPTS", {200, 501})
cmd_STAT == Answer("STAT", {211})
cmd_SYST == Answer("SYST", {215})
cmd_FEAT == Answer("FEAT", {211})
cmd_HELP == Answer("HELP", {214})
cmd_SIZE == Answer("SIZE", {213, 550})
cmd_MDTM == Answer("MDTM", {213, 550})
cmd_MLST == Answer("MLST", {250, 451, 550})
cmd_DELE == Answer("DELE", {250, 550})
cmd_RMD == Answer("RMD", {250, 550})
cmd_MKD == Answer("MKD", {257, 550})
cmd_TYPE == Answer("TYPE", {200, 504})
cmd_MODE == Answer("MODE", {200, 504})
cmd_STRU == Answer("STRU", {200, 504})
cmd_AUTH == Answer("AUTH", {234, 503, 504})

\* The handler returns an error without a reply when the path is too long for
\* its buffer, and the dispatcher has no reply for that error.
cmd_PWD ==
  /\ Dispatch("PWD")
  /\ Return(IF cwd \in LongDir THEN <<>> ELSE <<257>>)
  /\ UNCHANGED <<authenticated, dataVars, restart_offset, pathVars, copyVars,
                 uses>>

Login(c) ==
  /\ Dispatch(c)
  /\ authenticated' = TRUE /\ state' = "AUTHENTICATED"
  /\ Return(<<230>>)
  /\ UNCHANGED <<data_mode, data_fd, pasv_fd, sockets, restart_offset,
                 pathVars, copyVars, uses>>

cmd_USER == Login("USER")
cmd_PASS == Login("PASS")

\* CWD and CDUP.
ChangeDir(c) ==
  /\ Dispatch(c)
  /\ \/ \E d \in Dir : cwd' = d /\ Return(<<250>>)
     \/ UNCHANGED cwd /\ Return(<<550>>)
  /\ UNCHANGED <<authenticated, dataVars, restart_offset, rename_from,
                 copyVars, uses>>

cmd_CWD == ChangeDir("CWD")
cmd_CDUP == ChangeDir("CDUP")

-----------------------------------------------------------------------------
(***************************************************************************)
(* The data connection                                                     *)
(***************************************************************************)

Open(b) == IF b THEN 1 ELSE 0

cmd_PORT ==
  /\ Dispatch("PORT")
  /\ \/ data_mode' = "ACTIVE" /\ Return(<<200>>)
     \/ UNCHANGED data_mode /\ Return(<<501>>)
  /\ UNCHANGED <<authenticated, state, data_fd, pasv_fd, sockets,
                 restart_offset, pathVars, copyVars, uses>>

\* Variant: the previous listener is not closed.
ListenAgain(c, code) ==
  /\ Dispatch(c)
  /\ pasv_fd' = TRUE /\ data_mode' = "PASSIVE"
  /\ sockets < 2 /\ sockets' = sockets + 1
  /\ Return(<<code>>)
  /\ UNCHANGED <<authenticated, state, data_fd, restart_offset, pathVars,
                 copyVars, uses>>

\* PASV and EPSV close the previous listener first; when the new one cannot be
\* made the mode stays as it was.
Listen(c, code) ==
  /\ Dispatch(c)
  /\ \/ /\ pasv_fd' = TRUE /\ data_mode' = "PASSIVE"
        /\ sockets' = sockets - Open(pasv_fd) + 1
        /\ Return(<<code>>)
     \/ /\ pasv_fd' = FALSE /\ UNCHANGED data_mode
        /\ sockets' = sockets - Open(pasv_fd)
        /\ Return(<<425>>)
  /\ UNCHANGED <<authenticated, state, data_fd, restart_offset, pathVars,
                 copyVars, uses>>

cmd_PASV == Listen("PASV", 227)
cmd_EPSV == Listen("EPSV", 229)

\* ftp_session_open_data_connection succeeds.
DataOpened ==
  /\ \/ data_mode = "ACTIVE" /\ UNCHANGED pasv_fd /\ sockets' = sockets + 1
     \/ /\ data_mode = "PASSIVE" /\ pasv_fd
        /\ pasv_fd' = FALSE /\ UNCHANGED sockets
  /\ data_fd' = TRUE
  /\ state' = IF state # "TERMINATING" THEN "TRANSFERRING" ELSE state
  /\ UNCHANGED data_mode

\* ftp_session_open_data_connection fails: no mode was set, connect or accept
\* failed, the listener is gone, or the client did not connect in time, which
\* closes the listener.
DataNotOpened ==
  /\ \/ UNCHANGED <<pasv_fd, sockets>>
     \/ /\ data_mode = "PASSIVE" /\ pasv_fd
        /\ pasv_fd' = FALSE /\ sockets' = sockets - 1
  /\ UNCHANGED <<data_fd, state, data_mode>>

\* ftp_session_close_data_connection, without its reset of restart_offset.
CloseSockets ==
  /\ data_fd' = FALSE /\ pasv_fd' = FALSE
  /\ sockets' = sockets - Open(data_fd) - Open(pasv_fd)
  /\ data_mode' = "NONE"
  /\ state' = IF state = "TERMINATING" THEN state
              ELSE IF authenticated THEN "AUTHENTICATED" ELSE "CONNECTED"

ftp_session_close_data_connection == CloseSockets /\ restart_offset' = FALSE

-----------------------------------------------------------------------------
(***************************************************************************)
(* Directory listings: the data connection comes before the 150            *)
(***************************************************************************)
Listings == {"LIST", "NLST", "MLSD"}

\* The path is resolved.
ListBegin(c) ==
  /\ Dispatch(c)
  /\ \/ pc' = "open" /\ replies' = <<>>
     \/ Return(<<550>>)
  /\ UNCHANGED <<authenticated, dataVars, restart_offset, pathVars, copyVars,
                 uses>>

\* Variant: no reply when the data connection cannot be opened.
ListOpenSilent ==
  /\ pc = "open" /\ cmd \in Listings
  /\ \/ DataOpened /\ pc' = "transfer" /\ replies' = <<150>>
     \/ DataNotOpened /\ Return(<<>>)
  /\ UNCHANGED <<cmd, authenticated, restart_offset, pathVars, copyVars, uses>>

ListOpen ==
  /\ pc = "open" /\ cmd \in Listings
  /\ \/ DataOpened /\ pc' = "transfer" /\ replies' = <<150>>
     \/ DataNotOpened /\ Return(<<425>>)
  /\ UNCHANGED <<cmd, authenticated, restart_offset, pathVars, copyVars, uses>>

\* Variant: a listing that fails returns before the data connection is closed.
ListEndLeaks ==
  /\ pc = "transfer" /\ cmd \in Listings
  /\ \/ ftp_session_close_data_connection /\ Return(Append(replies, 226))
     \/ UNCHANGED <<dataVars, restart_offset>> /\ Return(Append(replies, 451))
  /\ UNCHANGED <<cmd, authenticated, pathVars, copyVars, uses>>

\* MLSD reports 226 even when reading the directory failed.
ListEnd ==
  /\ pc = "transfer" /\ cmd \in Listings
  /\ ftp_session_close_data_connection
  /\ \E r \in {226} \cup (IF cmd = "MLSD" THEN {} ELSE {451}) :
        Return(Append(replies, r))
  /\ UNCHANGED <<cmd, authenticated, pathVars, copyVars, uses>>

-----------------------------------------------------------------------------
(***************************************************************************)
(* File transfers: 150 comes before the data connection                    *)
(***************************************************************************)
Uploads == {"STOR", "APPE"}
FileTransfers == Uploads \cup {"RETR"}

cmd_REST ==
  /\ Dispatch("REST")
  /\ \/ restart_offset' \in BOOLEAN /\ Fresh("REST") /\ Return(<<350>>)
     \/ UNCHANGED <<restart_offset, uses>> /\ Return(<<501>>)
  /\ UNCHANGED <<authenticated, dataVars, pathVars, copyVars>>

\* The checks before the 150.  RETR keeps the offset when the path does not
\* resolve or the file cannot be opened, and drops it when the file is not
\* regular or the offset lies beyond its end; uploads always drop it.
TransferBegin(c) ==
  /\ Dispatch(c)
  /\ \/ pc' = "open" /\ replies' = <<150>> /\ UNCHANGED restart_offset
     \/ /\ \/ c = "RETR" /\ UNCHANGED restart_offset
           \/ restart_offset' = FALSE
        /\ \E r \in {550} \cup (IF c = "RETR" THEN {} ELSE {451}) : Return(<<r>>)
  /\ UNCHANGED <<authenticated, dataVars, pathVars, copyVars, uses>>

\* RETR leaves restart_offset as it was when there is no data connection.
TransferOpen ==
  /\ pc = "open" /\ cmd \in FileTransfers
  /\ \/ /\ DataOpened
        /\ pc' = "transfer"
        /\ IF restart_offset THEN Count("REST") ELSE UNCHANGED uses
        /\ UNCHANGED <<replies, restart_offset>>
     \/ /\ DataNotOpened
        /\ restart_offset' = (IF cmd = "RETR" THEN restart_offset ELSE FALSE)
        /\ Return(Append(replies, 425))
        /\ UNCHANGED uses
  /\ UNCHANGED <<cmd, authenticated, pathVars, copyVars>>

\* STOR also answers 451, when the uploaded file cannot be renamed into place.
TransferEnd ==
  /\ pc = "transfer" /\ cmd \in FileTransfers
  /\ ftp_session_close_data_connection
  /\ \E r \in {226, 426} \cup (IF cmd = "STOR" THEN {451} ELSE {}) :
        Return(Append(replies, r))
  /\ UNCHANGED <<cmd, authenticated, pathVars, copyVars, uses>>

cmd_RETR == TransferBegin("RETR")
cmd_STOR == TransferBegin("STOR")
cmd_APPE == TransferBegin("APPE")
cmd_LIST == ListBegin("LIST")
cmd_NLST == ListBegin("NLST")
cmd_MLSD == ListBegin("MLSD")

-----------------------------------------------------------------------------
(***************************************************************************)
(* Renaming and background copies                                          *)
(***************************************************************************)

\* start_async_copy: the reply, and whether a copy thread was started.
start_async_copy(src, dst) ==
  \/ copying /\ UNCHANGED copying /\ Return(<<450>>)
  \/ ~copying /\ UNCHANGED copying /\ \E r \in {550, 451} : Return(<<r>>)
  \/ ~copying /\ src = dst /\ UNCHANGED copying /\ Return(<<553>>)
  \/ ~copying /\ src # dst /\ copying' = TRUE /\ Return(<<250>>)

\* The copy thread ends; see AsyncCopy.
CopyDone ==
  /\ copying /\ copying' = FALSE
  /\ UNCHANGED <<loopVars, authenticated, dataVars, restart_offset, pathVars,
                 copy_from, uses>>

cmd_RNFR ==
  /\ Dispatch("RNFR")
  /\ \/ /\ \E arg \in Arg : rename_from' = Resolved(arg)
        /\ Fresh("RNFR") /\ Return(<<350>>)
     \/ UNCHANGED <<rename_from, uses>> /\ Return(<<550>>)
  /\ UNCHANGED <<authenticated, dataVars, restart_offset, cwd, copyVars>>

\* Variant: a background move leaves rename_from set.
RenameKeepsSource ==
  /\ Dispatch("RNTO")
  /\ rename_from # None
  /\ \E arg \in Arg : start_async_copy(rename_from, Resolved(arg))
  /\ IF copying' # copying THEN Count("RNFR") ELSE UNCHANGED uses
  /\ UNCHANGED <<rename_from, authenticated, dataVars, restart_offset, cwd,
                 copy_from>>

\* A rename within the device is made at once; across devices it becomes a
\* background move.
cmd_RNTO ==
  /\ Dispatch("RNTO")
  /\ \/ /\ rename_from = None
        /\ Return(<<503>>) /\ UNCHANGED <<copying, uses>>
     \/ /\ rename_from # None
        /\ Return(<<550>>) /\ UNCHANGED <<copying, uses>>
     \/ /\ rename_from # None
        /\ Return(<<250>>) /\ UNCHANGED copying /\ Count("RNFR")
     \/ /\ rename_from # None
        /\ \E arg \in Arg : start_async_copy(rename_from, Resolved(arg))
        /\ IF copying' # copying THEN Count("RNFR") ELSE UNCHANGED uses
  /\ rename_from' = None
  /\ UNCHANGED <<authenticated, dataVars, restart_offset, cwd, copy_from>>

\* CPFR checks the resolved path and stores the argument.
cmd_CPFR ==
  /\ Dispatch("CPFR")
  /\ \/ /\ \E arg \in Arg : copy_from' = arg
        /\ Fresh("CPFR") /\ Return(<<350>>)
     \/ UNCHANGED <<copy_from, uses>> /\ Return(<<550>>)
  /\ UNCHANGED <<authenticated, dataVars, restart_offset, pathVars, copying>>

cmd_CPTO ==
  /\ Dispatch("CPTO")
  /\ \/ /\ copy_from = None
        /\ Return(<<503>>) /\ UNCHANGED <<copying, uses>>
     \/ /\ copy_from # None
        /\ \E arg \in Arg :
              start_async_copy(Resolved(copy_from), Resolved(arg))
        /\ IF copying' # copying THEN Count("CPFR") ELSE UNCHANGED uses
  /\ copy_from' = None
  /\ UNCHANGED <<authenticated, dataVars, restart_offset, pathVars>>

cmd_COPY ==
  /\ Dispatch("COPY")
  /\ \/ Return(<<501>>) /\ UNCHANGED copying
     \/ \E src, dst \in Arg :
           start_async_copy(Resolved(src), Resolved(dst))
  /\ UNCHANGED <<authenticated, dataVars, restart_offset, pathVars, copy_from,
                 uses>>

-----------------------------------------------------------------------------
(***************************************************************************)
(* The end of the session                                                  *)
(***************************************************************************)
Leave(c, rs) ==
  /\ pc' = "closing" /\ cmd' = c /\ replies' = rs
  /\ UNCHANGED <<authenticated, dataVars, restart_offset, pathVars, copyVars,
                 uses>>

cmd_QUIT == Dispatch("QUIT") /\ Leave("QUIT", <<221>>)

\* The client closes the connection or it fails, or the idle limit is reached.
Disconnected == pc = "ready" /\ Leave("none", <<>>)
IdleTimeout == pc = "ready" /\ Leave("none", <<421>>)

\* An empty line makes ftp_session_read_command return 0, which the command
\* loop takes for the end of the connection.
EmptyLine == pc = "ready" /\ Leave("empty_line", <<>>)

\* ftp_session_cleanup waits for the copy thread and then closes everything.
CleanupBegin ==
  /\ pc = "closing"
  /\ state' = "TERMINATING"
  /\ pc' = "joining"
  /\ UNCHANGED <<cmd, replies, authenticated, data_mode, data_fd, pasv_fd,
                 sockets, restart_offset, pathVars, copyVars, uses>>

CleanupEnd ==
  /\ pc = "joining"
  /\ ~copying
  /\ ftp_session_close_data_connection
  /\ pc' = "closed"
  /\ UNCHANGED <<cmd, replies, authenticated, pathVars, copyVars, uses>>

Closed == pc = "closed" /\ UNCHANGED sessionVars

Control == cmd_USER \/ cmd_PASS \/ cmd_QUIT \/ cmd_NOOP \/ cmd_CWD \/ cmd_CDUP
           \/ cmd_PWD \/ cmd_OPTS \/ cmd_SITE \/ cmd_CLNT \/ cmd_AUTH
           \/ cmd_STAT \/ cmd_SYST \/ cmd_FEAT \/ cmd_HELP \/ cmd_TYPE
           \/ cmd_MODE \/ cmd_STRU \/ cmd_SIZE \/ cmd_MDTM \/ cmd_MLST
           \/ SyntaxError \/ NotLoggedIn \/ ftp_validate_command_args
Files == cmd_DELE \/ cmd_RMD \/ cmd_MKD \/ cmd_RNFR \/ cmd_RNTO
         \/ cmd_CPFR \/ cmd_CPTO \/ cmd_COPY \/ CopyDone
Transfers == cmd_PORT \/ cmd_PASV \/ cmd_EPSV \/ cmd_REST \/ cmd_LIST
             \/ cmd_NLST \/ cmd_MLSD \/ ListOpen \/ ListEnd
             \/ cmd_RETR \/ cmd_STOR \/ cmd_APPE \/ TransferOpen \/ TransferEnd
Ending == Disconnected \/ IdleTimeout \/ EmptyLine \/ CleanupBegin
          \/ CleanupEnd \/ Closed

SessionNext == Control \/ Files \/ Transfers \/ Ending

SessionSpec == SessionInit /\ [][SessionNext]_sessionVars

-----------------------------------------------------------------------------
(***************************************************************************)
(* Properties                                                              *)
(***************************************************************************)

\* Whatever the order of PORT, PASV, EPSV and transfers, failed ones included,
\* the sockets the session has open are the two it still knows of, and none is
\* open once ftp_session_cleanup is over.
NoSocketLeak ==
  /\ sockets = Open(data_fd) + Open(pasv_fd)
  /\ pc = "closed" => sockets = 0

\* Between commands there is no data connection, and the state tells whether
\* the client is logged in: every way out of a transfer command undoes what
\* ftp_session_open_data_connection did.  A session that was cleaned up stays
\* TERMINATING.
ReadyMeansIdle ==
  /\ pc = "ready" => /\ ~data_fd
                     /\ state = IF authenticated THEN "AUTHENTICATED"
                                ELSE "CONNECTED"
  /\ pc \in {"joining", "closed"} => state = "TERMINATING"

\* Every command is answered by exactly one final reply, and a transfer that is
\* reported complete or aborted was announced by a 150: the client's count of
\* replies never slips.  The one exception is a PWD whose path is too long.
RepliesPaired ==
  pc = "ready" =>
    \/ Len(replies) = 1 /\ replies[1] \in 200 .. 599 \ {226, 426}
    \/ Len(replies) = 2 /\ replies[1] = 150 /\ replies[2] >= 200
    \/ replies = <<>> /\ cmd = "PWD" /\ cwd \in LongDir

\* One REST resumes at most one transfer, one RNFR renames or moves at most one
\* file, one CPFR starts at most one copy, however the commands are repeated,
\* interleaved and refused; and an upload that was run, not refused for its
\* syntax, never leaves its restart offset behind, whichever way it ended.
PendingUsedOnce ==
  /\ \A p \in Pending : uses[p] <= 1
  /\ pc = "ready" /\ cmd \in Uploads /\ replies # <<501>> => ~restart_offset

=============================================================================
