-------------------------- MODULE FtpSessionProofs --------------------------
(***************************************************************************)
(* Proofs about FtpSession, for any set of directories: sockets, state,    *)
(* replies and pending arguments over every sequence of commands.          *)
(*                                                                         *)
(* The properties speak of a session between two commands.  To be          *)
(* inductive they are extended to the steps of a transfer: what has been   *)
(* answered, what is open, and what is still pending at each of them.      *)
(***************************************************************************)
EXTENDS FtpSession, TLAPS

Flags ==
  /\ pc \in {"ready", "open", "transfer", "closing", "joining", "closed"}
  /\ authenticated \in BOOLEAN /\ data_fd \in BOOLEAN /\ pasv_fd \in BOOLEAN
  /\ restart_offset \in BOOLEAN /\ copying \in BOOLEAN
  /\ pc \in {"open", "transfer"} => cmd \in Listings \cup FileTransfers

\* There is a data connection only during a transfer, and after cleanup there
\* is no listener either.
Sockets ==
  /\ sockets = Open(data_fd) + Open(pasv_fd)
  /\ data_fd <=> pc = "transfer"
  /\ pc = "closed" => ~pasv_fd

LoginState == IF authenticated THEN "AUTHENTICATED" ELSE "CONNECTED"

States ==
  /\ pc \in {"ready", "open", "closing"} => state = LoginState
  /\ pc = "transfer" => state = "TRANSFERRING"
  /\ pc \in {"joining", "closed"} => state = "TERMINATING"

\* A file transfer is announced before its data connection is opened, a
\* listing after that.
Replies ==
  /\ RepliesPaired
  /\ pc = "open" => replies = IF cmd \in Listings THEN <<>> ELSE <<150>>
  /\ pc = "transfer" => replies = <<150>>

\* What is pending has not been used, except the offset of the transfer that
\* is running, and nobody leaves an offset before logging in.
Unused ==
  /\ uses \in [Pending -> 0 .. 1]
  /\ restart_offset /\ uses["REST"] # 0 => pc = "transfer" /\ cmd \in FileTransfers
  /\ rename_from # None => uses["RNFR"] = 0
  /\ copy_from # None => uses["CPFR"] = 0
  /\ ~authenticated => ~restart_offset
  /\ pc = "ready" /\ cmd \in Uploads /\ replies # <<501>> => ~restart_offset

SessionInv == Flags /\ Sockets /\ States /\ Replies /\ Unused

-----------------------------------------------------------------------------
\* ftp_session_init establishes it.
LEMMA SessionInvInit == SessionInit => SessionInv
<1> SUFFICES ASSUME SessionInit PROVE SessionInv
    OBVIOUS
<1>1. Flags
      BY Zenon DEF SessionInit, Flags
<1>2. Sockets /\ States
      BY DEF SessionInit, Sockets, States, LoginState, Open
<1>3. Replies
      BY DEF SessionInit, Replies, RepliesPaired
<1>4. Unused
      BY DEF SessionInit, Unused, Pending
<1> QED
    BY <1>1, <1>2, <1>3, <1>4 DEF SessionInv

OnlyAnswers ==
  /\ pc = "ready" /\ pc' = "ready"
  /\ UNCHANGED <<authenticated, dataVars, restart_offset, pathVars, copyVars, uses>>

\* A command that only answers, and does not leave an upload half refused.
LEMMA AnswerKeeps ==
  ASSUME SessionInv, OnlyAnswers,
         NEW r \in 200 .. 599 \ {226, 426}, replies' = <<r>>,
         cmd' \in Uploads /\ r # 501 => ~authenticated
  PROVE  SessionInv'
<1> USE DEF OnlyAnswers
<1>1. Flags' /\ Sockets' /\ States'
  BY DEF SessionInv, Flags, Sockets, States, LoginState, Open, dataVars, copyVars
<1>2. Replies'
  BY DEF SessionInv, Replies, RepliesPaired
<1>3. Unused'
  <2>1. r = 501 => replies' = <<501>>
    OBVIOUS
  <2>2. QED  BY <2>1 DEF SessionInv, Unused, Flags, pathVars, copyVars
<1>4. QED  BY <1>1, <1>2, <1>3 DEF SessionInv

\* Commands that concern the session only.
LEMMA ControlKeeps == ASSUME SessionInv, Control PROVE SessionInv'
<1>1. ASSUME NEW c \in command_table, NEW codes \in SUBSET (200 .. 599 \ {226, 426}),
             c \in Uploads => codes = {501}, Answer(c, codes)
      PROVE  SessionInv'
  <2>1. PICK r \in codes : Return(<<r>>)
        BY <1>1 DEF Answer
  <2> QED
      BY <1>1, <2>1, AnswerKeeps DEF OnlyAnswers, Answer, Dispatch, Return
<1>2. CASE cmd_NOOP \/ cmd_OPTS \/ cmd_SITE \/ cmd_CLNT \/ cmd_AUTH \/ cmd_STAT
      BY <1>1, <1>2 DEF cmd_NOOP, cmd_OPTS, cmd_SITE, cmd_CLNT, cmd_AUTH, cmd_STAT,
         command_table, ArgsRequired, ArgsNone, ArgsOptional, Uploads
<1>3. CASE cmd_SYST \/ cmd_FEAT \/ cmd_HELP \/ cmd_TYPE \/ cmd_MODE \/ cmd_STRU
      BY <1>1, <1>3 DEF cmd_SYST, cmd_FEAT, cmd_HELP, cmd_TYPE, cmd_MODE, cmd_STRU,
         command_table, ArgsRequired, ArgsNone, ArgsOptional, Uploads
<1>4. CASE cmd_SIZE \/ cmd_MDTM \/ cmd_MLST
      BY <1>1, <1>4 DEF cmd_SIZE, cmd_MDTM, cmd_MLST,
         command_table, ArgsRequired, ArgsNone, ArgsOptional, Uploads
<1>5. CASE ftp_validate_command_args
      BY <1>1, <1>5 DEF ftp_validate_command_args, command_table
<1>6. CASE SyntaxError
      BY <1>6, AnswerKeeps DEF OnlyAnswers, SyntaxError, Return, Uploads
<1>7. CASE NotLoggedIn
      BY <1>7, AnswerKeeps DEF OnlyAnswers, NotLoggedIn, Return
<1> USE DEF SessionInv
<1>8. CASE cmd_PWD
  <2>1. Flags' /\ Sockets' /\ States'
        BY <1>8 DEF cmd_PWD, Dispatch, Return, Flags, Sockets, States, LoginState,
           Open, dataVars, copyVars
  <2>2. Replies'
        BY <1>8 DEF cmd_PWD, Dispatch, Return, Replies, RepliesPaired, pathVars
  <2>3. Unused'
        BY <1>8 DEF cmd_PWD, Dispatch, Return, Unused, Uploads, FileTransfers,
           pathVars, copyVars
  <2> QED  BY <2>1, <2>2, <2>3
<1>9. ASSUME NEW c \in {"USER", "PASS"}, Login(c) PROVE SessionInv'
  <2>1. Flags' /\ Sockets' /\ States'
        BY <1>9 DEF Login, Dispatch, Return, Flags, Sockets, States, LoginState,
           Open, copyVars
  <2>2. Replies' /\ Unused'
        BY <1>9 DEF Login, Dispatch, Return, Replies, RepliesPaired, Unused,
           Uploads, FileTransfers, pathVars, copyVars
  <2> QED  BY <2>1, <2>2
<1>10. ASSUME NEW c \in {"CWD", "CDUP"}, ChangeDir(c) PROVE SessionInv'
  <2>1. Flags' /\ Sockets' /\ States'
        BY <1>10 DEF ChangeDir, Dispatch, Return, Flags, Sockets, States,
           LoginState, Open, dataVars, copyVars
  <2>2. Replies' /\ Unused'
        BY <1>10 DEF ChangeDir, Dispatch, Return, Replies, RepliesPaired, Unused,
           Uploads, FileTransfers, copyVars
  <2> QED  BY <2>1, <2>2
<1>11. CASE cmd_QUIT
  <2>1. Flags' /\ Sockets' /\ States'
        BY <1>11 DEF cmd_QUIT, Dispatch, Leave, Flags, Sockets, States,
           LoginState, Open, dataVars, copyVars
  <2>2. Replies' /\ Unused'
        BY <1>11 DEF cmd_QUIT, Dispatch, Leave, Replies, RepliesPaired, Unused,
           pathVars, copyVars
  <2> QED  BY <2>1, <2>2
<1> QED
    BY <1>2, <1>3, <1>4, <1>5, <1>6, <1>7, <1>8, <1>9, <1>10, <1>11
       DEF Control, cmd_USER, cmd_PASS, cmd_CWD, cmd_CDUP

Refusals == {<<450>>, <<451>>, <<501>>, <<503>>, <<550>>, <<553>>}

\* What start_async_copy leaves behind.
LEMMA AsyncCopyReturns ==
  ASSUME NEW src, NEW dst, start_async_copy(src, dst), copying \in BOOLEAN
  PROVE  /\ pc' = "ready" /\ copying' \in BOOLEAN
         /\ replies' \in {<<250>>} \cup Refusals
<1>1. pc' = "ready" /\ copying' \in BOOLEAN
      BY Zenon DEF start_async_copy, Return
<1>2. replies' \in {<<250>>} \cup Refusals
      BY DEF start_async_copy, Return, Refusals
<1> QED
    BY <1>1, <1>2

\* Commands on files, and the end of a background copy.
LEMMA FilesKeep == ASSUME SessionInv, Files PROVE SessionInv'
<1> USE DEF SessionInv
<1>1. CASE cmd_DELE
      BY <1>1, AnswerKeeps DEF OnlyAnswers, cmd_DELE, Answer, Dispatch, Return, Uploads
<1>2. CASE cmd_RMD
      BY <1>2, AnswerKeeps DEF OnlyAnswers, cmd_RMD, Answer, Dispatch, Return, Uploads
<1>3. CASE cmd_MKD
      BY <1>3, AnswerKeeps DEF OnlyAnswers, cmd_MKD, Answer, Dispatch, Return, Uploads
<1>4. CASE cmd_RNFR
  <2>1. Flags' /\ Sockets' /\ States'
        BY <1>4 DEF cmd_RNFR, Dispatch, Return, Flags, Sockets, States,
           LoginState, Open, dataVars, copyVars
  <2>2. Replies'
        BY <1>4 DEF cmd_RNFR, Dispatch, Return, Replies, RepliesPaired
  <2>3. Unused'
        BY <1>4 DEF cmd_RNFR, Dispatch, Return, Fresh, Unused, Pending, Uploads,
           FileTransfers, copyVars
  <2> QED  BY <2>1, <2>2, <2>3
<1>5. CASE cmd_CPFR
  <2>1. Flags' /\ Sockets' /\ States'
        BY <1>5 DEF cmd_CPFR, Dispatch, Return, Flags, Sockets, States,
           LoginState, Open, dataVars
  <2>2. Replies'
        BY <1>5 DEF cmd_CPFR, Dispatch, Return, Replies, RepliesPaired
  <2>3. Unused'
        BY <1>5 DEF cmd_CPFR, Dispatch, Return, Fresh, Unused, Pending, Uploads,
           FileTransfers, pathVars
  <2> QED  BY <2>1, <2>2, <2>3
<1>6. CASE cmd_RNTO
  <2>1. UNCHANGED <<copying, uses>> => copying' = copying /\ uses' = uses
        OBVIOUS
  <2>2. /\ pc' = "ready" /\ copying' \in BOOLEAN
        /\ replies' \in {<<250>>} \cup Refusals
        BY <1>6, <2>1, AsyncCopyReturns DEF cmd_RNTO, Return, Flags, Refusals
  <2>3. Flags' /\ Sockets' /\ States'
        BY <1>6, <2>2 DEF cmd_RNTO, Dispatch, Flags, Sockets, States, LoginState,
           Open, dataVars
  <2>4. Replies'
        BY <1>6, <2>2 DEF cmd_RNTO, Dispatch, Replies, RepliesPaired, Refusals
  <2>5. \/ uses' = uses
        \/ rename_from # None /\ Count("RNFR")
        BY <1>6, <2>1, Zenon DEF cmd_RNTO
  <2>6. Unused'
        BY <1>6, <2>2, <2>5 DEF Refusals, cmd_RNTO, Dispatch, Count, Unused, Pending, Uploads,
           FileTransfers
  <2> QED  BY <2>3, <2>4, <2>6
<1>7. CASE cmd_CPTO
  <2>1. UNCHANGED <<copying, uses>> => copying' = copying /\ uses' = uses
        OBVIOUS
  <2>2. /\ pc' = "ready" /\ copying' \in BOOLEAN
        /\ replies' \in {<<250>>} \cup Refusals
        BY <1>7, <2>1, AsyncCopyReturns DEF cmd_CPTO, Return, Flags, Refusals
  <2>3. Flags' /\ Sockets' /\ States'
        BY <1>7, <2>2 DEF cmd_CPTO, Dispatch, Flags, Sockets, States, LoginState,
           Open, dataVars
  <2>4. Replies'
        BY <1>7, <2>2 DEF cmd_CPTO, Dispatch, Replies, RepliesPaired, Refusals
  <2>5. \/ uses' = uses
        \/ copy_from # None /\ Count("CPFR")
        BY <1>7, <2>1, Zenon DEF cmd_CPTO
  <2>6. Unused'
        BY <1>7, <2>2, <2>5 DEF Refusals, cmd_CPTO, Dispatch, Count, Unused, Pending, Uploads,
           FileTransfers, pathVars
  <2> QED  BY <2>3, <2>4, <2>6
<1>8. CASE cmd_COPY
  <2>1. /\ pc' = "ready" /\ copying' \in BOOLEAN
        /\ replies' \in {<<250>>} \cup Refusals
        BY <1>8, AsyncCopyReturns DEF cmd_COPY, Return, Flags, Refusals
  <2>2. Flags' /\ Sockets' /\ States'
        BY <1>8, <2>1 DEF cmd_COPY, Dispatch, Flags, Sockets, States, LoginState,
           Open, dataVars
  <2>3. Replies' /\ Unused'
        BY <1>8, <2>1 DEF cmd_COPY, Dispatch, Replies, RepliesPaired, Refusals, Unused,
           Uploads, FileTransfers, pathVars
  <2> QED  BY <2>2, <2>3
<1>9. CASE CopyDone
  <2>1. Flags' /\ Sockets' /\ States'
        BY <1>9 DEF CopyDone, Flags, Sockets, States, LoginState, Open, dataVars,
           loopVars
  <2>2. Replies' /\ Unused'
        BY <1>9 DEF CopyDone, Replies, RepliesPaired, Unused, loopVars, pathVars
  <2> QED  BY <2>1, <2>2
<1> QED
    BY <1>1, <1>2, <1>3, <1>4, <1>5, <1>6, <1>7, <1>8, <1>9 DEF Files

Announced == replies = <<150>>

\* A second reply after the 150.
LEMMA SecondReply ==
  ASSUME NEW r \in 200 .. 599, Announced, replies' = Append(replies, r),
         pc' = "ready"
  PROVE  Replies' /\ replies' # <<501>>
<1> USE DEF Announced
<1>1. replies \in Seq(Int)
      OBVIOUS
<1>2. Len(replies') = 2 /\ replies'[1] = 150 /\ replies'[2] = r
      BY <1>1
<1>3. Len(<<501>>) = 1
      OBVIOUS
<1> QED
    BY <1>2, <1>3 DEF Replies, RepliesPaired

\* PORT, PASV, EPSV and REST.
LEMMA DataCommandsKeep ==
  ASSUME SessionInv, cmd_PORT \/ cmd_PASV \/ cmd_EPSV \/ cmd_REST
  PROVE  SessionInv'
<1> USE DEF SessionInv
<1>1. CASE cmd_PORT
  <2>1. Flags'
        BY <1>1 DEF cmd_PORT, Dispatch, Return, Flags, copyVars
  <2>2. Sockets'
        BY <1>1 DEF cmd_PORT, Dispatch, Return, Flags, Sockets, Open, copyVars
  <2>3. States'
        BY <1>1 DEF cmd_PORT, Dispatch, Return, States, LoginState, copyVars
  <2>4. Replies' /\ Unused'
        BY <1>1 DEF cmd_PORT, Dispatch, Return, Replies, RepliesPaired, Unused,
           Uploads, FileTransfers, pathVars, copyVars
  <2> QED  BY <2>1, <2>2, <2>3, <2>4
<1>2. ASSUME NEW c \in {"PASV", "EPSV"}, NEW code \in {227, 229}, Listen(c, code)
      PROVE  SessionInv'
  <2>1. /\ authenticated' = authenticated /\ data_fd' = data_fd
        /\ restart_offset' = restart_offset /\ copying' = copying
        BY <1>2 DEF Listen, copyVars
  <2>2. pc' = "ready" /\ (pasv_fd' = TRUE \/ pasv_fd' = FALSE)
        BY <1>2, Zenon DEF Listen, Return
  <2>3. Flags'
        BY <2>1, <2>2 DEF Flags
  <2>4. Sockets'
        BY <1>2 DEF Listen, Dispatch, Return, Flags, Sockets, Open, copyVars
  <2>5. States'
        BY <1>2 DEF Listen, Dispatch, Return, States, LoginState, copyVars
  <2>6. Replies' /\ Unused'
        BY <1>2 DEF Listen, Dispatch, Return, Replies, RepliesPaired, Unused,
           Uploads, FileTransfers, pathVars, copyVars
  <2> QED  BY <2>3, <2>4, <2>5, <2>6
<1>3. CASE cmd_REST
  <2>1. Flags'
        BY <1>3 DEF cmd_REST, Dispatch, Return, Flags, dataVars, copyVars
  <2>2. Sockets'
        BY <1>3 DEF cmd_REST, Dispatch, Return, Flags, Sockets, Open, dataVars,
           copyVars
  <2>3. States'
        BY <1>3 DEF cmd_REST, Dispatch, Return, States, LoginState, dataVars,
           copyVars
  <2>4. Replies'
        BY <1>3 DEF cmd_REST, Dispatch, Return, Replies, RepliesPaired
  <2>5. Unused'
        BY <1>3 DEF cmd_REST, Dispatch, Return, Fresh, Unused, Pending, Uploads,
           FileTransfers, PreLogin, pathVars, copyVars
  <2> QED  BY <2>1, <2>2, <2>3, <2>4, <2>5
<1> QED
    BY <1>1, <1>2, <1>3 DEF cmd_PASV, cmd_EPSV

\* LIST, NLST and MLSD, step by step.
LEMMA ListingsKeep ==
  ASSUME SessionInv, cmd_LIST \/ cmd_NLST \/ cmd_MLSD \/ ListOpen \/ ListEnd
  PROVE  SessionInv'
<1> USE DEF SessionInv
<1>1. ASSUME NEW c \in Listings, ListBegin(c) PROVE SessionInv'
  <2>1. Flags'
        BY <1>1 DEF ListBegin, Dispatch, Return, Flags, dataVars, copyVars
  <2>2. Sockets'
        BY <1>1 DEF ListBegin, Dispatch, Return, Flags, Sockets, Open, dataVars,
           copyVars
  <2>3. States'
        BY <1>1 DEF ListBegin, Dispatch, Return, States, LoginState, dataVars,
           copyVars
  <2>4. Replies' /\ Unused'
        BY <1>1 DEF ListBegin, Dispatch, Return, Replies, RepliesPaired, Unused,
           Listings, Uploads, FileTransfers, pathVars, copyVars
  <2> QED  BY <2>1, <2>2, <2>3, <2>4
<1>2. CASE ListOpen
  <2>1. Flags'
        BY <1>2 DEF ListOpen, DataOpened, DataNotOpened, Return, Flags, copyVars
  <2>2. Sockets'
        BY <1>2 DEF ListOpen, DataOpened, DataNotOpened, Return, Flags, Sockets,
           Open, copyVars
  <2>3. States'
        BY <1>2 DEF ListOpen, DataOpened, DataNotOpened, Return, States,
           LoginState, copyVars
  <2>4. Replies' /\ Unused'
        BY <1>2 DEF ListOpen, Return, Replies, RepliesPaired, Unused,
           Listings, Uploads, FileTransfers, pathVars, copyVars
  <2> QED  BY <2>1, <2>2, <2>3, <2>4
<1>3. CASE ListEnd
  <2>1. Flags'
        BY <1>3 DEF ListEnd, ftp_session_close_data_connection, CloseSockets,
           Return, Flags, copyVars
  <2>2. Sockets'
        BY <1>3 DEF ListEnd, ftp_session_close_data_connection, CloseSockets,
           Return, Flags, Sockets, Open, copyVars
  <2>3. States'
        BY <1>3 DEF ListEnd, ftp_session_close_data_connection, CloseSockets,
           Return, States, LoginState, copyVars
  <2>4. Replies' /\ replies' # <<501>>
    <3>1. PICK r \in {226, 451} : Return(Append(replies, r))
          BY <1>3 DEF ListEnd
    <3>2. replies = <<150>> /\ r \in 200 .. 599
          BY <1>3, <3>1 DEF ListEnd, Replies
    <3>3. replies' = Append(replies, r) /\ pc' = "ready"
          BY <3>1, Zenon DEF Return
    <3> QED  BY <3>2, <3>3, SecondReply, Zenon DEF Announced
  <2>5. Unused'
        BY <1>3 DEF ListEnd, ftp_session_close_data_connection, Unused, pathVars,
           copyVars
  <2> QED  BY <2>1, <2>2, <2>3, <2>4, <2>5
<1> QED
    BY <1>1, <1>2, <1>3 DEF cmd_LIST, cmd_NLST, cmd_MLSD, Listings

\* RETR, STOR and APPE, step by step.
LEMMA FileTransfersKeep ==
  ASSUME SessionInv, cmd_RETR \/ cmd_STOR \/ cmd_APPE \/ TransferOpen \/ TransferEnd
  PROVE  SessionInv'
<1> USE DEF SessionInv
<1>1. ASSUME NEW c \in FileTransfers, TransferBegin(c) PROVE SessionInv'
  <2>1. /\ authenticated' = authenticated /\ data_fd' = data_fd
        /\ pasv_fd' = pasv_fd /\ copying' = copying
        BY <1>1 DEF TransferBegin, dataVars, copyVars
  <2>2. restart_offset' = restart_offset \/ restart_offset' = FALSE
        BY <1>1, Zenon DEF TransferBegin
  <2>3. cmd' = c /\ pc' \in {"open", "ready"}
        BY <1>1 DEF TransferBegin, Dispatch, Return
  <2>4. Flags'
        BY <2>1, <2>2, <2>3 DEF Flags
  <2>5. Sockets'
        BY <1>1 DEF TransferBegin, Dispatch, Return, Flags, Sockets, Open,
           dataVars, copyVars
  <2>6. States'
        BY <1>1 DEF TransferBegin, Dispatch, Return, States, LoginState, dataVars,
           copyVars
  <2>7. Replies'
        BY <1>1 DEF TransferBegin, Dispatch, Return, Replies, RepliesPaired,
           Listings, Uploads, FileTransfers
  <2>8. Unused'
        BY <1>1 DEF TransferBegin, Dispatch, Return, Unused, Flags, Uploads,
           FileTransfers, pathVars, copyVars
  <2> QED  BY <2>4, <2>5, <2>6, <2>7, <2>8
<1>2. CASE TransferOpen
  <2>1. Flags'
        BY <1>2 DEF TransferOpen, DataOpened, DataNotOpened, Return, Flags,
           copyVars
  <2>2. States'
        BY <1>2 DEF TransferOpen, DataOpened, DataNotOpened, Return, States, LoginState
  <2>3. replies = <<150>>
        BY <1>2 DEF TransferOpen, Replies, Listings, FileTransfers, Uploads
  <2>4. CASE DataOpened /\ pc' = "transfer"
    <3>1. Sockets'
          BY <1>2, <2>4 DEF TransferOpen, DataOpened, Flags, Sockets, Open
    <3>2. Replies'
          BY <1>2, <2>3, <2>4 DEF TransferOpen, Return, Replies, RepliesPaired
    <3>3. Unused'
          BY <1>2, <2>4 DEF TransferOpen, Return, Count, Unused, Flags, Pending,
             pathVars, copyVars
    <3> QED  BY <2>1, <2>2, <3>1, <3>2, <3>3
  <2>5. CASE DataNotOpened /\ Return(Append(replies, 425))
    <3>1. Sockets'
          BY <1>2, <2>5 DEF TransferOpen, DataNotOpened, Return, Flags, Sockets, Open
    <3>2. Replies' /\ replies' # <<501>>
      <4>1. PICK r \in 200 .. 599 : r = 425
            OBVIOUS
      <4>2. replies' = Append(replies, r) /\ pc' = "ready"
            BY <2>5, <4>1, Zenon DEF Return
      <4> QED  BY <2>3, <4>2, SecondReply, Zenon DEF Announced
    <3>3. Unused'
          BY <1>2, <2>5 DEF TransferOpen, Unused, Flags, Uploads, FileTransfers,
             Return, pathVars, copyVars
    <3> QED  BY <2>1, <2>2, <3>1, <3>2, <3>3
  <2> QED  BY <1>2, <2>4, <2>5 DEF TransferOpen
<1>3. CASE TransferEnd
  <2>1. Flags'
        BY <1>3 DEF TransferEnd, ftp_session_close_data_connection, CloseSockets,
           Return, Flags, copyVars
  <2>2. Sockets'
        BY <1>3 DEF TransferEnd, ftp_session_close_data_connection, CloseSockets,
           Return, Flags, Sockets, Open, copyVars
  <2>3. States'
        BY <1>3 DEF TransferEnd, ftp_session_close_data_connection, CloseSockets,
           Return, States, LoginState, copyVars
  <2>4. Replies' /\ replies' # <<501>>
    <3>1. PICK r \in {226, 426, 451} : Return(Append(replies, r))
          BY <1>3 DEF TransferEnd
    <3>2. replies = <<150>> /\ r \in 200 .. 599
          BY <1>3, <3>1 DEF TransferEnd, Replies
    <3>3. replies' = Append(replies, r) /\ pc' = "ready"
          BY <3>1, Zenon DEF Return
    <3> QED  BY <3>2, <3>3, SecondReply, Zenon DEF Announced
  <2>5. Unused'
        BY <1>3 DEF TransferEnd, ftp_session_close_data_connection, Unused, pathVars,
           copyVars
  <2> QED  BY <2>1, <2>2, <2>3, <2>4, <2>5
<1> QED
    BY <1>1, <1>2, <1>3 DEF cmd_RETR, cmd_STOR, cmd_APPE, FileTransfers, Uploads

\* The end of the command loop and ftp_session_cleanup.
LEMMA EndingKeeps == ASSUME SessionInv, Ending PROVE SessionInv'
<1> USE DEF SessionInv
<1>1. ASSUME NEW c, NEW rs, pc = "ready", Leave(c, rs) PROVE SessionInv'
  <2>1. Flags'
        BY <1>1 DEF Leave, Flags, dataVars, copyVars
  <2>2. Sockets'
        BY <1>1 DEF Leave, Flags, Sockets, Open, dataVars, copyVars
  <2>3. States'
        BY <1>1 DEF Leave, States, LoginState, dataVars, copyVars
  <2>4. Replies' /\ Unused'
        BY <1>1 DEF Leave, Replies, RepliesPaired, Unused, pathVars, copyVars
  <2> QED  BY <2>1, <2>2, <2>3, <2>4
<1>2. CASE CleanupBegin
  <2>1. Flags'
        BY <1>2 DEF CleanupBegin, Flags, copyVars
  <2>2. Sockets'
        BY <1>2 DEF CleanupBegin, Flags, Sockets, Open, copyVars
  <2>3. States'
        BY <1>2 DEF CleanupBegin, States, copyVars
  <2>4. Replies' /\ Unused'
        BY <1>2 DEF CleanupBegin, Replies, RepliesPaired, Unused, pathVars, copyVars
  <2> QED  BY <2>1, <2>2, <2>3, <2>4
<1>3. CASE CleanupEnd
  <2>1. Flags'
        BY <1>3 DEF CleanupEnd, ftp_session_close_data_connection, CloseSockets,
           Flags, copyVars
  <2>2. Sockets'
        BY <1>3 DEF CleanupEnd, ftp_session_close_data_connection, CloseSockets,
           Flags, Sockets, Open, copyVars
  <2>3. States'
        BY <1>3 DEF CleanupEnd, ftp_session_close_data_connection, CloseSockets,
           States, copyVars
  <2>4. Replies' /\ Unused'
        BY <1>3 DEF CleanupEnd, ftp_session_close_data_connection, Replies,
           RepliesPaired, Unused, pathVars, copyVars
  <2> QED  BY <2>1, <2>2, <2>3, <2>4
<1>4. CASE Closed
      BY <1>4 DEF Closed, sessionVars, Flags, Sockets, States, LoginState, Open,
         Replies, RepliesPaired, Unused
<1> QED
    BY <1>1, <1>2, <1>3, <1>4 DEF Ending, Disconnected, IdleTimeout, EmptyLine

\* Every command, and every step of one, keeps the invariant.
LEMMA SessionInvNext == SessionInv /\ [SessionNext]_sessionVars => SessionInv'
<1> SUFFICES ASSUME SessionInv, [SessionNext]_sessionVars PROVE SessionInv'
    OBVIOUS
<1>1. CASE Control
      BY <1>1, ControlKeeps
<1>2. CASE Files
      BY <1>2, FilesKeep
<1>3. CASE Transfers
      BY <1>3, DataCommandsKeep, ListingsKeep, FileTransfersKeep DEF Transfers
<1>4. CASE Ending
      BY <1>4, EndingKeeps
<1>5. CASE UNCHANGED sessionVars
      BY <1>5 DEF sessionVars, SessionInv, Flags, Sockets, States, LoginState, Open,
         Replies, RepliesPaired, Unused
<1> QED
    BY <1>1, <1>2, <1>3, <1>4, <1>5 DEF SessionNext

\* The invariant holds in every session, however its commands are ordered,
\* refused or fail.
THEOREM SessionKeepsInv == SessionSpec => []SessionInv
BY SessionInvInit, SessionInvNext, PTL DEF SessionSpec

\* The sockets PASV, EPSV, PORT and the transfers open are the ones the session
\* still knows of, and ftp_session_cleanup leaves none.
THEOREM SocketsDoNotLeak == SessionSpec => []NoSocketLeak
<1>1. SessionInv => NoSocketLeak
      BY DEF SessionInv, Sockets, Open, NoSocketLeak
<1> QED
    BY <1>1, SessionKeepsInv, PTL

\* Every way out of a transfer command undoes what opening its data connection
\* did to the session.
THEOREM ReadyIsIdle == SessionSpec => []ReadyMeansIdle
<1>1. SessionInv => ReadyMeansIdle
      BY DEF SessionInv, Sockets, States, LoginState, ReadyMeansIdle
<1> QED
    BY <1>1, SessionKeepsInv, PTL

\* Every command gets one final reply, after a 150 if it transferred, but for a
\* PWD whose path is too long.
THEOREM RepliesArePaired == SessionSpec => []RepliesPaired
<1>1. SessionInv => RepliesPaired
      BY DEF SessionInv, Replies
<1> QED
    BY <1>1, SessionKeepsInv, PTL

\* REST, RNFR and CPFR are each good for one use, and an upload that was run
\* leaves no offset.
THEOREM PendingIsUsedOnce == SessionSpec => []PendingUsedOnce
<1>1. SessionInv => PendingUsedOnce
      BY DEF SessionInv, Unused, PendingUsedOnce
<1> QED
    BY <1>1, SessionKeepsInv, PTL

=============================================================================
