------------------------------ MODULE RetrLoop ------------------------------
(***************************************************************************)
(* The transfer loop of the RETR command (cmd_RETR in ftp_commands.c).     *)
(*                                                                         *)
(* Bursts of sendfile alternate with a cooldown of read and send.  A burst *)
(* works from offset and the cooldown from the position of the descriptor; *)
(* the loop carries one over to the other each time it changes sides.  The *)
(* bytes of the file are numbered from 1, and "delivered" is what the      *)
(* client receives.                                                        *)
(*                                                                         *)
(* pal_sendfile is modelled with the results of all its platforms.  An     *)
(* interrupted call that is simply made again is no step.  The file may    *)
(* grow or shrink while it is sent: an upload in place (APPE, REST + STOR, *)
(* the web page) shares its inode.                                         *)
(***************************************************************************)
EXTENDS Integers, Sequences

CONSTANTS
  FileSize,       \* vfs_get_size when the file was opened
  SendfileChunk,  \* FTP_RETR_SENDFILE_CHUNK
  Cooldown,       \* SENDFILE_COOLDOWN_BYTES
  BufferSize,     \* ftp_buffer_size()
  Retries         \* FTP_SENDFILE_EAGAIN_RETRIES

ASSUME RetrAssumption ==
  /\ FileSize \in Nat /\ Retries \in Nat \ {0}
  /\ {SendfileChunk, Cooldown, BufferSize} \subseteq Nat \ {0}

VARIABLES
  at,             \* where the loop is
  start,          \* the offset that REST had set
  offset,         \* cmd_RETR's offset
  position,       \* the position of the file descriptor
  remaining,      \* cmd_RETR's remaining
  use_sendfile,   \* cmd_RETR's use_sendfile
  sf_sent_any,    \* this burst has sent something
  tries,          \* r, in the retry loop
  cooldown_left,  \* what is left of the read() path
  can_retry_sf,   \* sendfile is tried again after it
  buf,            \* a stream buffer has been acquired
  disk,           \* the length of the file now
  broken,         \* the data connection is
  delivered,      \* what the client received
  reply,          \* the final reply
  slipped         \* history: a fatal sendfile error was retried after it sent

retrVars == <<at, start, offset, position, remaining, use_sendfile, sf_sent_any,
              tries, cooldown_left, can_retry_sf, buf, disk, broken, delivered, reply, slipped>>
envVars == <<start, disk>>
coolVars == <<cooldown_left, can_retry_sf, buf>>

Least(a, b) == IF a < b THEN a ELSE b

RetrInit ==
  /\ start \in 0 .. FileSize
  /\ offset = start /\ position = start
  /\ remaining = FileSize - start
  /\ use_sendfile \in BOOLEAN
  /\ at = IF remaining = 0 THEN "finish" ELSE IF use_sendfile THEN "burst" ELSE "path"
  /\ sf_sent_any = FALSE /\ tries = 0 /\ cooldown_left = 0 /\ can_retry_sf = FALSE
  /\ buf = FALSE /\ disk = FileSize /\ broken = FALSE /\ delivered = <<>>
  /\ reply = "none" /\ slipped = FALSE

\* The bytes from + 1 .. from + k reach the client.
Deliver(from, k) == delivered' = delivered \o [i \in 1 .. k |-> from + i]

-----------------------------------------------------------------------------
(* The sendfile burst.                                                     *)

\* pal_sendfile transfers k bytes of what it was asked for and advances offset.
Transfers(k) ==
  /\ k <= Least(remaining, SendfileChunk)
  /\ k > 0 => ~broken /\ offset + k <= disk
  /\ Deliver(offset, k)
  /\ offset' = offset + k

\* It returns what it sent, to the burst or to one of its retries.
SendfileSends(k) ==
  /\ at \in {"burst", "retry"}
  /\ Transfers(k)
  /\ remaining' = remaining - k
  /\ sf_sent_any' = TRUE /\ tries' = 0
  /\ at' = IF remaining' = 0 THEN "finish" ELSE "burst"
  /\ UNCHANGED <<envVars, position, use_sendfile, coolVars, broken,
                 reply, slipped>>

\* A fatal storage error, possibly after k bytes: they are not counted, sendfile
\* is given up, and the read() path takes over where sendfile stopped.
SendfileFatal(k) ==
  /\ at = "burst"
  /\ Transfers(k)
  /\ position' = offset'
  /\ use_sendfile' = FALSE
  /\ at' = "path"
  /\ UNCHANGED <<envVars, remaining, sf_sent_any, tries, coolVars,
                 broken, reply, slipped>>

\* Nothing was sent, or there is an error of another kind: try again for a while.
SendfileNothing ==
  /\ at = "burst"
  /\ at' = "retry" /\ tries' = 0
  /\ UNCHANGED <<envVars, offset, position, remaining, use_sendfile, sf_sent_any,
                 coolVars, broken, delivered, reply, slipped>>

\* After the last retry the burst is over, and sendfile is given up for good if
\* it has sent nothing.
CountRetry ==
  /\ tries' = (tries + 1) % Retries
  /\ at' = IF tries' = 0 THEN "path" ELSE "retry"
  /\ position' = IF at' = "path" THEN offset' ELSE position
  /\ use_sendfile' = (use_sendfile /\ (at' = "path" => sf_sent_any))

RetryNothing ==
  /\ at = "retry"
  /\ UNCHANGED <<offset, delivered>>
  /\ CountRetry
  /\ UNCHANGED <<envVars, remaining, sf_sent_any, coolVars, broken,
                 reply, slipped>>

\* The retry loop does not tell a fatal error from the others.
RetryFatal(k) ==
  /\ at = "retry"
  /\ Transfers(k)
  /\ CountRetry
  /\ slipped' = TRUE
  /\ UNCHANGED <<envVars, remaining, sf_sent_any, coolVars, broken, reply>>

\* The connection breaks in pal_send_all, which pal_sendfile calls where the file
\* system has no sendfile: k bytes went out that offset does not count.
SendfileBreaks(k) ==
  /\ ~broken
  /\ k < Least(remaining, SendfileChunk)
  /\ k > 0 => offset + k <= disk
  /\ Deliver(offset, k)
  /\ broken' = TRUE
  /\ UNCHANGED offset
  /\ \/ /\ at = "burst" /\ at' = "retry" /\ tries' = 0
        /\ UNCHANGED <<position, use_sendfile>>
     \/ at = "retry" /\ CountRetry
  /\ UNCHANGED <<envVars, remaining, sf_sent_any, coolVars, reply, slipped>>

-----------------------------------------------------------------------------
(* The read() path.                                                        *)

\* A stream buffer, and how long to stay.  A burst that stalled has sent some
\* of the file before, or sendfile would be off.
EnterReadPath ==
  /\ at = "path"
  /\ can_retry_sf' = (use_sendfile /\ remaining > Cooldown)
  /\ cooldown_left' = IF can_retry_sf' THEN Cooldown ELSE remaining
  /\ buf' = TRUE
  /\ at' = "read"
  /\ UNCHANGED <<envVars, offset, position, remaining, use_sendfile, sf_sent_any, tries,
                 broken, delivered, reply, slipped>>

\* No stream buffer is free: "force 426".
NoBuffer ==
  /\ at = "path" /\ ~buf
  /\ remaining' = 1
  /\ at' = "finish"
  /\ UNCHANGED <<envVars, offset, position, use_sendfile, sf_sent_any, tries,
                 coolVars, broken, delivered, reply, slipped>>

Wanted == Least(Least(remaining, BufferSize), cooldown_left)

\* Variant: the next burst starts where the last one stopped.
AfterReadKeepsOffset ==
  /\ at' = IF remaining' = 0 THEN "finish" ELSE IF cooldown_left' > 0 THEN "read" ELSE "burst"
  /\ sf_sent_any' = (sf_sent_any /\ at' # "burst")
  /\ UNCHANGED offset

\* After the cooldown sendfile is retried, from the number of bytes left.
AfterRead ==
  /\ at' = IF remaining' = 0 THEN "finish" ELSE IF cooldown_left' > 0 THEN "read" ELSE "burst"
  /\ offset' = IF at' = "burst" THEN FileSize - remaining' ELSE offset
  /\ sf_sent_any' = (sf_sent_any /\ at' # "burst")

\* vfs_read and ftp_session_send_data.
ReadAndSend(n) ==
  /\ at = "read" /\ ~broken
  /\ n <= Wanted /\ position + n <= disk
  /\ Deliver(position, n)
  /\ position' = position + n
  /\ remaining' = remaining - n
  /\ cooldown_left' = cooldown_left - n
  /\ AfterRead
  /\ UNCHANGED <<envVars, use_sendfile, tries, can_retry_sf, buf, broken, reply, slipped>>

\* vfs_read finds the end of the file, or fails.
ReadFails ==
  /\ at = "read"
  /\ at' = "finish"
  /\ UNCHANGED <<envVars, offset, position, remaining, use_sendfile, sf_sent_any, tries,
                 coolVars, broken, delivered, reply, slipped>>

\* The client receives k of the bytes read, and the connection breaks.
SendBreaks(k) ==
  /\ at = "read"
  /\ k < Wanted
  /\ k > 0 => ~broken /\ position + k <= disk
  /\ Deliver(position, k)
  /\ broken' = TRUE /\ remaining' = 1
  /\ at' = "finish"
  /\ UNCHANGED <<envVars, offset, position, use_sendfile, sf_sent_any, tries,
                 coolVars, reply, slipped>>

Reply ==
  /\ at = "finish"
  /\ reply' = IF remaining = 0 THEN "226" ELSE "426"
  /\ at' = "end"
  /\ UNCHANGED <<envVars, offset, position, remaining, use_sendfile, sf_sent_any, tries,
                 coolVars, broken, delivered, slipped>>

-----------------------------------------------------------------------------
\* Somebody writes to the file.
FileChanges ==
  /\ at # "end"
  /\ disk' \in 0 .. FileSize + 1
  /\ UNCHANGED <<at, start, offset, position, remaining, use_sendfile, sf_sent_any, tries,
                 coolVars, broken, delivered, reply, slipped>>

RetrEnded == at = "end" /\ UNCHANGED retrVars

RetrStep ==
  \/ \E k \in 1 .. SendfileChunk : SendfileSends(k) \/ RetryFatal(k)
  \/ \E k \in 0 .. SendfileChunk : SendfileFatal(k) \/ SendfileBreaks(k)
  \/ SendfileNothing \/ RetryNothing
  \/ EnterReadPath \/ NoBuffer
  \/ \E n \in 1 .. BufferSize : ReadAndSend(n)
  \/ \E k \in 0 .. BufferSize : SendBreaks(k)
  \/ ReadFails \/ Reply

RetrNext == RetrStep \/ FileChanges \/ RetrEnded

RetrSpec == RetrInit /\ [][RetrNext]_retrVars

-----------------------------------------------------------------------------
(* Properties.                                                             *)

\* The client receives the bytes of the file from the restart offset on, each
\* once and in order, across bursts, retries, cooldowns and errors, whatever
\* happens to the file meanwhile; and 226 means that it has all that the file
\* had when it was opened.  (Excepted is a fatal error inside the retry loop
\* after some bytes: see NothingTwice.)
DownloadIsExact ==
  ~slipped =>
    /\ delivered = [i \in 1 .. Len(delivered) |-> start + i]
    /\ reply = "226" => Len(delivered) >= FileSize - start

\* "so no data is double-sent": no byte of the file is sent twice.
NothingTwice == \A i, j \in DOMAIN delivered : i < j => delivered[i] < delivered[j]

=============================================================================
