------------------------------ MODULE FileCopy ------------------------------
(***************************************************************************)
(* Copying one file: pal_file_copy_atomic_ex and copy_reader_thread of     *)
(* pal_fileio.c.                                                           *)
(*                                                                         *)
(* The source is read into two buffers by a reader thread while the        *)
(* calling thread writes them to a temporary file, which is renamed over   *)
(* the destination when all went well.  Without memory for two buffers, or *)
(* without a thread, one loop reads and writes.                            *)
(*                                                                         *)
(* The k-th chunk of the source is the number k.  A section of code that   *)
(* holds pipe.mtx is one step; read() and write() are made without it.     *)
(***************************************************************************)
EXTENDS Integers, Sequences

CONSTANT MaxChunks      \* bound on the size of the source, in buffers
ASSUME MaxChunksAssumption == MaxChunks \in Nat

VARIABLES
  size,        \* chunks in the source file
  nread,       \* chunks read from it so far
  len,         \* copy_pipe_t.len with the data behind it, per buffer
  fill_idx,    \* copy_pipe_t.fill_idx
  done,        \* copy_pipe_t.done
  reader_err,  \* copy_pipe_t.reader_err # 0
  rpc,         \* where the reader thread is
  fi,          \* its local fi
  pc,          \* where the calling thread is
  drain_idx,   \* its local drain_idx
  failed,      \* written < 0: the last write failed
  out_err,     \* its result
  fds,         \* the descriptors it has open
  file,        \* what was written through dst_fd
  name         \* the name of that file: "none", "tmp", "dst" or "unlinked"

srcVars == <<size, nread>>
pipeVars == <<len, fill_idx, done, reader_err>>
readVars == <<rpc, fi>>
callVars == <<pc, drain_idx, failed, out_err>>
fileVars == <<fds, file, name>>
fileCopyVars == <<size, nread, len, fill_idx, done, reader_err, rpc, fi, pc, drain_idx,
          failed, out_err, fds, file, name>>

NoChunk == 0            \* a buffer whose length is 0
Torn == 0               \* in the file: a chunk that was only partly written
Chunk == 1 .. MaxChunks
Buffer == {0, 1}

FileInit ==
  /\ size \in 0 .. MaxChunks /\ nread = 0
  /\ len = [b \in Buffer |-> NoChunk]
  /\ fill_idx = 0 /\ done = FALSE /\ reader_err = FALSE
  /\ rpc = "none" /\ fi = 0
  /\ pc = "open" /\ drain_idx = 1 /\ failed = FALSE /\ out_err = "WRITE"
  /\ fds = {} /\ file = <<>> /\ name = "none"

\* A signal moves the one possible waiter back to testing its condition.
Signal(at) == IF at = "blocked" THEN "check" ELSE at

-----------------------------------------------------------------------------
(***************************************************************************)
(* Opening the files                                                       *)
(***************************************************************************)
\* stat() fails, the source is not a regular file, the temporary name is too
\* long, or open() fails: nothing was created.
OpenSourceFails ==
  /\ pc = "open"
  /\ pc' = "end" /\ out_err' = "OPEN"
  /\ UNCHANGED <<srcVars, pipeVars, readVars, drain_idx, failed, fileVars>>

OpenSource ==
  /\ pc = "open"
  /\ fds' = {"src"}
  /\ pc' = "space"
  /\ UNCHANGED <<srcVars, pipeVars, readVars, drain_idx, failed, out_err,
                 file, name>>

\* The destination has no room: the function returns without its cleanup.
NoSpace ==
  /\ pc = "space"
  /\ pc' = "end" /\ out_err' = "NOSPACE"
  /\ UNCHANGED <<srcVars, pipeVars, readVars, drain_idx, failed, fileVars>>

OpenTempFails ==
  /\ pc = "space"
  /\ pc' = "cleanup" /\ out_err' = "OPEN"
  /\ UNCHANGED <<srcVars, pipeVars, readVars, drain_idx, failed, fileVars>>

\* The temporary file is created.  With two buffers and a thread the pipeline
\* starts, with one buffer the serial loop, and without any the copy fails.
OpenTemp ==
  /\ pc = "space"
  /\ fds' = fds \cup {"dst"} /\ name' = "tmp"
  /\ \/ pc' = "check" /\ rpc' = "check" /\ UNCHANGED out_err
     \/ pc' = "serial" /\ UNCHANGED <<rpc, out_err>>
     \/ pc' = "cleanup" /\ out_err' = "MEMORY" /\ UNCHANGED rpc
  /\ UNCHANGED <<srcVars, pipeVars, fi, drain_idx, failed, file>>

Opening == OpenSourceFails \/ OpenSource \/ NoSpace \/ OpenTempFails
           \/ OpenTemp

-----------------------------------------------------------------------------
(***************************************************************************)
(* copy_reader_thread                                                      *)
(***************************************************************************)
\* Variant: the buffer is filled without waiting for it to be drained.
ReaderTestNoWait(l, i) ==
  /\ fi' = i
  /\ rpc' = IF done THEN "exit" ELSE "read"

\* The wait for buffer i and what follows it, given the lengths l.
ReaderTest(l, i) ==
  /\ fi' = i
  /\ rpc' = IF done THEN "exit"
            ELSE IF l[i] # NoChunk THEN "blocked" ELSE "read"

ReaderStart ==
  /\ rpc = "check"
  /\ ReaderTest(len, fill_idx)
  /\ UNCHANGED <<srcVars, pipeVars, callVars, fileVars>>

\* read() returned data: hand the buffer over, swap, and go on without
\* releasing the mutex.
ReadChunk ==
  /\ rpc = "read" /\ nread < size
  /\ nread' = nread + 1
  /\ len' = [len EXCEPT ![fi] = nread + 1]
  /\ fill_idx' = 1 - fi
  /\ pc' = Signal(pc)
  /\ ReaderTest(len', fill_idx')
  /\ UNCHANGED <<size, done, reader_err, drain_idx, failed, out_err, fileVars>>

\* read() returned 0 or failed.
ReadEnds ==
  /\ rpc = "read"
  /\ \/ nread = size /\ UNCHANGED reader_err
     \/ reader_err' = TRUE
  /\ done' = TRUE
  /\ pc' = Signal(pc)
  /\ rpc' = "exit"
  /\ UNCHANGED <<srcVars, len, fill_idx, fi, drain_idx, failed, out_err,
                 fileVars>>

Reader == ReaderStart \/ ReadChunk \/ ReadEnds

-----------------------------------------------------------------------------
(***************************************************************************)
(* The calling thread, writing                                             *)
(***************************************************************************)
\* The wait for a filled buffer and what follows it, given the lengths l.
WriterTest(l) ==
  LET d == 1 - fill_idx IN
  /\ pc' = IF l[d] # NoChunk THEN "write"
           ELSE IF done THEN "join" ELSE "blocked"
  /\ drain_idx' = d

WriterStart ==
  /\ pc = "check"
  /\ WriterTest(len)
  /\ UNCHANGED <<srcVars, pipeVars, readVars, failed, out_err, fileVars>>

\* The chunk was written and the progress callback goes on: the buffer is free.
WriteOk ==
  /\ pc = "write"
  /\ file' = Append(file, len[drain_idx])
  /\ len' = [len EXCEPT ![drain_idx] = NoChunk]
  /\ rpc' = Signal(rpc)
  /\ WriterTest(len')
  /\ UNCHANGED <<srcVars, fill_idx, done, reader_err, fi, failed, out_err, fds,
                 name>>

\* write() failed, or returned 0: stop the reader.
WriteFails ==
  /\ pc = "write"
  /\ file' \in {file, Append(file, Torn)}
  /\ failed' = TRUE /\ out_err' = "WRITE"
  /\ done' = TRUE
  /\ rpc' = Signal(rpc)
  /\ pc' = "join"
  /\ UNCHANGED <<srcVars, len, fill_idx, reader_err, fi, drain_idx, fds, name>>

\* Variant: a cancelled copy does not wake the reader.
CancelledNoSignal ==
  /\ pc = "write"
  /\ file' = Append(file, len[drain_idx])
  /\ out_err' = "CANCELLED"
  /\ done' = TRUE
  /\ pc' = "join"
  /\ UNCHANGED <<srcVars, len, fill_idx, reader_err, readVars, drain_idx,
                 failed, fds, name>>

\* The progress callback cancels the copy after the chunk was written.
Cancelled ==
  /\ pc = "write"
  /\ file' = Append(file, len[drain_idx])
  /\ out_err' = "CANCELLED"
  /\ done' = TRUE
  /\ rpc' = Signal(rpc)
  /\ pc' = "join"
  /\ UNCHANGED <<srcVars, len, fill_idx, reader_err, fi, drain_idx, failed,
                 fds, name>>

\* Variant: a read error does not count.
JoinIgnoresReadError ==
  /\ pc = "join" /\ rpc = "exit"
  /\ out_err' = IF failed THEN "WRITE"
                ELSE IF out_err = "CANCELLED" THEN out_err ELSE "OK"
  /\ pc' = IF out_err' = "OK" THEN "rename" ELSE "cleanup"
  /\ UNCHANGED <<srcVars, pipeVars, readVars, drain_idx, failed, fileVars>>

\* Join the reader and settle the result; out_err still has its initial value
\* when the loop ended normally.
JoinReader ==
  /\ pc = "join" /\ rpc = "exit"
  /\ out_err' = IF failed THEN "WRITE"
                ELSE IF reader_err THEN "READ"
                ELSE IF out_err = "CANCELLED" THEN out_err ELSE "OK"
  /\ pc' = IF out_err' = "OK" THEN "rename" ELSE "cleanup"
  /\ UNCHANGED <<srcVars, pipeVars, readVars, drain_idx, failed, fileVars>>

Writer == WriterStart \/ WriteOk \/ WriteFails \/ Cancelled \/ JoinReader

-----------------------------------------------------------------------------
(***************************************************************************)
(* The serial loop                                                         *)
(***************************************************************************)
\* One chunk is read, written and reported.
SerialChunk ==
  /\ pc = "serial" /\ nread < size
  /\ nread' = nread + 1
  /\ \/ file' = Append(file, nread + 1) /\ UNCHANGED <<pc, out_err>>
     \/ /\ file' = Append(file, nread + 1)
        /\ pc' = "cleanup" /\ out_err' = "CANCELLED"
     \/ /\ file' \in {file, Append(file, Torn)}
        /\ pc' = "cleanup" /\ out_err' = "WRITE"
  /\ UNCHANGED <<size, pipeVars, readVars, drain_idx, failed, fds, name>>

SerialEnds ==
  /\ pc = "serial"
  /\ \/ nread = size /\ pc' = "rename" /\ out_err' = "OK"
     \/ pc' = "cleanup" /\ out_err' = "READ"
  /\ UNCHANGED <<srcVars, pipeVars, readVars, drain_idx, failed, fileVars>>

-----------------------------------------------------------------------------
(***************************************************************************)
(* Rename and cleanup                                                      *)
(***************************************************************************)
Rename ==
  /\ pc = "rename"
  /\ \/ name' = "dst" /\ out_err' = "OK"
     \/ UNCHANGED name /\ out_err' = "WRITE"
  /\ pc' = "cleanup"
  /\ UNCHANGED <<srcVars, pipeVars, readVars, drain_idx, failed, fds, file>>

\* Variant: the temporary file stays behind.
CleanupKeepsTemp ==
  /\ pc = "cleanup"
  /\ fds' = {} /\ pc' = "end"
  /\ UNCHANGED <<srcVars, pipeVars, readVars, drain_idx, failed, out_err, file,
                 name>>

Cleanup ==
  /\ pc = "cleanup"
  /\ fds' = {}
  /\ name' = IF out_err # "OK" /\ name = "tmp" THEN "unlinked" ELSE name
  /\ pc' = "end"
  /\ UNCHANGED <<srcVars, pipeVars, readVars, drain_idx, failed, out_err, file>>

Finishing == SerialChunk \/ SerialEnds \/ Rename \/ Cleanup

\* pthread_cond_wait may return without a signal.
SpuriousWakeup ==
  /\ \/ pc = "blocked" /\ pc' = "check" /\ UNCHANGED rpc
     \/ rpc = "blocked" /\ rpc' = "check" /\ UNCHANGED pc
  /\ UNCHANGED <<srcVars, pipeVars, fi, drain_idx, failed, out_err, fileVars>>

FileEnded == pc = "end" /\ UNCHANGED fileCopyVars

FileNext == Opening \/ Reader \/ Writer \/ Finishing \/ SpuriousWakeup \/ FileEnded

FileSpec == FileInit /\ [][FileNext]_fileCopyVars

-----------------------------------------------------------------------------
(***************************************************************************)
(* Properties                                                              *)
(***************************************************************************)

Upto(k) == [i \in 1 .. k |-> i]     \* the first k chunks, in order

\* read() never fills the buffer that write() is writing out: both work without
\* the mutex.
NoBufferRace == ~(rpc = "read" /\ pc = "write" /\ fi = drain_idx)

Abstract == INSTANCE AtomicCopy WITH
  content <- IF name # "dst" THEN "old" ELSE IF file = Upto(size) THEN "new" ELSE "part",
  result <- IF pc # "end" THEN "none" ELSE IF out_err = "OK" THEN "OK" ELSE "ERR"

\* The destination name only ever refers to its old contents or to a complete
\* copy of the source, whenever the process might be stopped; it changes once, and
\* FTP_OK is returned if and only if it did.
CopyIsAtomic == Abstract!AtomicSpec

\* The call leaves no temporary file behind, and it closes its descriptors,
\* except when the copy was refused for lack of space: that early return leaves
\* the source open.
NothingLeftBehind ==
  pc = "end" => name # "tmp" /\ (fds = {} \/ out_err = "NOSPACE")

\* Both buffers were filled before the writer took the first: the writer takes
\* the second one, and then each thread waits for the other.
Stuck ==
  /\ len[fill_idx] # NoChunk
  /\ ~(pc = "write" /\ drain_idx = fill_idx)

\* That is the only way in which a copy does not return (see Copies).
CopyOver == pc = "end" \/ Stuck

=============================================================================
