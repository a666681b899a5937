--------------------------- MODULE FileCopyProofs ---------------------------
(***************************************************************************)
(* pal_file_copy_atomic_ex implements AtomicCopy for sources of any size,  *)
(* and leaves nothing behind.                                              *)
(***************************************************************************)
EXTENDS FileCopy, TLAPS

(* The writer has met no error and was not cancelled.                      *)
Going == ~failed /\ out_err # "CANCELLED"

Switches == done \in BOOLEAN /\ reader_err \in BOOLEAN /\ failed \in BOOLEAN
Types ==
  /\ size \in 0 .. MaxChunks /\ nread \in 0 .. size
  /\ len \in [Buffer -> Chunk \cup {NoChunk}]
  /\ fill_idx \in Buffer /\ fi \in Buffer /\ drain_idx \in Buffer
  /\ rpc \in {"none", "check", "blocked", "read", "exit"}
  /\ pc \in {"open", "space", "check", "blocked", "write", "join", "serial",
             "rename", "cleanup", "end"}

(* What a fresh call starts from; the serial loop leaves the pipe alone.   *)
Fresh ==
  /\ pc \in {"open", "space"} =>
       /\ nread = 0 /\ file = <<>> /\ name = "none"
       /\ len = [b \in Buffer |-> NoChunk] /\ done = FALSE /\ failed = FALSE
       /\ reader_err = FALSE /\ out_err = "WRITE"
  /\ pc = "open" => fds = {}
  /\ pc \in {"open", "space", "serial"} => rpc = "none"
  /\ pc = "serial" => file = Upto(nread)

(* The writer owns a full buffer while it writes; the reader owns the free *)
(* one at fill_idx while it reads.                                         *)
Piping == {"check", "blocked", "write", "join"}
Ownership ==
  /\ pc \in Piping => rpc # "none" /\ name = "tmp" /\ out_err \in {"WRITE", "CANCELLED"}
  /\ pc \in {"check", "blocked", "write"} => Going
  /\ rpc \notin {"none", "exit"} => pc \in Piping
  /\ pc = "write" => len[drain_idx] # NoChunk
  /\ rpc = "read" => fi = fill_idx /\ len[fi] = NoChunk

(* As long as the writer goes on, only the reader sets done, and then no   *)
(* chunk is left in the buffer at fill_idx; when the writer has stopped,   *)
(* none is left in the other one.                                          *)
Shutdown ==
  pc \in Piping /\ Going =>
    /\ rpc = "exit" <=> done
    /\ done => len[fill_idx] = NoChunk /\ (reader_err \/ nread = size)
    /\ pc = "join" => done /\ len[1 - fill_idx] = NoChunk

(* Unless the writer has passed over a buffer, the file and the buffers    *)
(* together hold the chunks read, in order.                                *)
InOrder ==
  pc \in Piping /\ Going /\ ~Stuck =>
    IF len[fill_idx] # NoChunk
    THEN /\ nread >= 2 /\ len[fill_idx] = nread - 1
         /\ len[1 - fill_idx] = nread /\ file = Upto(nread - 2)
    ELSE IF len[1 - fill_idx] # NoChunk
    THEN len[1 - fill_idx] = nread /\ file = Upto(nread - 1)
    ELSE file = Upto(nread)

(* The temporary file is renamed when it is complete, and OK is returned   *)
(* if and only if it was.                                                  *)
Outcome ==
  /\ pc \in {"serial", "rename"} => name = "tmp"
  /\ pc = "rename" => out_err = "OK" /\ file = Upto(size)
  /\ name = "dst" => pc \in {"cleanup", "end"} /\ file = Upto(size)
  /\ pc \in {"cleanup", "end"} => (out_err = "OK" <=> name = "dst")
  /\ pc = "end" => name # "tmp" /\ (fds = {} \/ out_err = "NOSPACE")

FileInv == Types /\ Switches /\ Fresh /\ Ownership /\ Shutdown /\ InOrder /\ Outcome

USE DEF Buffer, NoChunk, Torn, Signal, Going, Piping

\* Writing chunk k + 1 after the first k chunks gives the first k + 1.
LEMMA NextChunk ==
  ASSUME NEW k \in Nat
  PROVE  Append(Upto(k), k + 1) = Upto(k + 1)
BY DEF Upto

LEMMA FileInvInit == FileInit => FileInv
<1> SUFFICES ASSUME FileInit PROVE FileInv
    OBVIOUS
<1>1. Types
      BY MaxChunksAssumption DEF FileInit, Types
<1>2. Switches
      BY DEF FileInit, Switches
<1>3. Fresh /\ Ownership /\ Shutdown /\ InOrder /\ Outcome
      BY DEF FileInit, Fresh, Ownership, Shutdown, InOrder, Outcome
<1> QED  BY <1>1, <1>2, <1>3 DEF FileInv

\* Opening the files.
LEMMA OpeningKeeps == FileInv /\ Opening => FileInv'
<1> SUFFICES ASSUME FileInv, Opening PROVE FileInv'
    OBVIOUS
<1> USE DEF FileInv, srcVars, pipeVars, readVars, fileVars
<1>1. CASE OpenSourceFails \/ OpenSource \/ NoSpace \/ OpenTempFails
  <2>1. Types' /\ Switches'
        BY <1>1 DEF OpenSourceFails, OpenSource, NoSpace, OpenTempFails, Types, Switches
  <2>2. Fresh' /\ Outcome'
        BY <1>1 DEF OpenSourceFails, OpenSource, NoSpace, OpenTempFails, Fresh, Outcome
  <2>3. Ownership' /\ Shutdown' /\ InOrder'
        BY <1>1 DEF OpenSourceFails, OpenSource, NoSpace, OpenTempFails, Fresh, Ownership,
           Shutdown, InOrder
  <2> QED  BY <2>1, <2>2, <2>3
<1>2. CASE OpenTemp
  <2>1. Types' /\ Switches'
        BY <1>2 DEF OpenTemp, Types, Switches
  <2>2. Upto(0) = <<>>
        BY DEF Upto
  <2>3. Fresh' /\ Outcome'
        BY <1>2, <2>2 DEF OpenTemp, Fresh, Outcome
  <2>4. Ownership' /\ Shutdown'
        BY <1>2 DEF OpenTemp, Fresh, Ownership, Shutdown
  <2>5. InOrder'
        BY <1>2, <2>2 DEF OpenTemp, Fresh, InOrder, Types
  <2> QED  BY <2>1, <2>3, <2>4, <2>5
<1> QED  BY <1>1, <1>2 DEF Opening

\* The reader thread.
LEMMA ReaderKeeps == FileInv /\ Reader => FileInv'
<1> SUFFICES ASSUME FileInv, Reader PROVE FileInv'
    OBVIOUS
<1> USE DEF FileInv, srcVars, pipeVars, callVars, fileVars
<1>1. pc \in Piping
      BY DEF Reader, ReaderStart, ReadChunk, ReadEnds, Ownership
<1>2. CASE ReaderStart
  <2>1. Types' /\ Switches' /\ Fresh' /\ Outcome'
        BY <1>1, <1>2 DEF ReaderStart, ReaderTest, Types, Switches, Fresh, Outcome
  <2>2. Ownership' /\ Shutdown'
        BY <1>2 DEF ReaderStart, ReaderTest, Types, Switches, Ownership, Shutdown
  <2>3. InOrder'
        BY <1>2 DEF ReaderStart, InOrder, Stuck
  <2> QED  BY <2>1, <2>2, <2>3
<1>3. CASE ReadChunk
  <2>1. Types'
        BY <1>3, MaxChunksAssumption DEF ReadChunk, ReaderTest, Types, Chunk
  <2>2. Switches' /\ Fresh' /\ Outcome'
        BY <1>1, <1>3 DEF ReadChunk, Switches, Fresh, Outcome
  <2>3. Ownership'
        BY <1>1, <1>3 DEF ReadChunk, ReaderTest, Types, Ownership
  <2>4. Shutdown'
        BY <1>1, <1>3 DEF ReadChunk, ReaderTest, Types, Ownership, Shutdown
  <2>5. InOrder'
        BY <1>1, <1>3 DEF ReadChunk, Types, Ownership, InOrder, Stuck, Chunk, Shutdown
  <2> QED  BY <2>1, <2>2, <2>3, <2>4, <2>5
<1>4. CASE ReadEnds
  <2>1. Types' /\ Switches'
        BY <1>4 DEF ReadEnds, Types, Switches
  <2>2. Fresh' /\ Outcome'
        BY <1>1, <1>4 DEF ReadEnds, Fresh, Outcome
  <2>3. Ownership'
        BY <1>1, <1>4 DEF ReadEnds, Ownership
  <2>4. Shutdown'
        BY <1>1, <1>4 DEF ReadEnds, Types, Ownership, Shutdown
  <2>5. InOrder'
        BY <1>1, <1>4 DEF ReadEnds, InOrder, Stuck
  <2> QED  BY <2>1, <2>2, <2>3, <2>4, <2>5
<1> QED  BY <1>2, <1>3, <1>4 DEF Reader

\* A chunk written in its turn: what InOrder says after it.
LEMMA WriteKeepsOrder ==
  ASSUME FileInv, WriteOk
  PROVE  InOrder'
<1> USE DEF FileInv, srcVars
<1>1. /\ pc = "write" /\ file' = Append(file, len[drain_idx])
      /\ len' = [len EXCEPT ![drain_idx] = NoChunk] /\ len[drain_idx] # NoChunk
      /\ UNCHANGED <<fill_idx, nread, failed, out_err>>
      BY DEF WriteOk, Ownership
<1>2. nread \in Nat /\ Going
      BY <1>1 DEF Types, Ownership
<1> SUFFICES ASSUME ~Stuck'
             PROVE  /\ len'[fill_idx'] = NoChunk
                    /\ IF len'[1 - fill_idx'] # NoChunk
                       THEN len'[1 - fill_idx'] = nread' /\ file' = Upto(nread' - 1)
                       ELSE file' = Upto(nread')
    BY DEF InOrder
<1>3. CASE drain_idx = fill_idx
  <2>1. ~Stuck
        BY <1>1, <1>3 DEF Stuck
  <2>2. /\ nread >= 2 /\ len[fill_idx] = nread - 1
        /\ len[1 - fill_idx] = nread /\ file = Upto(nread - 2)
        BY <1>1, <1>2, <1>3, <2>1 DEF InOrder
  <2>3. file' = Upto(nread - 1)
    <3> DEFINE k == nread - 2
    <3>1. k \in Nat /\ k + 1 = nread - 1
          BY <1>2, <2>2
    <3>2. Append(Upto(k), k + 1) = Upto(k + 1)
          BY <3>1, NextChunk
    <3>3. file' = Append(Upto(k), k + 1)
          BY <1>1, <1>3, <2>2, <3>1
    <3> QED  BY <3>1, <3>2, <3>3, Zenon
  <2> QED  BY <1>1, <1>2, <1>3, <2>2, <2>3 DEF Types
<1>4. CASE drain_idx = 1 - fill_idx
  <2>1. len'[fill_idx'] = NoChunk
        BY <1>1, <1>4 DEF WriteOk, WriterTest, Stuck, Types
  <2>2. len[fill_idx] = NoChunk /\ ~Stuck
        BY <1>1, <1>4, <2>1 DEF Stuck, Types
  <2>3. len[1 - fill_idx] = nread /\ file = Upto(nread - 1) /\ nread > 0
        BY <1>1, <1>2, <1>4, <2>2 DEF InOrder
  <2>4. file' = Upto(nread)
    <3> DEFINE k == nread - 1
    <3>1. k \in Nat /\ k + 1 = nread
          BY <1>2, <2>3
    <3>2. Append(Upto(k), k + 1) = Upto(k + 1)
          BY <3>1, NextChunk
    <3>3. file' = Append(Upto(k), k + 1)
          BY <1>1, <1>4, <2>3, <3>1
    <3> QED  BY <3>1, <3>2, <3>3, Zenon
  <2> QED  BY <1>1, <1>4, <2>1, <2>4 DEF Types
<1> QED  BY <1>3, <1>4 DEF Types

\* The calling thread, as the writer of the pipeline.
LEMMA WriterKeeps == FileInv /\ Writer => FileInv'
<1> SUFFICES ASSUME FileInv, Writer PROVE FileInv'
    OBVIOUS
<1> USE DEF FileInv, srcVars, pipeVars, readVars, fileVars
<1>1. pc \in Piping
      BY DEF Writer, WriterStart, WriteOk, WriteFails, Cancelled, JoinReader
<1>2. CASE WriterStart
  <2>1. Types' /\ Switches' /\ Fresh' /\ Outcome'
        BY <1>1, <1>2 DEF WriterStart, WriterTest, Types, Switches, Fresh, Outcome
  <2>2. Ownership' /\ Shutdown'
        BY <1>2 DEF WriterStart, WriterTest, Types, Switches, Ownership, Shutdown
  <2>3. InOrder'
        BY <1>2 DEF WriterStart, WriterTest, InOrder, Stuck, Types, Ownership
  <2> QED  BY <2>1, <2>2, <2>3
<1>3. CASE WriteOk
  <2>1. Types' /\ Switches' /\ Fresh' /\ Outcome'
        BY <1>1, <1>3 DEF WriteOk, WriterTest, Types, Switches, Fresh, Outcome
  <2>2. Ownership'
        BY <1>3 DEF WriteOk, WriterTest, Types, Ownership
  <2>3. Shutdown'
        BY <1>3 DEF WriteOk, WriterTest, Types, Ownership, Shutdown
  <2> QED  BY <1>3, <2>1, <2>2, <2>3, WriteKeepsOrder
<1>4. CASE WriteFails \/ Cancelled
  <2>1. Types' /\ Switches'
        BY <1>4 DEF WriteFails, Cancelled, Types, Switches
  <2>2. pc' = "join" /\ ~Going' /\ name' = name /\ rpc' = Signal(rpc) /\ len' = len
        /\ fi' = fi /\ fill_idx' = fill_idx /\ out_err' \in {"WRITE", "CANCELLED"}
        BY <1>4 DEF WriteFails, Cancelled
  <2>3. Fresh' /\ Outcome' /\ Ownership' /\ Shutdown' /\ InOrder'
        BY <1>1, <2>2 DEF Fresh, Outcome, Ownership, Shutdown, InOrder
  <2> QED  BY <2>1, <2>3
<1>5. CASE JoinReader
  <2>1. Types' /\ Switches'
        BY <1>5 DEF JoinReader, Types, Switches
  <2>2. Fresh' /\ Ownership' /\ Shutdown' /\ InOrder'
        BY <1>5 DEF JoinReader, Fresh, Ownership, Shutdown, InOrder
  <2>3. out_err' = "OK" => file = Upto(size)
    <3> SUFFICES ASSUME out_err' = "OK" PROVE file = Upto(size)
        OBVIOUS
    <3>1. Going /\ ~reader_err
          BY <1>5 DEF JoinReader, Ownership
    <3>2. len[fill_idx] = NoChunk /\ len[1 - fill_idx] = NoChunk /\ nread = size
          BY <1>1, <1>5, <3>1 DEF JoinReader, Shutdown
    <3> QED  BY <1>1, <3>1, <3>2 DEF InOrder, Stuck
  <2>4. name = "tmp" /\ name' = name /\ file' = file /\ size' = size
        BY <1>1, <1>5 DEF JoinReader, Ownership
  <2>5. Outcome'
        BY <1>5, <2>3, <2>4 DEF JoinReader, Outcome
  <2> QED  BY <2>1, <2>2, <2>5
<1> QED  BY <1>2, <1>3, <1>4, <1>5 DEF Writer

\* The serial loop, the rename and the cleanup.
LEMMA FinishingKeeps == FileInv /\ Finishing => FileInv'
<1> SUFFICES ASSUME FileInv, Finishing PROVE FileInv'
    OBVIOUS
<1> USE DEF FileInv, srcVars, pipeVars, readVars, fileVars
<1>1. pc' \notin Piping /\ rpc' = rpc /\ pc' \notin {"open", "space"}
      BY DEF Finishing, SerialChunk, SerialEnds, Rename, Cleanup
<1>2. Types' /\ Switches'
      BY MaxChunksAssumption DEF Finishing, SerialChunk, SerialEnds, Rename, Cleanup, Types,
         Switches
<1>3. rpc \in {"none", "exit"}
      BY DEF Finishing, SerialChunk, SerialEnds, Rename, Cleanup, Ownership, Types
<1>4. Ownership' /\ Shutdown' /\ InOrder'
      BY <1>1, <1>3 DEF Ownership, Shutdown, InOrder
<1>5. CASE SerialChunk
  <2>1. nread' = nread + 1 /\ nread \in Nat /\ file = Upto(nread) /\ name = "tmp" /\ name' = name
        BY <1>5 DEF SerialChunk, Fresh, Outcome, Types
  <2>2. \/ pc' = "serial" /\ file' = Append(file, nread + 1)
        \/ pc' = "cleanup" /\ out_err' # "OK"
        BY <1>5 DEF SerialChunk
  <2>3. pc' = "serial" => file' = Upto(nread')
        BY <2>1, <2>2, NextChunk
  <2>4. Fresh'
        BY <1>1, <1>5, <2>3 DEF Fresh, SerialChunk
  <2>5. Outcome'
        BY <2>1, <2>2 DEF Outcome
  <2> QED  BY <1>2, <1>4, <2>4, <2>5
<1>6. CASE SerialEnds \/ Rename \/ Cleanup
  <2>1. Fresh'
        BY <1>1, <1>6 DEF SerialEnds, Rename, Cleanup, Fresh
  <2>2. Outcome'
        BY <1>6 DEF SerialEnds, Rename, Cleanup, Fresh, Outcome
  <2> QED  BY <1>2, <1>4, <2>1, <2>2
<1> QED  BY <1>5, <1>6 DEF Finishing

LEMMA FileInvNext == FileInv /\ [FileNext]_fileCopyVars => FileInv'
<1> SUFFICES ASSUME FileInv, [FileNext]_fileCopyVars PROVE FileInv'
    OBVIOUS
<1>1. CASE SpuriousWakeup
  <2> USE <1>1 DEF SpuriousWakeup, FileInv, srcVars, pipeVars, fileVars
  <2>1. Types' /\ Switches'
        BY DEF Types, Switches
  <2>2. Fresh' /\ Outcome' /\ Ownership'
        BY DEF Fresh, Outcome, Ownership
  <2>3. Shutdown' /\ InOrder'
        BY DEF Shutdown, InOrder, Stuck, Ownership
  <2> QED  BY <2>1, <2>2, <2>3
<1>2. CASE UNCHANGED fileCopyVars
      BY <1>2 DEF fileCopyVars, FileInv, Types, Switches, Fresh, Outcome, Ownership, Shutdown,
         InOrder, Stuck, Upto
<1> QED
    BY <1>1, <1>2, OpeningKeeps, ReaderKeeps, WriterKeeps, FinishingKeeps
    DEF FileNext, FileEnded

\* The invariant of a copy: what is read and not yet in the file is in the
\* buffers, in order, unless the writer has passed over one.
THEOREM CopyKeepsInv == FileSpec => []FileInv
<1> QED  BY FileInvInit, FileInvNext, PTL DEF FileSpec

\* For sources of any size: read() never fills the buffer that write() is
\* writing out, although both work without the mutex.
THEOREM CopyBuffersAreExclusive == FileSpec => []NoBufferRace
<1>1. FileInv => NoBufferRace
      BY DEF FileInv, Ownership, NoBufferRace
<1> QED  BY <1>1, CopyKeepsInv, PTL

\* For sources of any size: however the call ends, there is no temporary file
\* left and no descriptor open, except after the early return for lack of space.
THEOREM CopyLeavesNothing == FileSpec => []NothingLeftBehind
<1>1. FileInv => NothingLeftBehind
      BY DEF FileInv, Outcome, NothingLeftBehind
<1> QED  BY <1>1, CopyKeepsInv, PTL

\* The refinement mapping of FileCopy, by name.
Content == IF name # "dst" THEN "old" ELSE IF file = Upto(size) THEN "new" ELSE "part"
Result == IF pc # "end" THEN "none" ELSE IF out_err = "OK" THEN "OK" ELSE "ERR"

\* A step of the copy is a step of AtomicCopy or none: only the rename changes
\* what the destination names, and only the last step returns.
LEMMA CopyStepIsAtomic ==
  ASSUME FileInv, FileInv', [FileNext]_fileCopyVars
  PROVE  [Abstract!Replace \/ Abstract!Return]_(Abstract!atomicCopyVars)
<1> USE DEF Content, Result
<1>1. /\ Content = IF name = "dst" THEN "new" ELSE "old"
      /\ Content' = IF name' = "dst" THEN "new" ELSE "old"
      BY DEF FileInv, Outcome
<1>2. CASE Rename
  <2>1. name = "tmp" /\ Result = "none" /\ Result' = "none"
        BY <1>2 DEF Rename, FileInv, Outcome
  <2> QED  BY <1>1, <1>2, <2>1 DEF Rename, Abstract!Replace, Abstract!atomicCopyVars
<1>3. CASE ~Rename
  <2>1. name' = "dst" <=> name = "dst"
        BY <1>3 DEF FileNext, Opening, OpenSourceFails, OpenSource, NoSpace, OpenTempFails,
           OpenTemp, Reader, ReaderStart, ReadChunk, ReadEnds, Writer, WriterStart, WriteOk,
           WriteFails, Cancelled, JoinReader, Finishing, SerialChunk, SerialEnds, Cleanup,
           SpuriousWakeup, FileEnded, fileCopyVars, fileVars, FileInv, Fresh
  <2>2. Content' = Content
        BY <1>1, <2>1
  <2>3. CASE pc = "end"
    <3>1. pc' = pc /\ out_err' = out_err
          BY <1>3, <2>3 DEF FileNext, Opening, OpenSourceFails, OpenSource, NoSpace,
             OpenTempFails, OpenTemp, Reader, ReaderStart, ReadChunk, ReadEnds, Writer,
             WriterStart, WriteOk, WriteFails, Cancelled, JoinReader, Finishing, SerialChunk,
             SerialEnds, Cleanup, SpuriousWakeup, FileEnded, fileCopyVars, callVars, FileInv,
             Ownership
    <3> QED  BY <2>2, <3>1 DEF Abstract!atomicCopyVars
  <2>4. CASE pc # "end" /\ pc' # "end"
        BY <2>2, <2>4 DEF Abstract!atomicCopyVars
  <2>5. CASE pc # "end" /\ pc' = "end"
    <3>1. Result = "none" /\ Result' = IF Content' = "new" THEN "OK" ELSE "ERR"
          BY <1>1, <2>5 DEF FileInv, Outcome
    <3> QED  BY <2>2, <3>1 DEF Abstract!Return
  <2> QED  BY <2>3, <2>4, <2>5
<1> QED  BY <1>2, <1>3

\* For sources of any size, pal_file_copy_atomic_ex implements AtomicCopy: at
\* every moment the destination names its old contents or a complete copy, and
\* FTP_OK is returned if and only if it was replaced.
THEOREM CopyImplementsAtomicCopy == FileSpec => CopyIsAtomic
<1>1. FileInit => Abstract!AtomicInit
      BY DEF FileInit, Abstract!AtomicInit
<1> QED
    BY <1>1, CopyKeepsInv, CopyStepIsAtomic, PTL DEF FileSpec, CopyIsAtomic, Abstract!AtomicSpec

=============================================================================
