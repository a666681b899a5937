------------------------------ MODULE StorPipe ------------------------------
(***************************************************************************)
(* The receive phase of the STOR command (cmd_STOR in ftp_commands.c).     *)
(*                                                                         *)
(* The FTP thread receives chunks from the data connection.  With two pool *)
(* buffers and a writer thread it fills buf[active] and hands it over; the *)
(* writer drains buf[1 - active] to the file.  Without them (pool          *)
(* exhausted, pthread_create failed) one thread receives and writes.       *)
(*                                                                         *)
(* The k-th chunk received is the number k: what the properties tell apart *)
(* is which chunks reach the file and in which order.  len[i] is kept as   *)
(* the chunk in buffer i, with NoChunk for length zero.  A section of code *)
(* between lock and unlock (or cond_wait) of pipe.mtx is one step.         *)
(***************************************************************************)
EXTENDS Naturals, Sequences

CONSTANT MaxChunks   \* bound on the chunks the client sends

ASSUME MaxChunksAssumption == MaxChunks \in Nat

VARIABLES
  len,       \* stor_pipe_t.len and the data behind it, per buffer
  active,    \* index being filled by recv
  werror,    \* stor_pipe_t.error # 0
  done,      \* stor_pipe_t.done
  ppc,       \* where the FTP thread is
  fill,      \* fill_idx: the buffer recv() writes into
  wpc,       \* where the writer thread is
  drain,     \* the buffer the writer writes out
  nrecv,     \* chunks received so far (total_received)
  file,      \* what has been written to the file
  ok         \* cmd_STOR's ok

pipeVars == <<len, active, werror, done>>
prodVars == <<ppc, fill, nrecv, ok>>
writVars == <<wpc, drain, file>>
vars == <<len, active, werror, done, ppc, fill, nrecv, ok, wpc, drain, file>>

NoChunk == 0        \* a buffer whose length is 0
Torn    == 0        \* in the file: a chunk that was only partly written
Chunk   == 1 .. MaxChunks
Buffer  == {0, 1}

-----------------------------------------------------------------------------
(* Two pool buffers and a thread, or the single-buffer fallback.  With no  *)
(* buffer at all the transfer fails before the first recv.                 *)
Init ==
  /\ len = [b \in Buffer |-> NoChunk]
  /\ active = 0 /\ fill = 0 /\ drain = 1
  /\ werror = FALSE /\ done = FALSE
  /\ nrecv = 0 /\ file = <<>>
  /\ \/ ppc = "check" /\ wpc = "check" /\ ok = TRUE
     \/ ppc = "single" /\ wpc = "none" /\ ok = TRUE
     \/ ppc = "end" /\ wpc = "none" /\ ok = FALSE

(* cv_ready / cv_free: a signal moves the one possible waiter back to      *)
(* re-testing its condition, and is lost when nobody waits.                *)
Signal(pc) == IF pc = "blocked" THEN "check" ELSE pc

-----------------------------------------------------------------------------
(* Variant: the producer does not wait for its buffer to be drained.       *)
ProducerCheckNoWait ==
  /\ ppc = "check"
  /\ ppc' = IF werror THEN "finish" ELSE "recv"
  /\ fill' = active
  /\ UNCHANGED <<pipeVars, writVars, nrecv, ok>>

(* Top of the producer loop: wait for buf[active] to be free; leave on a   *)
(* writer error; otherwise start receiving into it.                        *)
ProducerCheck ==
  /\ ppc = "check"
  /\ IF werror THEN ppc' = "finish" /\ fill' = fill
     ELSE IF len[active] # NoChunk THEN ppc' = "blocked" /\ fill' = fill
     ELSE ppc' = "recv" /\ fill' = active
  /\ UNCHANGED <<pipeVars, writVars, nrecv, ok>>

(* recv() delivers the next chunk into buf[fill_idx].                      *)
RecvData ==
  /\ ppc = "recv" /\ nrecv < MaxChunks
  /\ nrecv' = nrecv + 1
  /\ ppc' = "handoff"
  /\ UNCHANGED <<pipeVars, writVars, fill, ok>>

(* recv() was interrupted: back to the top of the loop.                    *)
RecvInterrupted ==
  /\ ppc = "recv"
  /\ ppc' = "check"
  /\ UNCHANGED <<pipeVars, writVars, fill, nrecv, ok>>

(* recv() returned 0 (the client closed) or failed.                        *)
RecvEnd ==
  /\ ppc = "recv"
  /\ ppc' = "finish"
  /\ ok' \in {TRUE, FALSE}
  /\ UNCHANGED <<pipeVars, writVars, fill, nrecv>>

(* Hand the filled buffer to the writer and swap.                          *)
Handoff ==
  /\ ppc = "handoff"
  /\ len' = [len EXCEPT ![fill] = nrecv]
  /\ active' = 1 - fill
  /\ wpc' = Signal(wpc)
  /\ ppc' = "check"
  /\ UNCHANGED <<werror, done, fill, nrecv, ok, drain, file>>

(* recv_done: tell the writer that nothing more comes.                     *)
RecvDone ==
  /\ ppc = "finish"
  /\ done' = TRUE
  /\ wpc' = Signal(wpc)
  /\ ppc' = "join"
  /\ UNCHANGED <<len, active, werror, fill, nrecv, ok, drain, file>>

(* pthread_join, then collect the writer's result.                         *)
Join ==
  /\ ppc = "join" /\ wpc = "exit"
  /\ ok' = (ok /\ ~werror)
  /\ ppc' = "end"
  /\ UNCHANGED <<pipeVars, writVars, fill, nrecv>>

-----------------------------------------------------------------------------
(* Variant: the writer leaves on done without draining what is left.       *)
WriterTestDoneFirst(l) ==
  LET d == 1 - active IN
  /\ wpc' = IF done THEN "exit"
            ELSE IF l[d] # NoChunk THEN "write" ELSE "blocked"
  /\ drain' = IF wpc' = "write" THEN d ELSE drain

(* The writer's wait condition and what follows it under the lock, given   *)
(* the buffer lengths l at that moment.                                    *)
WriterTest(l) ==
  LET d == 1 - active IN
  /\ wpc' = IF l[d] # NoChunk THEN "write"
            ELSE IF done THEN "exit" ELSE "blocked"
  /\ drain' = IF wpc' = "write" THEN d ELSE drain

WriterCheck ==
  /\ wpc = "check"
  /\ WriterTest(len)
  /\ UNCHANGED <<pipeVars, prodVars, file>>

(* pal_file_write_all succeeded: the buffer is free, the producer is       *)
(* signalled, and the writer tests its condition without unlocking.        *)
WriteOk ==
  /\ wpc = "write"
  /\ file' = Append(file, len[drain])
  /\ len' = [len EXCEPT ![drain] = NoChunk]
  /\ ppc' = Signal(ppc)
  /\ WriterTest(len')
  /\ UNCHANGED <<active, werror, done, fill, nrecv, ok>>

(* Variant: the error path forgets to signal the producer.                 *)
WriteFailNoSignal ==
  /\ wpc = "write"
  /\ file' \in {file, Append(file, Torn)}
  /\ len' = [len EXCEPT ![drain] = NoChunk]
  /\ werror' = TRUE
  /\ wpc' = "exit"
  /\ UNCHANGED <<active, done, prodVars, drain>>

(* pal_file_write_all failed, possibly after writing part of the chunk:    *)
(* the error is recorded, the producer is signalled, the thread exits.     *)
WriteFail ==
  /\ wpc = "write"
  /\ file' \in {file, Append(file, Torn)}
  /\ len' = [len EXCEPT ![drain] = NoChunk]
  /\ werror' = TRUE
  /\ ppc' = Signal(ppc)
  /\ wpc' = "exit"
  /\ UNCHANGED <<active, done, fill, nrecv, ok, drain>>

-----------------------------------------------------------------------------
(* The single-buffer loops: receive a chunk and write it.                  *)
SingleChunk ==
  /\ ppc = "single" /\ nrecv < MaxChunks
  /\ nrecv' = nrecv + 1
  /\ \/ file' = Append(file, nrecv + 1) /\ UNCHANGED <<ppc, ok>>
     \/ /\ file' \in {file, Append(file, Torn)}
        /\ ok' = FALSE /\ ppc' = "end"
  /\ UNCHANGED <<pipeVars, fill, wpc, drain>>

SingleEnd ==
  /\ ppc = "single"
  /\ ppc' = "end"
  /\ ok' \in {TRUE, FALSE}
  /\ UNCHANGED <<pipeVars, writVars, fill, nrecv>>

-----------------------------------------------------------------------------
(* pthread_cond_wait may return without a signal.                          *)
SpuriousWakeup ==
  /\ \/ ppc = "blocked" /\ ppc' = "check" /\ wpc' = wpc
     \/ wpc = "blocked" /\ wpc' = "check" /\ ppc' = ppc
  /\ UNCHANGED <<pipeVars, fill, nrecv, ok, drain, file>>

Ended == ppc = "end" /\ UNCHANGED vars

Producer == \/ ProducerCheck \/ RecvData \/ RecvInterrupted \/ RecvEnd
            \/ Handoff \/ RecvDone \/ Join
Writer   == WriterCheck \/ WriteOk \/ WriteFail
Single   == SingleChunk \/ SingleEnd

Next == Producer \/ Writer \/ Single \/ SpuriousWakeup \/ Ended

Spec == Init /\ [][Next]_vars

(* Both threads are scheduled, a disk write returns, and recv() returns:   *)
(* data, end of stream or an error (a dead peer ends in the socket's       *)
(* timeout).  Interrupted receives and spurious wakeups are not fair.      *)
FairSpec ==
  /\ Spec
  /\ WF_vars(ProducerCheck) /\ WF_vars(Handoff)
  /\ WF_vars(RecvDone) /\ WF_vars(Join)
  /\ WF_vars(WriterCheck) /\ WF_vars(WriteOk \/ WriteFail)
  /\ SF_vars(RecvData \/ RecvEnd) /\ WF_vars(Single)

-----------------------------------------------------------------------------
(* Properties.                                                             *)

Upto(k) == [i \in 1 .. k |-> i]     \* the first k chunks, in order

(* Every variable has its type.                                            *)
TypeOK ==
  /\ len \in [Buffer -> Chunk \cup {NoChunk}]
  /\ active \in Buffer /\ fill \in Buffer /\ drain \in Buffer
  /\ werror \in BOOLEAN /\ done \in BOOLEAN /\ ok \in BOOLEAN
  /\ nrecv \in 0 .. MaxChunks
  /\ file \in Seq(0 .. MaxChunks)
  /\ ppc \in {"check", "blocked", "recv", "handoff", "finish", "join",
              "single", "end"}
  /\ wpc \in {"check", "blocked", "write", "exit", "none"}

(* recv() never writes into the buffer that the writer thread is writing   *)
(* to the file: both use the buffers without holding pipe.mtx.             *)
NoBufferRace ==
  ppc \in {"recv", "handoff"} => ~(wpc = "write" /\ drain = fill)

(* When the upload ends with ok, which is what makes cmd_STOR rename the   *)
(* file into place and answer 226, the file holds every received chunk,    *)
(* once and in order.                                                      *)
OkMeansComplete ==
  ppc = "end" /\ ok => file = Upto(nrecv)

(* A write error or the end of the stream always ends the upload: a        *)
(* producer waiting for a buffer is woken, sees pipe.error and leaves      *)
(* through recv_done; after recv_done the writer exits and is joined.      *)
StopEndsUpload == (werror \/ done) ~> ppc = "end"

(* "swaps buffers with the writer thread which drains the filled buffer to *)
(* disk": a buffer handed over is written out.                             *)
FilledBufferIsDrained ==
  \A b \in Buffer : len[b] # NoChunk ~> (len[b] = NoChunk \/ werror)

-----------------------------------------------------------------------------
(* The inductive invariant behind NoBufferRace and OkMeansComplete.        *)

Piped   == wpc # "none"
Handed  == IF ppc = "handoff" THEN nrecv - 1 ELSE nrecv

(* The writer owns a full buffer while it writes; the producer owns the    *)
(* free active one while it receives.                                      *)
Ownership ==
  /\ wpc = "write" => len[drain] # NoChunk
  /\ ppc \in {"recv", "handoff"} => fill = active /\ len[active] = NoChunk
  /\ ppc = "handoff" => nrecv > 0

(* When the producer has stopped, no chunk is left in the active buffer;   *)
(* when the writer has stopped, none is left in the other one.             *)
Shutdown ==
  /\ done => ppc \in {"join", "end"}
  /\ Piped /\ ppc \in {"join", "end"} => done
  /\ Piped /\ ppc = "end" => wpc = "exit"
  /\ ppc \in {"finish", "join"} => werror \/ len[active] = NoChunk
  /\ wpc = "exit" => werror \/ (done /\ len[1 - active] = NoChunk)
  /\ ~Piped => ppc \in {"single", "end"} /\ ~werror
  /\ ppc = "single" => ~Piped /\ file = Upto(nrecv)

(* Both buffers were handed over before the writer took the first: it now  *)
(* takes the second one, and then both threads wait.                       *)
Stuck == len[active] # NoChunk /\ ~(wpc = "write" /\ drain = active)

(* Unless that happened, the file and the two buffers together hold the    *)
(* chunks handed over, in order.                                           *)
InOrder ==
  Piped /\ ppc # "end" /\ ~werror /\ ~Stuck =>
    IF len[active] # NoChunk
    THEN /\ Handed >= 2 /\ len[active] = Handed - 1
         /\ len[1 - active] = Handed /\ file = Upto(Handed - 2)
    ELSE IF len[1 - active] # NoChunk
    THEN /\ len[1 - active] = Handed /\ file = Upto(Handed - 1)
    ELSE file = Upto(Handed)

IInv == TypeOK /\ Ownership /\ Shutdown /\ InOrder /\ OkMeansComplete

=============================================================================
