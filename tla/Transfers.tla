----------------------------- MODULE Transfers -----------------------------
(***************************************************************************)
(* What moves data between a client and a file: the receive loop of STOR   *)
(* (StorPipe), what concurrent STORs of one path do to the file system     *)
(* (SharedUploads), the send loop of RETR (RetrLoop), the pool that both   *)
(* loops take their buffers from (BufferPool) and the limiter that both    *)
(* may call (RateLimit).  A part sees of another only the results of its   *)
(* calls, so each is checked by itself: a behaviour shows one of them,     *)
(* chosen at the start.                                                    *)
(***************************************************************************)
EXTENDS StorPipe, SharedUploads, RetrLoop, BufferPool, RateLimit

VARIABLE part

transferVars == <<part, vars, uploadVars, retrVars, poolVars, rateVars>>

TransfersInit ==
  /\ part \in {"receive", "uploads", "send", "pool", "rate"}
  /\ Init /\ UploadsInit /\ RetrInit /\ PoolInit /\ RateInit
  /\ part # "receive" => ppc = "check"
  /\ part # "uploads" => use_atomic
  /\ part # "send" => start = 0 /\ use_sendfile

\* A step of one part.
OfReceive(A) == part = "receive" /\ A /\ UNCHANGED <<part, uploadVars, retrVars, poolVars, rateVars>>
OfUploads(A) == part = "uploads" /\ A /\ UNCHANGED <<part, vars, retrVars, poolVars, rateVars>>
OfSend(A) == part = "send" /\ A /\ UNCHANGED <<part, vars, uploadVars, poolVars, rateVars>>
OfPool(A) == part = "pool" /\ A /\ UNCHANGED <<part, vars, uploadVars, retrVars, rateVars>>
OfRate(A) == part = "rate" /\ A /\ UNCHANGED <<part, vars, uploadVars, retrVars, poolVars>>

TransfersNext ==
  \/ OfReceive(Next) \/ OfUploads(UploadsNext) \/ OfSend(RetrNext)
  \/ OfPool(PoolNext) \/ OfRate(RateNext)

\* For the receive loop see FairSpec of StorPipe.  The send loop runs: a send on
\* the data connection returns because the client reads or the connection
\* breaks.  A thread that is in ftp_buffer_acquire keeps running.  A sleep of the
\* limiter ends.
TransfersSpec ==
  /\ TransfersInit /\ [][TransfersNext]_transferVars
  /\ WF_transferVars(OfReceive(ProducerCheck)) /\ WF_transferVars(OfReceive(Handoff))
  /\ WF_transferVars(OfReceive(RecvDone)) /\ WF_transferVars(OfReceive(Join))
  /\ WF_transferVars(OfReceive(WriterCheck)) /\ WF_transferVars(OfReceive(WriteOk \/ WriteFail))
  /\ SF_transferVars(OfReceive(RecvData \/ RecvEnd)) /\ WF_transferVars(OfReceive(Single))
  /\ WF_transferVars(OfSend(RetrStep))
  /\ \A t \in Thread :
       /\ WF_transferVars(OfPool(Load(t))) /\ WF_transferVars(OfPool(CompareExchange(t)))
       /\ WF_transferVars(OfPool(CompareExchangeFails(t))) /\ WF_transferVars(OfPool(Recheck(t)))
  /\ WF_transferVars(OfRate(\E late \in {0, 1} : Wake(late)))

-----------------------------------------------------------------------------
\* Transfers end.  A write error or the end of the stream ends an upload.  A
\* download always ends with a reply: bursts, retries and cooldowns do not go
\* round for ever, whatever sendfile returns and whatever happens to the file.
\* Threads that race for buffers do not keep each other from returning, and a
\* call of the limiter returns.
TransfersEnd ==
  /\ StopEndsUpload
  /\ (part = "send") ~> (at = "end")
  /\ SomeCallReturns
  /\ (need > 0) ~> (need = 0)

=============================================================================
