--------------------------- MODULE StorPipeProofs ---------------------------
(***************************************************************************)
(* The upload pipeline for any number of chunks: the two threads never     *)
(* share a buffer, and an upload that ends with ok has written every       *)
(* received chunk in order.                                                *)
(***************************************************************************)
EXTENDS StorPipe, TLAPS

USE DEF Buffer, Chunk, NoChunk, Torn, Piped, Handed, Signal

(* Writing chunk k + 1 after the first k chunks gives the first k + 1.     *)
LEMMA AppendUpto ==
  ASSUME NEW k \in Nat
  PROVE  Append(Upto(k), k + 1) = Upto(k + 1)
BY DEF Upto

(* The initial states satisfy the invariant.                               *)
LEMMA InitIInv == Init => IInv
<1> SUFFICES ASSUME Init PROVE IInv
  OBVIOUS
<1>1. Upto(0) = <<>>
  BY DEF Upto
<1>2. TypeOK
  BY MaxChunksAssumption DEF Init, TypeOK
<1> QED
  BY <1>1, <1>2, MaxChunksAssumption
     DEF Init, IInv, Ownership, Shutdown, InOrder, Stuck, OkMeansComplete

(* Every step keeps the variables in their types.                          *)
LEMMA NextTypeOK == ASSUME IInv, [Next]_vars PROVE TypeOK'
<1> USE MaxChunksAssumption DEF IInv, TypeOK
<1>1. CASE ProducerCheck
  BY <1>1 DEF ProducerCheck, pipeVars, writVars
<1>2. CASE RecvData
  BY <1>2 DEF RecvData, pipeVars, writVars
<1>3. CASE RecvInterrupted
  BY <1>3 DEF RecvInterrupted, pipeVars, writVars
<1>4. CASE RecvEnd
  BY <1>4 DEF RecvEnd, pipeVars, writVars
<1>5. CASE Handoff
  BY <1>5 DEF Handoff, Ownership
<1>6. CASE RecvDone
  BY <1>6 DEF RecvDone
<1>7. CASE Join
  BY <1>7 DEF Join, pipeVars, writVars
<1>8. CASE WriterCheck
  BY <1>8 DEF WriterCheck, WriterTest, pipeVars, prodVars
<1>9. CASE WriteOk
  BY <1>9 DEF WriteOk, WriterTest
<1>10. CASE WriteFail
  <2>1. Append(file, Torn) \in Seq(0 .. MaxChunks)
    OBVIOUS
  <2>2. file' \in Seq(0 .. MaxChunks)
    BY <1>10, <2>1, Zenon DEF WriteFail
  <2> QED
    BY <1>10, <2>2 DEF WriteFail
<1>11. CASE SingleChunk
  <2>1. /\ Append(file, Torn) \in Seq(0 .. MaxChunks)
        /\ Append(file, nrecv + 1) \in Seq(0 .. MaxChunks)
    BY <1>11 DEF SingleChunk
  <2>2. file' \in Seq(0 .. MaxChunks)
    BY <1>11, <2>1, Zenon DEF SingleChunk
  <2>3. /\ nrecv' \in 0 .. MaxChunks
        /\ UNCHANGED <<len, active, werror, done, fill, wpc, drain>>
    BY <1>11 DEF SingleChunk, pipeVars
  <2>4. ppc' \in {"single", "end"} /\ ok' \in BOOLEAN
    BY <1>11, Zenon DEF SingleChunk
  <2> QED
    BY <2>2, <2>3, <2>4
<1>12. CASE SingleEnd
  BY <1>12 DEF SingleEnd, pipeVars, writVars
<1>13. CASE SpuriousWakeup
  BY <1>13 DEF SpuriousWakeup, pipeVars
<1>14. CASE Ended \/ UNCHANGED vars
  BY <1>14 DEF Ended, vars
<1> QED
  BY <1>1, <1>2, <1>3, <1>4, <1>5, <1>6, <1>7, <1>8, <1>9, <1>10, <1>11,
     <1>12, <1>13, <1>14 DEF Next, Producer, Writer, Single

(* Every step keeps the buffer ownership and the shutdown facts.           *)
LEMMA NextControl == ASSUME IInv, [Next]_vars PROVE Ownership' /\ Shutdown'
<1> USE MaxChunksAssumption DEF IInv, TypeOK, Ownership, Shutdown
<1>1. CASE ProducerCheck
  BY <1>1 DEF ProducerCheck, pipeVars, writVars
<1>2. CASE RecvData
  BY <1>2 DEF RecvData, pipeVars, writVars
<1>3. CASE RecvInterrupted
  BY <1>3 DEF RecvInterrupted, pipeVars, writVars
<1>4. CASE RecvEnd
  BY <1>4 DEF RecvEnd, pipeVars, writVars
<1>5. CASE Handoff
  BY <1>5 DEF Handoff
<1>6. CASE RecvDone
  BY <1>6 DEF RecvDone
<1>7. CASE Join
  BY <1>7 DEF Join, pipeVars, writVars
<1>8. CASE WriterCheck
  BY <1>8 DEF WriterCheck, WriterTest, pipeVars, prodVars
<1>9. CASE WriteOk
  BY <1>9 DEF WriteOk, WriterTest
<1>10. CASE WriteFail
  BY <1>10 DEF WriteFail
<1>11. CASE SingleChunk
  <2>1. /\ ppc = "single" /\ nrecv' = nrecv + 1 /\ file = Upto(nrecv)
        /\ UNCHANGED <<len, active, werror, done, fill, wpc, drain>>
    BY <1>11 DEF SingleChunk, pipeVars
  <2>2. \/ ppc' = "single" /\ file' = Append(file, nrecv + 1)
        \/ ppc' = "end"
    BY <1>11, <2>1, Zenon DEF SingleChunk
  <2>3. ppc' = "single" => file' = Upto(nrecv')
    <3>1. nrecv \in Nat
      OBVIOUS
    <3>2. Append(Upto(nrecv), nrecv + 1) = Upto(nrecv + 1)
      BY <3>1, AppendUpto, Zenon
    <3> QED
      BY <2>1, <2>2, <3>2, Zenon
  <2> QED
    BY <2>1, <2>2, <2>3
<1>12. CASE SingleEnd
  BY <1>12 DEF SingleEnd, pipeVars, writVars
<1>13. CASE SpuriousWakeup
  BY <1>13 DEF SpuriousWakeup, pipeVars
<1>14. CASE Ended \/ UNCHANGED vars
  BY <1>14 DEF Ended, vars
<1> QED
  BY <1>1, <1>2, <1>3, <1>4, <1>5, <1>6, <1>7, <1>8, <1>9, <1>10, <1>11,
     <1>12, <1>13, <1>14 DEF Next, Producer, Writer, Single

(* Every step keeps the order of the chunks in file and buffers.           *)
LEMMA NextInOrder ==
  ASSUME IInv, [Next]_vars PROVE InOrder'
<1> USE MaxChunksAssumption DEF IInv, TypeOK, Ownership, Shutdown, InOrder, Stuck
<1>1. CASE ProducerCheck
  BY <1>1 DEF ProducerCheck, pipeVars, writVars
<1>2. CASE RecvData
  BY <1>2 DEF RecvData, pipeVars, writVars
<1>3. CASE RecvInterrupted
  BY <1>3 DEF RecvInterrupted, pipeVars, writVars
<1>4. CASE RecvEnd
  BY <1>4 DEF RecvEnd, pipeVars, writVars
<1>5. CASE Handoff
  BY <1>5 DEF Handoff
<1>6. CASE RecvDone
  BY <1>6 DEF RecvDone
<1>7. CASE Join
  BY <1>7 DEF Join, pipeVars, writVars
<1>8. CASE WriterCheck
  BY <1>8 DEF WriterCheck, WriterTest, pipeVars, prodVars
<1>9. CASE WriteOk
  <2> SUFFICES ASSUME (Piped /\ ppc # "end" /\ ~werror /\ ~Stuck)'
               PROVE  /\ len'[active'] = NoChunk
                      /\ IF len'[1 - active'] # NoChunk
                         THEN /\ len'[1 - active'] = Handed'
                              /\ file' = Upto(Handed' - 1)
                         ELSE file' = Upto(Handed')
    BY <1>9 DEF WriteOk
  <2>1. /\ wpc = "write" /\ file' = Append(file, len[drain])
        /\ len' = [len EXCEPT ![drain] = NoChunk]
        /\ UNCHANGED <<active, werror, done, fill, nrecv, ok>>
    BY <1>9 DEF WriteOk
  <2>2. Handed' = Handed /\ Handed \in Nat
    BY <1>9 DEF WriteOk
  <2>3. CASE drain = active
    <3>1. /\ Handed >= 2 /\ len[active] = Handed - 1
          /\ len[1 - active] = Handed /\ file = Upto(Handed - 2)
      BY <2>1, <2>3, <1>9 DEF WriteOk
    <3>2. file' = Upto(Handed - 1)
      <4> DEFINE k == Handed - 2
      <4>1. k \in Nat /\ k + 1 = Handed - 1
        BY <2>2, <3>1
      <4>2. Append(Upto(k), k + 1) = Upto(k + 1)
        BY <4>1, AppendUpto
      <4>3. file' = Append(Upto(k), k + 1)
        BY <2>1, <4>1, <2>3, <3>1
      <4> QED
        BY <4>1, <4>2, <4>3, Zenon
    <3> QED
      BY <2>1, <2>2, <2>3, <3>1, <3>2
  <2>4. CASE drain = 1 - active
    <3>1. len'[active'] = NoChunk
      BY <1>9, <2>1, <2>4 DEF WriteOk, WriterTest
    <3>2. len[active] = NoChunk /\ ~Stuck
      BY <2>1, <2>4, <3>1
    <3>3. len[1 - active] = Handed /\ file = Upto(Handed - 1) /\ Handed > 0
      BY <1>9, <2>1, <2>2, <2>4, <3>2 DEF WriteOk
    <3>4. file' = Upto(Handed)
      <4> DEFINE k == Handed - 1
      <4>1. k \in Nat /\ k + 1 = Handed
        BY <2>2, <3>3
      <4>2. Append(Upto(k), k + 1) = Upto(k + 1)
        BY <4>1, AppendUpto
      <4>3. file' = Append(Upto(k), k + 1)
        BY <2>1, <4>1, <2>4, <3>3
      <4> QED
        BY <4>1, <4>2, <4>3, Zenon
    <3> QED
      BY <2>1, <2>2, <2>4, <3>1, <3>4
  <2> QED
    BY <2>3, <2>4
<1>10. CASE WriteFail
  BY <1>10 DEF WriteFail
<1>11. CASE SingleChunk
  BY <1>11 DEF SingleChunk, pipeVars
<1>12. CASE SingleEnd
  BY <1>12 DEF SingleEnd, pipeVars, writVars
<1>13. CASE SpuriousWakeup
  BY <1>13 DEF SpuriousWakeup, pipeVars
<1>14. CASE Ended \/ UNCHANGED vars
  BY <1>14 DEF Ended, vars
<1> QED
  BY <1>1, <1>2, <1>3, <1>4, <1>5, <1>6, <1>7, <1>8, <1>9, <1>10, <1>11,
     <1>12, <1>13, <1>14 DEF Next, Producer, Writer, Single

(* An upload can only come to its end with the complete file.              *)
LEMMA NextOkMeansComplete ==
  ASSUME IInv, [Next]_vars PROVE OkMeansComplete'
<1> USE MaxChunksAssumption DEF IInv, TypeOK, OkMeansComplete
<1>1. CASE ProducerCheck \/ RecvData \/ RecvInterrupted \/ RecvEnd \/ Handoff
  BY <1>1 DEF ProducerCheck, RecvData, RecvInterrupted, RecvEnd, Handoff
<1>2. CASE Join
  BY <1>2 DEF Join, pipeVars, writVars, InOrder, Stuck, Shutdown
<1>3. CASE WriterCheck \/ WriteOk \/ WriteFail
  BY <1>3 DEF WriterCheck, WriteOk, WriteFail, prodVars, Shutdown
<1>4. CASE SingleChunk \/ SingleEnd
  BY <1>4 DEF SingleChunk, SingleEnd, writVars, Shutdown
<1>5. CASE RecvDone \/ SpuriousWakeup
  BY <1>5 DEF RecvDone, SpuriousWakeup
<1>6. CASE Ended \/ UNCHANGED vars
  BY <1>6 DEF Ended, vars, Upto
<1> QED
  BY <1>1, <1>2, <1>3, <1>4, <1>5, <1>6 DEF Next, Producer, Writer, Single

LEMMA NextIInv == IInv /\ [Next]_vars => IInv'
BY NextTypeOK, NextControl, NextInOrder, NextOkMeansComplete DEF IInv

(* Every behaviour of the upload pipeline satisfies the invariant.         *)
LEMMA SpecIInv == Spec => []IInv
BY InitIInv, NextIInv, PTL DEF Spec

(* recv() and write() never work on the same buffer, whatever the          *)
(* interleaving of the FTP thread and the writer thread.                   *)
THEOREM BuffersAreExclusive == Spec => []NoBufferRace
<1>1. IInv => NoBufferRace
  BY DEF IInv, TypeOK, Ownership, NoBufferRace
<1> QED
  BY <1>1, SpecIInv, PTL

(* cmd_STOR commits a file and answers 226 only when the file holds all    *)
(* that was received, in order, in the piped and in the single mode.       *)
THEOREM UploadOkIsComplete == Spec => []OkMeansComplete
<1>1. IInv => OkMeansComplete
  BY DEF IInv
<1> QED
  BY <1>1, SpecIInv, PTL

(* The state of the pipeline always has its type.                          *)
THEOREM TypeCorrect == Spec => []TypeOK
<1>1. IInv => TypeOK
  BY DEF IInv
<1> QED
  BY <1>1, SpecIInv, PTL
=============================================================================
