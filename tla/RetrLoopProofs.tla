--------------------------- MODULE RetrLoopProofs ---------------------------
(***************************************************************************)
(* The transfer loop of RETR delivers the file exactly, for every size of  *)
(* the file, of a burst, of the cooldown and of the buffer, and for every  *)
(* number of retries.                                                      *)
(***************************************************************************)
EXTENDS RetrLoop, SequenceTheorems, TLAPS

Bursting == {"burst", "retry"}
Reading == {"path", "read"}
Looping == Bursting \cup Reading
Sent == Len(delivered)

Numbers ==
  /\ at \in Looping \cup {"finish", "end"}
  /\ start \in 0 .. FileSize /\ offset \in Int /\ position \in Int
  /\ remaining \in Nat /\ cooldown_left \in Nat /\ tries \in Int
Switches ==
  /\ use_sendfile \in BOOLEAN /\ can_retry_sf \in BOOLEAN
  /\ broken \in BOOLEAN /\ sf_sent_any \in BOOLEAN

(* What was delivered is a prefix of the file from start on.               *)
Exact == delivered \in Seq(Int) /\ \A i \in 1 .. Sent : delivered[i] = start + i

(* The side that is active knows where the next byte is ...                *)
Located ==
  ~broken => /\ at \in Bursting => offset = start + Sent
             /\ at \in Reading => position = start + Sent

(* ... and remaining is at least what is missing: exactly that as long as  *)
(* sendfile may be used, because AfterRead computes offset from it.        *)
Remaining ==
  /\ at \in Looping => remaining > 0
  /\ at \in Looping /\ ~broken => remaining + Sent >= FileSize - start
  /\ at \in Looping /\ ~broken /\ use_sendfile => remaining + Sent = FileSize - start
  /\ at \in {"finish", "end"} /\ remaining = 0 => Sent >= FileSize - start
  /\ reply = "226" => at = "end" /\ remaining = 0
Sides ==
  /\ at \in Bursting => use_sendfile
  /\ at = "read" =>
       /\ cooldown_left > 0
       /\ can_retry_sf => use_sendfile /\ cooldown_left < remaining
       /\ ~can_retry_sf => cooldown_left = remaining

RetrInv == ~slipped => Numbers /\ Switches /\ Exact /\ Located /\ Remaining /\ Sides

LEMMA RetrInvInit == RetrInit => RetrInv
<1> SUFFICES ASSUME RetrInit PROVE Numbers /\ Switches /\ Exact /\ Located /\ Remaining /\ Sides
    BY DEF RetrInv
<1> USE DEF RetrInit, Looping, Bursting, Reading, Sent
<1>1. Len(delivered) = 0 /\ delivered \in Seq(Int)
      OBVIOUS
<1>2. Numbers
      BY RetrAssumption DEF Numbers
<1>3. Switches
      BY DEF Switches
<1>4. Exact
      BY <1>1 DEF Exact
<1>5. Located /\ Remaining
      BY <1>1, <1>2, RetrAssumption DEF Located, Remaining, Numbers
<1>6. Sides
      BY DEF Sides
<1> QED  BY <1>2, <1>3, <1>4, <1>5, <1>6

\* Delivering the next k bytes keeps what was delivered a prefix of the file.
LEMMA DeliverKeepsExact ==
  ASSUME Exact, start \in Int, start' = start, NEW from \in Int, NEW k \in Nat,
         k > 0 => from = start + Sent, Deliver(from, k)
  PROVE  Exact' /\ Sent' = Sent + k /\ Sent \in Nat
<1> DEFINE more == [i \in 1 .. k |-> from + i]
<1>1. more \in Seq(Int) /\ Len(more) = k /\ \A i \in 1 .. k : more[i] = from + i
      OBVIOUS
<1>2. delivered' = delivered \o more
      BY DEF Deliver
<1> HIDE DEF more
<1>3. delivered \in Seq(Int) /\ Sent \in Nat
      BY DEF Exact, Sent
<1>4. delivered' \in Seq(Int) /\ Len(delivered') = Sent + k
      BY <1>1, <1>2, <1>3, ConcatProperties DEF Sent
<1>5. \A i \in 1 .. Sent + k : delivered'[i] = start + i
  <2> TAKE i \in 1 .. Sent + k
  <2>1. CASE i <= Sent
        BY <1>1, <1>2, <1>3, <2>1, ConcatProperties DEF Exact, Sent
  <2>2. CASE i > Sent
    <3>1. delivered'[i] = more[i - Sent] /\ i - Sent \in 1 .. k
          BY <1>1, <1>2, <1>3, <2>2, ConcatProperties DEF Sent
    <3>2. k > 0 /\ more[i - Sent] = from + (i - Sent)
          BY <1>1, <1>3, <3>1
    <3>3. from = start + Sent
          BY <3>2
    <3> QED  BY <1>3, <3>1, <3>2, <3>3
  <2> QED  BY <1>3, <2>1, <2>2
<1> QED  BY <1>3, <1>4, <1>5 DEF Exact, Sent

\* The steps of a sendfile burst.
LEMMA BurstKeeps ==
  ASSUME RetrInv, ~slipped, NEW k \in Nat,
         SendfileSends(k) \/ SendfileFatal(k) \/ SendfileBreaks(k)
  PROVE  RetrInv'
<1> USE DEF RetrInv, Looping, Bursting, Reading, envVars, coolVars
<1>1. start \in Int /\ offset \in Int /\ start' = start
      BY DEF Numbers, SendfileSends, SendfileFatal, SendfileBreaks
<1>2. at \in Bursting /\ use_sendfile
      BY DEF SendfileSends, SendfileFatal, SendfileBreaks, Sides
<1>3. k > 0 => ~broken /\ offset = start + Sent
      BY <1>2 DEF SendfileSends, SendfileFatal, SendfileBreaks, Transfers, Located
<1>4. Deliver(offset, k)
      BY DEF SendfileSends, SendfileFatal, SendfileBreaks, Transfers
<1>5. Exact' /\ Sent' = Sent + k /\ Sent \in Nat
      BY <1>1, <1>3, <1>4, DeliverKeepsExact
<1>6. CASE SendfileSends(k)
  <2>1. k <= remaining
        BY <1>6, RetrAssumption DEF SendfileSends, Transfers, Least, Numbers
  <2>2. Numbers'
        BY <1>6, <2>1 DEF SendfileSends, Transfers, Numbers
  <2>3. Switches'
        BY <1>6 DEF SendfileSends, Switches
  <2>4. Located'
        BY <1>3, <1>5, <1>6 DEF SendfileSends, Transfers, Located, Numbers
  <2>5. Remaining'
        BY <1>2, <1>5, <1>6, <2>1 DEF SendfileSends, Transfers, Remaining, Numbers
  <2>6. Sides'
        BY <1>2, <1>6 DEF SendfileSends, Sides
  <2> QED  BY <1>5, <2>2, <2>3, <2>4, <2>5, <2>6
<1>7. CASE SendfileFatal(k)
  <2>1. Numbers'
        BY <1>7 DEF SendfileFatal, Transfers, Numbers
  <2>2. Switches'
        BY <1>7 DEF SendfileFatal, Switches
  <2>3. Located' /\ Remaining' /\ Sides'
        BY <1>2, <1>3, <1>5, <1>7 DEF SendfileFatal, Transfers, Located, Remaining, Numbers,
           Sides
  <2> QED  BY <1>5, <2>1, <2>2, <2>3
<1>8. CASE SendfileBreaks(k)
  <2>1. Numbers'
        BY <1>8, RetrAssumption DEF SendfileBreaks, CountRetry, Numbers
  <2>2. Switches'
        BY <1>8 DEF SendfileBreaks, CountRetry, Switches
  <2>3. broken' = TRUE /\ at' \in Looping /\ remaining' = remaining /\ reply' = reply
        BY <1>8 DEF SendfileBreaks, CountRetry
  <2>4. Located' /\ Remaining'
        BY <1>2, <2>3 DEF Located, Remaining
  <2>5. Sides'
        BY <1>2, <1>8 DEF SendfileBreaks, CountRetry, Sides
  <2> QED  BY <1>5, <2>1, <2>2, <2>4, <2>5
<1> QED  BY <1>6, <1>7, <1>8

\* The steps of the read() path.
LEMMA ReadKeeps ==
  ASSUME RetrInv, ~slipped, NEW k \in Nat, (ReadAndSend(k) /\ k > 0) \/ SendBreaks(k)
  PROVE  RetrInv'
<1> USE DEF RetrInv, Looping, Bursting, Reading, envVars, coolVars
<1>1. start \in Int /\ position \in Int /\ start' = start
      BY DEF Numbers, ReadAndSend, SendBreaks
<1>2. k > 0 => ~broken /\ position = start + Sent
      BY DEF ReadAndSend, SendBreaks, Located
<1>3. Deliver(position, k)
      BY DEF ReadAndSend, SendBreaks
<1>4. Exact' /\ Sent' = Sent + k /\ Sent \in Nat
      BY <1>1, <1>2, <1>3, DeliverKeepsExact
<1>5. CASE ReadAndSend(k) /\ k > 0
  <2>1. k <= remaining /\ k <= cooldown_left
        BY <1>5, RetrAssumption DEF ReadAndSend, Wanted, Least, Numbers
  <2>2. Numbers'
        BY <1>5, <2>1, RetrAssumption DEF ReadAndSend, AfterRead, Numbers
  <2>3. Switches'
        BY <1>5 DEF ReadAndSend, AfterRead, Switches
  <2>4. at' = "burst" => use_sendfile
        BY <1>5, <2>1 DEF ReadAndSend, AfterRead, Sides, Numbers
  <2>5. Located'
        BY <1>2, <1>4, <1>5, <2>1, <2>4, RetrAssumption DEF ReadAndSend, AfterRead, Located,
           Remaining, Numbers
  <2>6. Remaining'
        BY <1>2, <1>4, <1>5, <2>1 DEF ReadAndSend, AfterRead, Remaining, Numbers
  <2>7. Sides'
        BY <1>5, <2>1, <2>4 DEF ReadAndSend, AfterRead, Sides, Numbers
  <2> QED  BY <1>4, <2>2, <2>3, <2>5, <2>6, <2>7
<1>6. CASE SendBreaks(k)
  <2>1. Numbers' /\ Located' /\ Remaining' /\ Sides'
        BY <1>6 DEF SendBreaks, Numbers, Located, Remaining, Sides
  <2>2. Switches'
        BY <1>6 DEF SendBreaks, Switches
  <2> QED  BY <1>4, <2>1, <2>2
<1> QED  BY <1>5, <1>6

\* The steps that deliver nothing.
LEMMA QuietKeeps ==
  ASSUME RetrInv, ~slipped,
         \/ SendfileNothing \/ RetryNothing \/ EnterReadPath \/ NoBuffer
         \/ ReadFails \/ Reply \/ FileChanges \/ UNCHANGED retrVars
  PROVE  RetrInv'
<1> USE DEF RetrInv, Looping, Bursting, Reading, envVars, coolVars
<1>1. delivered' = delivered /\ start' = start /\ broken' = broken
      BY DEF SendfileNothing, RetryNothing, EnterReadPath, NoBuffer, ReadFails, Reply,
         FileChanges, retrVars
<1>2. Exact' /\ Sent' = Sent /\ Sent \in Nat
      BY <1>1 DEF Exact, Sent
<1>3. CASE SendfileNothing
  <2>1. Numbers' /\ Located' /\ Remaining' /\ Sides'
        BY <1>2, <1>3 DEF SendfileNothing, Numbers, Located, Remaining, Sides
  <2>2. Switches'
        BY <1>3 DEF SendfileNothing, Switches
  <2> QED  BY <1>2, <2>1, <2>2
<1>4. CASE RetryNothing
  <2>1. Numbers'
        BY <1>4, RetrAssumption DEF RetryNothing, CountRetry, Numbers
  <2>2. Switches'
        BY <1>4 DEF RetryNothing, CountRetry, Switches
  <2>3. Located' /\ Remaining' /\ Sides'
        BY <1>2, <1>4 DEF RetryNothing, CountRetry, Located, Remaining, Sides, Numbers
  <2> QED  BY <1>2, <2>1, <2>2, <2>3
<1>5. CASE EnterReadPath
  <2>1. Numbers'
        BY <1>5, RetrAssumption DEF EnterReadPath, Numbers
  <2>2. Switches'
        BY <1>5 DEF EnterReadPath, Switches
  <2>3. Located' /\ Remaining'
        BY <1>2, <1>5 DEF EnterReadPath, Located, Remaining, Numbers
  <2>4. Sides'
    <3>1. CASE use_sendfile /\ remaining > Cooldown
      <4>1. can_retry_sf' = TRUE /\ cooldown_left' = Cooldown
            BY <1>5, <3>1 DEF EnterReadPath
      <4> QED  BY <1>5, <3>1, <4>1, RetrAssumption DEF EnterReadPath, Sides, Numbers
    <3>2. CASE ~(use_sendfile /\ remaining > Cooldown)
      <4>1. can_retry_sf' = FALSE /\ cooldown_left' = remaining
            BY <1>5, <3>2 DEF EnterReadPath
      <4> QED  BY <1>5, <4>1 DEF EnterReadPath, Sides, Numbers, Remaining
    <3> QED  BY <3>1, <3>2
  <2> QED  BY <1>2, <2>1, <2>2, <2>3, <2>4
<1>6. CASE NoBuffer \/ ReadFails \/ Reply
  <2>1. Numbers'
        BY <1>6 DEF NoBuffer, ReadFails, Reply, Numbers
  <2>2. Switches'
        BY <1>6 DEF NoBuffer, ReadFails, Reply, Switches
  <2>3. Located' /\ Sides'
        BY <1>6 DEF NoBuffer, ReadFails, Reply, Located, Sides
  <2>4. Remaining'
        BY <1>2, <1>6 DEF NoBuffer, ReadFails, Reply, Remaining, Numbers
  <2> QED  BY <1>2, <2>1, <2>2, <2>3, <2>4
<1>7. CASE FileChanges \/ UNCHANGED retrVars
  <2>1. /\ at' = at /\ offset' = offset /\ position' = position /\ remaining' = remaining
        /\ cooldown_left' = cooldown_left /\ tries' = tries /\ reply' = reply
        /\ use_sendfile' = use_sendfile /\ can_retry_sf' = can_retry_sf
        /\ sf_sent_any' = sf_sent_any
        BY <1>7 DEF FileChanges, retrVars
  <2> QED
      BY <1>1, <1>2, <2>1 DEF Numbers, Switches, Located, Remaining, Sides
<1> QED  BY <1>3, <1>4, <1>5, <1>6, <1>7

LEMMA RetrInvNext == RetrInv /\ [RetrNext]_retrVars => RetrInv'
<1> SUFFICES ASSUME RetrInv, [RetrNext]_retrVars, ~slipped' PROVE RetrInv'
    BY DEF RetrInv
<1>1. CASE UNCHANGED retrVars
      BY <1>1, QuietKeeps DEF retrVars
<1>2. CASE RetrStep
  <2>1. \A k \in 1 .. SendfileChunk : ~RetryFatal(k)
        BY DEF RetryFatal
  <2>2. slipped' = slipped
        BY <1>2, <2>1 DEF RetrStep, SendfileSends, SendfileFatal, SendfileBreaks,
           SendfileNothing, RetryNothing, EnterReadPath, NoBuffer, ReadAndSend, SendBreaks,
           ReadFails, Reply
  <2> QED
      BY <1>2, <2>1, <2>2, RetrAssumption, BurstKeeps, ReadKeeps, QuietKeeps DEF RetrStep
<1>3. CASE FileChanges
      BY <1>3, QuietKeeps DEF FileChanges
<1> QED  BY <1>1, <1>2, <1>3 DEF RetrNext, RetrEnded

\* For every file size, burst, cooldown, buffer size and number of retries: a
\* download delivers the bytes of the file from the restart offset on, each
\* once and in order, and a 226 comes after all of them; unless a fatal error
\* was met inside the retry loop of the burst.
THEOREM DownloadsAreExact == RetrSpec => []DownloadIsExact
<1>1. RetrSpec => []RetrInv
      BY RetrInvInit, RetrInvNext, PTL DEF RetrSpec
<1>2. RetrInv => DownloadIsExact
  <2> SUFFICES ASSUME RetrInv, ~slipped PROVE DownloadIsExact
      BY DEF DownloadIsExact
  <2>1. delivered = [i \in 1 .. Len(delivered) |-> start + i]
        BY DEF RetrInv, Exact, Sent
  <2>2. reply = "226" => Len(delivered) >= FileSize - start
        BY DEF RetrInv, Remaining, Sent
  <2> QED  BY <2>1, <2>2 DEF DownloadIsExact
<1> QED  BY <1>1, <1>2, PTL

=============================================================================
