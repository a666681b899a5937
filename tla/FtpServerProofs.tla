-------------------------- MODULE FtpServerProofs ---------------------------
(***************************************************************************)
(* What the session pool of ftp_server.c guarantees for any number of      *)
(* connections and any size of the pool: the slots are exclusive, nothing  *)
(* leaks, and active_sessions counts the session threads.                  *)
(***************************************************************************)
EXTENDS FtpServer, FiniteSetTheorems, TLAPS

Setup == {"clear", "init", "create"}
Ending == {"joincopy", "closectrl", "release", "unlink"}

Types ==
  /\ state \in [Slot -> {"INIT", "busy", "TERMINATING"}]
  /\ ctrl \in [Slot -> 0 .. NConns]
  /\ apc \in {"accept", "alloc", "count", "exit"} \cup Setup
  /\ aslot \in Slot
  /\ tpc \in [Conn -> {"new", "accepted", "serve", "gone"} \cup Ending]
  /\ tslot \in [Conn -> Slot]
  /\ open \subseteq Conn
  /\ reused \in BOOLEAN
Flags == ctx \in [Slot -> BOOLEAN]

(* The connection in the hands of the accept thread has no thread yet.     *)
Accepting ==
  apc \in {"alloc"} \cup Setup => aconn \in Conn /\ tpc[aconn] = "accepted"

(* What the slot of session thread c holds while the thread is alive.      *)
Holds(c) ==
  /\ tpc[c] = "serve" => state[tslot[c]] = "busy"
  /\ tpc[c] \in Ending => state[tslot[c]] = "TERMINATING"
  /\ tpc[c] \in {"serve", "joincopy", "closectrl"} => ctrl[tslot[c]] = c
  /\ tpc[c] \in {"release", "unlink"} => ctrl[tslot[c]] = None
Linked(c) ==
  tpc[c] \in {"serve", "joincopy", "closectrl", "release"} => ctx[tslot[c]] = TRUE
AllHold == \A c \in Conn : Alive(c) => Holds(c)
AllLinked == \A c \in Conn : Alive(c) => Linked(c)

Apart ==
  \A c \in Conn : Alive(c) =>
    /\ \A d \in Conn : Alive(d) /\ tslot[c] = tslot[d] => c = d
    /\ apc \in Setup => tslot[c] # aslot

(* What the slot of the accept thread holds while it is set up.            *)
SetupHolds ==
  /\ apc \in {"clear", "create"} => state[aslot] = "busy"
  /\ apc = "create" => ctrl[aslot] = aconn
SetupLinked == apc = "create" => ctx[aslot] = TRUE

OpenOwned ==
  \A c \in open :
    \/ apc \in {"alloc"} \cup Setup /\ aconn = c
    \/ Alive(c) /\ ctrl[tslot[c]] = c
SlotOwned ==
  \A s \in Slot : state[s] # "INIT" =>
    \/ apc \in Setup /\ aslot = s
    \/ \E c \in Conn : Alive(c) /\ tslot[c] = s

Pool == AllHold /\ AllLinked /\ Apart /\ SetupHolds /\ SetupLinked /\ OpenOwned /\ SlotOwned
PoolInv == Types /\ Flags /\ Accepting /\ (~reused => Pool)

LEMMA PoolInvInit == Init => PoolInv
<1> SUFFICES ASSUME Init PROVE PoolInv
    OBVIOUS
<1>1. 0 \in Slot /\ 0 \in 0 .. NConns
      BY ConnAssumption, SlotsAssumption DEF Slot
<1>2. Types /\ Accepting
  <2>1. reused \in BOOLEAN
        BY DEF Init
  <2> QED  BY <1>1, <2>1 DEF Init, Types, Accepting, Setup, Ending, None
<1>3. Flags
      BY Zenon DEF Init, Flags
<1>4. \A c \in Conn : ~Alive(c)
      BY DEF Init, Alive
<1>5. Pool
      BY <1>4 DEF Init, Pool, AllHold, AllLinked, Apart, SetupHolds, SetupLinked,
         OpenOwned, SlotOwned, Setup
<1> QED  BY <1>2, <1>3, <1>5 DEF PoolInv

\* The steps of the accept thread.
LEMMA AcceptKeeps == PoolInv /\ AcceptThread => PoolInv'
<1> SUFFICES ASSUME PoolInv, AcceptThread PROVE PoolInv'
    OBVIOUS
<1> USE DEF PoolInv, Pool, Setup, Ending, slotVars, threadVars, fdVars, stopVars
<1>1. CASE AcceptLoopEnd
  <2>1. Types' /\ Flags' /\ Accepting'
        BY <1>1 DEF AcceptLoopEnd, Types, Flags, Accepting
  <2>2. ASSUME ~reused' PROVE Pool'
        BY <1>1, <2>2 DEF AcceptLoopEnd, AllHold, AllLinked, Apart, SetupHolds, SetupLinked,
           OpenOwned, SlotOwned, Alive, Holds, Linked
  <2> QED  BY <2>1, <2>2
<1>2. ASSUME NEW c \in Conn, Accept(c) PROVE PoolInv'
  <2>1. Types' /\ Flags' /\ Accepting'
        BY <1>2 DEF Accept, Types, Flags, Accepting
  <2>2. \A d \in Conn : Alive(d)' = Alive(d)
        BY <1>2 DEF Accept, Alive, Types
  <2>3. ASSUME ~reused' PROVE Pool'
        BY <1>2, <2>2, <2>3 DEF Accept, AllHold, AllLinked, Apart, SetupHolds, SetupLinked,
           OpenOwned, SlotOwned, Holds, Linked, Types, Alive
  <2> QED  BY <2>1, <2>3
<1>3. CASE allocate_session
  <2>1. PICK s \in Slot : /\ Free(s) /\ state' = [state EXCEPT ![s] = "busy"]
                          /\ aslot' = s /\ reused' = (reused \/ state[s] = "TERMINATING")
        BY <1>3 DEF allocate_session
  <2>2. Types' /\ Flags' /\ Accepting'
        BY <1>3, <2>1 DEF allocate_session, Types, Flags, Accepting
  <2>3. ASSUME ~reused' PROVE Pool'
    <3>1. ~reused /\ state[s] = "INIT"
          BY <2>1, <2>3 DEF Free, Types
    <3>2. \A c \in Conn : Alive(c) => tslot[c] # s
          BY <3>1 DEF AllHold, Holds, Alive, Types
    <3>3. \A c \in Conn : Alive(c)' = Alive(c)
          BY <1>3 DEF allocate_session, Alive
    <3>4. AllHold' /\ Apart' /\ SetupHolds'
          BY <1>3, <2>1, <3>1, <3>2, <3>3 DEF allocate_session, AllHold, Holds, Apart,
             SetupHolds, Types
    <3>5. AllLinked' /\ SetupLinked' /\ OpenOwned' /\ SlotOwned'
          BY <1>3, <2>1, <3>1, <3>3 DEF allocate_session, AllLinked, Linked, SetupLinked,
             OpenOwned, SlotOwned, Types
    <3> QED  BY <3>4, <3>5
  <2> QED  BY <2>2, <2>3
<1>4. CASE RejectConnection
  <2>1. Types' /\ Flags' /\ Accepting'
        BY <1>4 DEF RejectConnection, Types, Flags, Accepting
  <2>2. \A d \in Conn : Alive(d)' = Alive(d)
        BY <1>4 DEF RejectConnection, Alive, Types, Accepting
  <2>3. ASSUME ~reused' PROVE Pool'
        BY <1>4, <2>2, <2>3 DEF RejectConnection, AllHold, AllLinked, Apart, SetupHolds,
           SetupLinked, OpenOwned, SlotOwned, Holds, Linked, Types, Alive
  <2> QED  BY <2>1, <2>3
<1>5. CASE ClearSession
  <2>1. Types' /\ Flags' /\ Accepting'
        BY <1>5, ConnAssumption DEF ClearSession, Types, Flags, Accepting, None
  <2>2. \A d \in Conn : Alive(d)' = Alive(d)
        BY <1>5 DEF ClearSession, Alive
  <2>3. ASSUME ~reused' PROVE Pool'
    <3>1. AllHold' /\ Apart' /\ SetupHolds' /\ AllLinked' /\ SetupLinked'
          BY <1>5, <2>2, <2>3 DEF ClearSession, AllHold, Holds, Apart, SetupHolds,
             AllLinked, Linked, SetupLinked, Types, Flags
    <3>2. OpenOwned' /\ SlotOwned'
          BY <1>5, <2>2, <2>3 DEF ClearSession, OpenOwned, SlotOwned, Types, Apart
    <3> QED  BY <3>1, <3>2
  <2> QED  BY <2>1, <2>3
<1>6. CASE ftp_session_init
  <2>1. Types' /\ Flags' /\ Accepting'
        BY <1>6 DEF ftp_session_init, Types, Flags, Accepting, Conn
  <2>2. \A d \in Conn : Alive(d)' = Alive(d)
        BY <1>6 DEF ftp_session_init, Alive
  <2>3. ASSUME ~reused' PROVE Pool'
    <3>1. AllHold' /\ Apart' /\ SetupHolds' /\ AllLinked' /\ SetupLinked'
          BY <1>6, <2>2, <2>3 DEF ftp_session_init, AllHold, Holds, Apart, SetupHolds,
             AllLinked, Linked, SetupLinked, Types, Flags
    <3>2. OpenOwned' /\ SlotOwned'
          BY <1>6, <2>2, <2>3 DEF ftp_session_init, OpenOwned, SlotOwned, Types, Apart
    <3> QED  BY <3>1, <3>2
  <2> QED  BY <2>1, <2>3
<1>7. CASE CreateThread
  <2>1. Types' /\ Flags' /\ Accepting'
        BY <1>7 DEF CreateThread, Types, Flags, Accepting
  <2>2. aconn \in Conn /\ ~Alive(aconn) /\ \A d \in Conn : Alive(d)' = (d = aconn \/ Alive(d))
        BY <1>7 DEF CreateThread, Alive, Types, Accepting
  <2>3. ASSUME ~reused' PROVE Pool'
    <3>1. AllHold' /\ Apart' /\ SetupHolds'
          BY <1>7, <2>2, <2>3 DEF CreateThread, AllHold, Holds, Apart, SetupHolds, Types
    <3>2. AllLinked' /\ SetupLinked'
          BY <1>7, <2>2, <2>3 DEF CreateThread, AllLinked, Linked, SetupLinked, Types
    <3>3. OpenOwned' /\ SlotOwned'
      <4>1. /\ apc \in Setup /\ apc' \notin Setup /\ ctrl[aslot] = aconn /\ OpenOwned /\ SlotOwned
            /\ ctrl' = ctrl /\ state' = state /\ open' = open
            /\ tslot'[aconn] = aslot /\ \A d \in Conn : d # aconn => tslot'[d] = tslot[d]
            BY <1>7, <2>2, <2>3 DEF CreateThread, Types, SetupHolds
      <4>2. OpenOwned'
            BY <2>2, <4>1 DEF OpenOwned, Types
      <4>3. ASSUME NEW s \in Slot, state[s] # "INIT"
            PROVE  \E c \in Conn : Alive(c)' /\ tslot'[c] = s
        <5>1. CASE aslot = s
              BY <2>2, <4>1, <5>1
        <5>2. CASE \E c \in Conn : Alive(c) /\ tslot[c] = s
              BY <2>2, <4>1, <5>2
        <5> QED  BY <4>1, <4>3, <5>1, <5>2 DEF SlotOwned
      <4> QED  BY <4>1, <4>2, <4>3 DEF SlotOwned
    <3> QED  BY <3>1, <3>2, <3>3
  <2> QED  BY <2>1, <2>3
<1>8. CASE CreateThreadFails
  <2>1. Types' /\ Flags' /\ Accepting'
        BY <1>8 DEF CreateThreadFails, Types, Flags, Accepting
  <2>2. aconn \in Conn /\ ~Alive(aconn) /\ \A d \in Conn : Alive(d)' = Alive(d)
        BY <1>8 DEF CreateThreadFails, Alive, Types, Accepting
  <2>3. ASSUME ~reused' PROVE Pool'
    <3>1. AllHold' /\ Apart' /\ SetupHolds'
          BY <1>8, <2>2, <2>3 DEF CreateThreadFails, AllHold, Holds, Apart, SetupHolds,
             Types, Alive
    <3>2. AllLinked' /\ SetupLinked' /\ OpenOwned' /\ SlotOwned'
          BY <1>8, <2>2, <2>3 DEF CreateThreadFails, AllLinked, Linked, SetupLinked,
             OpenOwned, SlotOwned, Types, Alive
    <3> QED  BY <3>1, <3>2
  <2> QED  BY <2>1, <2>3
<1>9. CASE CountSession
  <2>1. Types' /\ Flags' /\ Accepting'
        BY <1>9 DEF CountSession, Types, Flags, Accepting
  <2>2. ASSUME ~reused' PROVE Pool'
        BY <1>9, <2>2 DEF CountSession, AllHold, AllLinked, Apart, SetupHolds, SetupLinked,
           OpenOwned, SlotOwned, Alive, Holds, Linked
  <2> QED  BY <2>1, <2>2
<1> QED
    BY <1>1, <1>2, <1>3, <1>4, <1>5, <1>6, <1>7, <1>8, <1>9 DEF AcceptThread

\* The steps of a session thread.
LEMMA SessionKeeps ==
  ASSUME PoolInv, NEW c \in Conn, SessionThread(c)
  PROVE  PoolInv'
<1> USE DEF PoolInv, Pool, Setup, Ending, acceptVars, fdVars, stopVars
<1>1. CASE ServeCommand(c)
  <2>1. Types' /\ Flags' /\ Accepting'
        BY <1>1 DEF ServeCommand, Types, Flags, Accepting, threadVars
  <2>2. reused' = reused /\ (~reused => FALSE)
        BY <1>1 DEF ServeCommand, AllHold, Holds, Alive
  <2> QED  BY <2>1, <2>2
<1>2. CASE LoopEnd(c)
  <2>1. Types' /\ Flags' /\ Accepting'
        BY <1>2 DEF LoopEnd, Types, Flags, Accepting
  <2>2. Alive(c) /\ \A d \in Conn : Alive(d)' = Alive(d)
        BY <1>2 DEF LoopEnd, Alive, Types
  <2>3. ASSUME ~reused' PROVE Pool'
    <3>1. AllHold' /\ Apart' /\ SetupHolds'
          BY <1>2, <2>2, <2>3 DEF LoopEnd, AllHold, Holds, Apart, SetupHolds, Types
    <3>2. AllLinked' /\ SetupLinked' /\ OpenOwned'
          BY <1>2, <2>2, <2>3 DEF LoopEnd, AllLinked, Linked, SetupLinked, OpenOwned, Types
    <3>3. SlotOwned'
          BY <1>2, <2>2, <2>3 DEF LoopEnd, SlotOwned, Types
    <3> QED  BY <3>1, <3>2, <3>3
  <2> QED  BY <2>1, <2>3
<1>3. CASE CloseData(c)
  <2>1. Types' /\ Flags' /\ Accepting'
        BY <1>3 DEF CloseData, Types, Flags, Accepting
  <2>2. Alive(c) /\ \A d \in Conn : Alive(d)' = Alive(d)
        BY <1>3 DEF CloseData, Alive, Types
  <2>3. ASSUME ~reused' PROVE Pool'
    <3>1. state' = state
          BY <1>3, <2>2, <2>3 DEF CloseData, AllHold, Holds, Types
    <3>2. AllHold' /\ Apart' /\ SetupHolds'
          BY <1>3, <2>2, <2>3, <3>1 DEF CloseData, AllHold, Holds, Apart, SetupHolds, Types
    <3>3. AllLinked' /\ SetupLinked' /\ OpenOwned' /\ SlotOwned'
          BY <1>3, <2>2, <2>3, <3>1 DEF CloseData, AllLinked, Linked, SetupLinked,
             OpenOwned, SlotOwned, Types
    <3> QED  BY <3>2, <3>3
  <2> QED  BY <2>1, <2>3
<1>4. CASE CloseCtrl(c)
  <2>1. Types' /\ Flags' /\ Accepting'
        BY <1>4, ConnAssumption DEF CloseCtrl, Types, Flags, Accepting, None
  <2>2. Alive(c) /\ \A d \in Conn : Alive(d)' = Alive(d)
        BY <1>4 DEF CloseCtrl, Alive, Types
  <2>3. ASSUME ~reused' PROVE Pool'
    <3>1. AllHold' /\ Apart' /\ SetupHolds'
          BY <1>4, <2>2, <2>3 DEF CloseCtrl, AllHold, Holds, Apart, SetupHolds, Types
    <3>2. AllLinked' /\ SetupLinked' /\ SlotOwned'
          BY <1>4, <2>2, <2>3 DEF CloseCtrl, AllLinked, Linked, SetupLinked, SlotOwned, Types
    <3>3. OpenOwned'
          BY <1>4, <2>2, <2>3 DEF CloseCtrl, OpenOwned, Types, AllHold, Holds, Apart
    <3> QED  BY <3>1, <3>2, <3>3
  <2> QED  BY <2>1, <2>3
<1>5. CASE ReleaseBegin(c)
  <2>1. Types' /\ Accepting'
        BY <1>5 DEF ReleaseBegin, Types, Accepting
  <2>2. Flags'
        BY <1>5 DEF ReleaseBegin, Flags
  <2>3. ASSUME ~reused' PROVE Pool'
    <3>1. Alive(c) /\ ctx[tslot[c]] = TRUE
          BY <1>5, <2>3 DEF ReleaseBegin, Alive, AllLinked, Linked
    <3>2. tpc' = [tpc EXCEPT ![c] = "unlink"]
          BY <1>5, <3>1 DEF ReleaseBegin
    <3>3. \A d \in Conn : Alive(d)' = Alive(d)
          BY <3>1, <3>2 DEF Alive, Types
    <3>4. AllHold' /\ Apart' /\ SetupHolds'
          BY <1>5, <2>3, <3>1, <3>2, <3>3 DEF ReleaseBegin, AllHold, Holds, Apart,
             SetupHolds, Types
    <3>5. AllLinked' /\ SetupLinked'
          BY <1>5, <2>3, <3>1, <3>2, <3>3 DEF ReleaseBegin, AllLinked, Linked, SetupLinked,
             Types, Flags, Apart
    <3>6. OpenOwned' /\ SlotOwned'
          BY <1>5, <2>3, <3>3 DEF ReleaseBegin, OpenOwned, SlotOwned, Types
    <3> QED  BY <3>4, <3>5, <3>6
  <2> QED  BY <2>1, <2>2, <2>3
<1>6. CASE ReleaseEnd(c)
  <2>1. Types' /\ Flags' /\ Accepting'
        BY <1>6 DEF ReleaseEnd, Types, Flags, Accepting
  <2>2. Alive(c) /\ \A d \in Conn : Alive(d)' = (Alive(d) /\ d # c)
        BY <1>6 DEF ReleaseEnd, Alive, Types
  <2>3. ASSUME ~reused' PROVE Pool'
    <3>1. AllHold' /\ Apart' /\ SetupHolds'
          BY <1>6, <2>2, <2>3 DEF ReleaseEnd, AllHold, Holds, Apart, SetupHolds, Types
    <3>2. AllLinked' /\ SetupLinked'
          BY <1>6, <2>2, <2>3 DEF ReleaseEnd, AllLinked, Linked, SetupLinked, Types
    <3>3. ctrl[tslot[c]] # c
          BY <1>6, <2>2, <2>3, ConnAssumption DEF ReleaseEnd, AllHold, Holds, None, Conn
    <3>4. OpenOwned'
          BY <1>6, <2>2, <2>3, <3>3 DEF ReleaseEnd, OpenOwned, Types
    <3>5. SlotOwned'
          BY <1>6, <2>2, <2>3 DEF ReleaseEnd, SlotOwned, Types
    <3> QED  BY <3>1, <3>2, <3>4, <3>5
  <2> QED  BY <2>1, <2>3
<1> QED
    BY <1>1, <1>2, <1>3, <1>4, <1>5, <1>6 DEF SessionThread, Cleanup

LEMMA PoolInvNext == PoolInv /\ [Next]_vars => PoolInv'
<1> SUFFICES ASSUME PoolInv, [Next]_vars PROVE PoolInv'
    OBVIOUS
<1>1. ASSUME Stop \/ Halted \/ UNCHANGED vars PROVE PoolInv'
  <2>1. /\ apc' = apc /\ aconn' = aconn /\ aslot' = aslot /\ state' = state
        /\ ctrl' = ctrl /\ ctx' = ctx /\ reused' = reused /\ tpc' = tpc
        /\ tslot' = tslot /\ open' = open
        BY <1>1 DEF Stop, StopRunning, StopListening, InterruptSession, StopDrained,
           StopTimeout, Halted, acceptVars, slotVars, threadVars, fdVars, vars
  <2> QED
      BY <2>1 DEF PoolInv, Pool, Types, Flags, Accepting, AllHold, AllLinked, Apart,
         SetupHolds, SetupLinked, OpenOwned, SlotOwned, Alive, Holds, Linked
<1> QED
    BY <1>1, AcceptKeeps, SessionKeeps DEF Next

\* The invariant of the pool: whoever works on a slot is its only owner.
THEOREM PoolKeepsInv == Spec => []PoolInv
<1> QED  BY PoolInvInit, PoolInvNext, PTL DEF Spec

\* For any number of connections and slots: no two session threads share a
\* slot, and the accept thread initialises none that a thread still uses, as
\* long as allocate_session has not handed out a TERMINATING slot.
THEOREM SlotsAreExclusive == Spec => []ApartExclusive
<1>1. PoolInv => ApartExclusive
      BY DEF PoolInv, Pool, Apart, ApartExclusive, Live, Setup
<1> QED  BY <1>1, PoolKeepsInv, PTL

\* For any number of connections and slots: every open control descriptor and
\* every slot in use has an owner that will close or free it, pthread_create
\* failing and full pools included.
THEOREM PoolDoesNotLeak == Spec => []NoLeak
<1>1. PoolInv => NoLeak
      BY DEF PoolInv, Pool, OpenOwned, SlotOwned, NoLeak, Live, Setup, Types
<1> QED  BY <1>1, PoolKeepsInv, PTL

(***************************************************************************)
(* active_sessions.  The counter stands for a number k between -1 and      *)
(* NConns: the sessions the accept thread has counted less those released. *)
(* A session is alive until it is released, and it is counted after it was *)
(* started, so k is at least Live less the one not counted yet.            *)
(***************************************************************************)
Uncounted == IF apc = "count" THEN 1 ELSE 0
Started == {c \in Conn : tpc[c] \notin {"new", "accepted"}}
Counter(k) == IF k < 0 THEN CounterMod + k ELSE k
CountsFor(k) ==
  /\ active = Counter(k)
  /\ Cardinality(Live) - Uncounted <= k
  /\ k <= Cardinality(Started) - Uncounted
  /\ ~reused => k = Cardinality(Live) - Uncounted
CountInv == \E k \in -1 .. NConns : CountsFor(k)

\* The unsigned arithmetic of the counter, in the range it needs.
LEMMA CounterArithmetic ==
  ASSUME NEW k \in -1 .. NConns
  PROVE  /\ k + 1 <= NConns => (Counter(k) + 1) % CounterMod = Counter(k + 1)
         /\ k >= 0 => (Counter(k) - 1) % CounterMod = Counter(k - 1)
         /\ k % CounterMod = Counter(k)
<1> USE ConnAssumption, CounterAssumption
<1>1. \A j \in 0 .. CounterMod - 1 : j % CounterMod = j
      OBVIOUS
<1>2. CounterMod % CounterMod = 0
      OBVIOUS
<1>3. (-1) % CounterMod = CounterMod - 1
      OBVIOUS
<1> QED  BY <1>1, <1>2, <1>3 DEF Counter

\* The sets are finite, before and after a step.
LEMMA LiveFinite ==
  /\ IsFiniteSet(Live) /\ IsFiniteSet(Started) /\ IsFiniteSet(Started')
  /\ Cardinality(Live) \in Nat /\ Cardinality(Live') \in Nat
  /\ Cardinality(Started) \in Nat /\ Cardinality(Started') \in Nat
  /\ Cardinality(Started) <= NConns
<1>1. IsFiniteSet(Conn) /\ Cardinality(Conn) = NConns
      BY FS_Interval, ConnAssumption DEF Conn
<1>2. /\ Live \subseteq Conn /\ Started \subseteq Conn
      /\ Live' \subseteq Conn /\ Started' \subseteq Conn
      BY DEF Live, Started
<1> QED  BY <1>1, <1>2, FS_Subset, FS_CardinalityType

(* Before drained, ftp_server_stop has closed the listening socket; then   *)
(* at most one session is alive or in the hands of the accept thread.      *)
Coming == IF apc \in {"alloc"} \cup Setup THEN 1 ELSE 0
DrainInv ==
  /\ spc \in {"interrupt", "wait", "drained", "timeout"} => listening = FALSE
  /\ spc = "drained" /\ ~reused => Cardinality(Live) + Coming <= 1
CountingInv == PoolInv /\ CountInv /\ DrainInv

LEMMA CountingInvInit == Init => CountingInv
<1> SUFFICES ASSUME Init PROVE CountingInv
    OBVIOUS
<1>1. Live = {} /\ Started = {}
      BY DEF Init, Live, Started, Alive
<1>2. Cardinality(Live) = 0 /\ Cardinality(Started) = 0
      BY <1>1, FS_EmptySet
<1>3. CountsFor(0)
      BY <1>2 DEF Init, CountsFor, Counter, Uncounted
<1>4. 0 \in -1 .. NConns
      BY ConnAssumption
<1>5. DrainInv
      BY DEF Init, DrainInv
<1> QED  BY <1>3, <1>4, <1>5, PoolInvInit DEF CountingInv, CountInv

\* A step that starts, counts and releases no session.
LEMMA CountUnchanged ==
  ASSUME CountInv, Live' = Live, Started \subseteq Started', apc' = "count" <=> apc = "count",
         active' = active, reused => reused'
  PROVE  CountInv'
<1>1. PICK k \in -1 .. NConns : CountsFor(k)
      BY DEF CountInv
<1>2. Cardinality(Started) <= Cardinality(Started')
      BY LiveFinite, FS_Subset
<1>3. CountsFor(k)'
      BY <1>1, <1>2, LiveFinite DEF CountsFor, Counter, Uncounted
<1> QED  BY <1>3 DEF CountInv

\* The other steps of the accept thread.
LEMMA AcceptCounts ==
  ASSUME PoolInv, CountInv, AcceptThread
  PROVE  CountInv'
<1> USE DEF slotVars, threadVars, fdVars, stopVars
<1>1. CASE CreateThread
  <2>1. /\ aconn \notin Live /\ aconn \notin Started
        /\ Live' = Live \cup {aconn} /\ Started' = Started \cup {aconn}
        BY <1>1 DEF CreateThread, PoolInv, Types, Accepting, Setup, Live, Started, Alive
  <2>2. /\ Cardinality(Live)' = Cardinality(Live) + 1
        /\ Cardinality(Started)' = Cardinality(Started) + 1
        BY <2>1, LiveFinite, FS_AddElement
  <2>3. PICK k \in -1 .. NConns : CountsFor(k)
        BY DEF CountInv
  <2>4. CountsFor(k)'
        BY <1>1, <2>2, <2>3, LiveFinite DEF CreateThread, CountsFor, Counter, Uncounted
  <2> QED  BY <2>4 DEF CountInv
<1>2. CASE CountSession
  <2>1. Live' = Live /\ Started' = Started
        BY <1>2 DEF CountSession, Live, Started, Alive
  <2>2. PICK k \in -1 .. NConns : CountsFor(k)
        BY DEF CountInv
  <2>3. k + 1 \in -1 .. NConns
        BY <1>2, <2>2, LiveFinite, ConnAssumption DEF CountSession, CountsFor, Uncounted
  <2>4. active' = Counter(k + 1)
        BY <1>2, <2>2, <2>3, CounterArithmetic DEF CountSession, CountsFor
  <2>5. CountsFor(k + 1)'
        BY <1>2, <2>1, <2>2, <2>4, LiveFinite DEF CountSession, CountsFor, Counter, Uncounted
  <2> QED  BY <2>3, <2>5 DEF CountInv
<1>3. CASE RejectConnection \/ CreateThreadFails \/ \E c \in Conn : Accept(c)
  <2>1. Live' = Live /\ Started \subseteq Started'
        BY <1>3 DEF RejectConnection, CreateThreadFails, Accept, PoolInv, Types, Accepting,
           Setup, Live, Started, Alive
  <2>2. active' = active /\ reused' = reused /\ apc # "count" /\ apc' # "count"
        BY <1>3 DEF RejectConnection, CreateThreadFails, Accept
  <2> QED  BY <2>1, <2>2, CountUnchanged
<1>4. CASE AcceptLoopEnd \/ allocate_session \/ ClearSession \/ ftp_session_init
  <2>1. tpc' = tpc /\ active' = active /\ apc # "count" /\ apc' # "count"
        BY <1>4 DEF AcceptLoopEnd, allocate_session, ClearSession, ftp_session_init
  <2>2. reused' = reused \/ allocate_session
        BY <1>4 DEF AcceptLoopEnd, ClearSession, ftp_session_init
  <2>3. reused => reused'
        BY <2>2 DEF allocate_session
  <2>4. Live' = Live /\ Started' = Started
        BY <2>1 DEF Live, Started, Alive
  <2> QED  BY <2>1, <2>3, <2>4, CountUnchanged
<1> QED  BY <1>1, <1>2, <1>3, <1>4 DEF AcceptThread

\* A session thread leaves Live only through ftp_server_release_session,
\* unless its slot was taken from it.
LEMMA SessionCounts ==
  ASSUME PoolInv, CountInv, NEW c \in Conn, SessionThread(c)
  PROVE  CountInv'
<1> USE DEF acceptVars, threadVars, fdVars, stopVars
<1>1. CASE ServeCommand(c) \/ LoopEnd(c) \/ CloseData(c) \/ CloseCtrl(c)
  <2>1. Live' = Live /\ Started' = Started
        BY <1>1 DEF ServeCommand, LoopEnd, CloseData, CloseCtrl, PoolInv, Types, Live,
           Started, Alive
  <2>2. active' = active /\ reused' = reused /\ apc' = apc
        BY <1>1 DEF ServeCommand, LoopEnd, CloseData, CloseCtrl
  <2> QED  BY <2>1, <2>2, CountUnchanged
<1>2. CASE ReleaseBegin(c)
  <2>1. active' = active /\ reused' = reused /\ apc' = apc /\ Started' = Started
        BY <1>2 DEF ReleaseBegin, PoolInv, Types, Started
  <2>2. CASE ctx[tslot[c]]
    <3>1. Live' = Live
          BY <1>2, <2>2 DEF ReleaseBegin, PoolInv, Types, Live, Alive
    <3> QED  BY <2>1, <3>1, CountUnchanged
  <2>3. CASE ~ctx[tslot[c]]
    <3>1. reused
          BY <1>2, <2>3 DEF ReleaseBegin, PoolInv, Pool, AllLinked, Linked, Alive
    <3>2. c \in Live /\ Live' = Live \ {c}
          BY <1>2, <2>3 DEF ReleaseBegin, PoolInv, Types, Live, Alive
    <3>3. Cardinality(Live)' = Cardinality(Live) - 1
          BY <3>2, LiveFinite, FS_RemoveElement
    <3>4. PICK k \in -1 .. NConns : CountsFor(k)
          BY DEF CountInv
    <3>5. CountsFor(k)'
          BY <2>1, <3>1, <3>3, <3>4, LiveFinite DEF CountsFor, Counter, Uncounted
    <3> QED  BY <3>5 DEF CountInv
  <2> QED  BY <2>2, <2>3
<1>3. CASE ReleaseEnd(c)
  <2>1. c \in Live /\ Live' = Live \ {c} /\ Started' = Started
        BY <1>3 DEF ReleaseEnd, PoolInv, Types, Live, Started, Alive
  <2>2. Cardinality(Live)' = Cardinality(Live) - 1
        BY <2>1, LiveFinite, FS_RemoveElement
  <2>3. PICK k \in -1 .. NConns : CountsFor(k)
        BY DEF CountInv
  <2>4. k >= 0 /\ k - 1 \in -1 .. NConns
        BY <2>2, <2>3, LiveFinite, ConnAssumption DEF CountsFor, Uncounted
  <2>5. active' = Counter(k - 1)
        BY <1>3, <2>3, <2>4, CounterArithmetic DEF ReleaseEnd, CountsFor
  <2>6. CountsFor(k - 1)'
        BY <1>3, <2>1, <2>2, <2>3, <2>5, LiveFinite DEF ReleaseEnd, CountsFor, Counter,
           Uncounted
  <2> QED  BY <2>4, <2>6 DEF CountInv
<1> QED  BY <1>1, <1>2, <1>3 DEF SessionThread, Cleanup

LEMMA DrainInvNext == CountingInv /\ [Next]_vars => DrainInv'
<1> SUFFICES ASSUME CountingInv, [Next]_vars PROVE DrainInv'
    OBVIOUS
<1> USE DEF CountingInv, Setup, acceptVars, slotVars, threadVars, fdVars, stopVars
<1>1. CASE AcceptThread
  <2>1. spc' = spc /\ listening' = listening
        BY <1>1 DEF AcceptThread, AcceptLoopEnd, Accept, allocate_session, RejectConnection,
           ClearSession, ftp_session_init, CreateThread, CreateThreadFails, CountSession
  <2>2. ASSUME spc = "drained", ~reused'
        PROVE  Cardinality(Live') + Coming' <= 1
    <3>1. ~reused
      <4>1. reused' = reused \/ allocate_session
            BY <1>1 DEF AcceptThread, AcceptLoopEnd, Accept, RejectConnection, ClearSession,
               ftp_session_init, CreateThread, CreateThreadFails, CountSession
      <4> QED  BY <2>2, <4>1 DEF allocate_session
    <3>2. Cardinality(Live) + Coming <= 1 /\ ~listening
          BY <2>2, <3>1 DEF DrainInv
    <3>3. CASE CreateThread
      <4>1. aconn \notin Live /\ Live' = Live \cup {aconn}
            BY <3>3 DEF CreateThread, PoolInv, Types, Accepting, Live, Alive
      <4>2. Cardinality(Live') = Cardinality(Live) + 1
            BY <4>1, LiveFinite, FS_AddElement
      <4> QED  BY <3>2, <3>3, <4>2, LiveFinite DEF CreateThread, Coming
    <3>4. CASE ~CreateThread
      <4>1. Live' = Live
            BY <1>1, <3>2, <3>4 DEF AcceptThread, AcceptLoopEnd, Accept, allocate_session,
               RejectConnection, ClearSession, ftp_session_init, CreateThreadFails,
               CountSession, PoolInv, Types, Accepting, Live, Alive
      <4>2. apc' \in {"alloc"} \cup Setup => apc \in {"alloc"} \cup Setup
            BY <1>1, <3>2, <3>4 DEF AcceptThread, AcceptLoopEnd, Accept, allocate_session,
               RejectConnection, ClearSession, ftp_session_init, CreateThreadFails,
               CountSession
      <4> QED  BY <3>2, <4>1, <4>2, LiveFinite DEF Coming
    <3> QED  BY <3>3, <3>4
  <2> QED  BY <2>1, <2>2 DEF DrainInv
<1>2. ASSUME NEW c \in Conn, SessionThread(c) PROVE DrainInv'
  <2>1. spc' = spc /\ listening' = listening /\ reused' = reused /\ apc' = apc
        BY <1>2 DEF SessionThread, ServeCommand, LoopEnd, Cleanup, CloseData, CloseCtrl,
           ReleaseBegin, ReleaseEnd
  <2>2. Live' \subseteq Live
        BY <1>2 DEF SessionThread, ServeCommand, LoopEnd, Cleanup, CloseData, CloseCtrl,
           ReleaseBegin, ReleaseEnd, PoolInv, Types, Live, Alive
  <2>3. Cardinality(Live') <= Cardinality(Live)
        BY <2>2, LiveFinite, FS_Subset
  <2> QED  BY <2>1, <2>3, LiveFinite DEF DrainInv, Coming
<1>3. CASE StopDrained
  <2>1. /\ Live' = Live /\ apc' = apc /\ reused' = reused
        /\ listening' = listening /\ listening = FALSE
        BY <1>3 DEF StopDrained, Live, Alive, DrainInv
  <2>2. PICK k \in -1 .. NConns : CountsFor(k)
        BY DEF CountInv
  <2>3. k = 0
        BY <1>3, <2>2, CounterAssumption, ConnAssumption DEF StopDrained, CountsFor, Counter
  <2>4. ~reused => Cardinality(Live) + Coming <= 1
        BY <2>2, <2>3, LiveFinite DEF CountsFor, Uncounted, Coming
  <2> QED  BY <2>1, <2>4 DEF DrainInv, Coming
<1>4. CASE \/ StopRunning \/ StopListening \/ InterruptSession \/ StopTimeout
           \/ Halted \/ UNCHANGED vars
  <2>1. tpc' = tpc /\ apc' = apc /\ reused' = reused
        BY <1>4 DEF StopRunning, StopListening, InterruptSession, StopTimeout, Halted, vars
  <2>2. Live' = Live /\ Coming' = Coming
        BY <2>1 DEF Live, Alive, Coming
  <2>3. /\ spc' \in {"interrupt", "wait", "drained", "timeout"} => listening' = FALSE
        /\ spc' = "drained" => spc = "drained"
        BY <1>4 DEF StopRunning, StopListening, InterruptSession, StopTimeout, Halted, vars,
           DrainInv
  <2> QED  BY <2>1, <2>2, <2>3 DEF DrainInv
<1> QED  BY <1>1, <1>2, <1>3, <1>4 DEF Next, Stop

LEMMA CountingInvNext == CountingInv /\ [Next]_vars => CountingInv'
<1> SUFFICES ASSUME CountingInv, [Next]_vars PROVE CountingInv'
    OBVIOUS
<1>1. ASSUME Stop \/ Halted \/ UNCHANGED vars PROVE CountInv'
  <2>1. tpc' = tpc /\ apc' = apc /\ active' = active /\ reused' = reused
        BY <1>1 DEF Stop, StopRunning, StopListening, InterruptSession, StopDrained,
           StopTimeout, Halted, acceptVars, slotVars, threadVars, vars
  <2>2. Live' = Live /\ Started' = Started
        BY <2>1 DEF Live, Started, Alive
  <2> QED  BY <2>1, <2>2, CountUnchanged DEF CountingInv
<1>2. CountInv'
      BY <1>1, AcceptCounts, SessionCounts DEF Next, CountingInv
<1> QED  BY <1>2, PoolInvNext, DrainInvNext DEF CountingInv

\* The invariant of the counter and of the wait for it.
THEOREM CountingIsInv == Spec => []CountingInv
<1> QED  BY CountingInvInit, CountingInvNext, PTL DEF Spec

\* For any number of connections and slots: active_sessions is the number of
\* session threads, less the one the accept thread has not counted yet, in
\* unsigned arithmetic; and it wraps below zero only until that thread is.
THEOREM CounterIsExact == Spec => []ActiveCountsThreads
<1>1. CountingInv => ActiveCountsThreads
  <2> SUFFICES ASSUME CountingInv PROVE ActiveCountsThreads
      OBVIOUS
  <2>1. PICK k \in -1 .. NConns : CountsFor(k)
        BY DEF CountingInv, CountInv
  <2>2. active > NConns => apc = "count"
        BY <2>1, LiveFinite, ConnAssumption DEF CountsFor, Counter, Uncounted
  <2>3. ~reused => active = (Cardinality(Live) - Uncounted) % CounterMod
        BY <2>1, CounterArithmetic DEF CountsFor
  <2> QED  BY <2>2, <2>3 DEF ActiveCountsThreads, Uncounted
<1> QED  BY <1>1, CountingIsInv, PTL

\* For any number of connections and slots: when ftp_server_stop found the
\* counter at zero, at most one session thread is alive from then on.
THEOREM StopMissesAtMostOne == Spec => []DrainedMissesOne
<1>1. CountingInv => DrainedMissesOne
      BY LiveFinite DEF CountingInv, DrainInv, DrainedMissesOne, Coming
<1> QED  BY <1>1, CountingIsInv, PTL

=============================================================================
