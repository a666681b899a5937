----------------------------- MODULE FtpServer ------------------------------
(***************************************************************************)
(* The session pool of the FTP server (ftp_server.c) and the life of its   *)
(* session threads (ftp_session_init, ftp_session_thread,                  *)
(* ftp_session_cleanup in ftp_session.c).                                  *)
(*                                                                         *)
(* Three kinds of threads share the pool: the accept thread, the session   *)
(* threads, and the thread that calls ftp_server_stop.  A connection c     *)
(* names the client, its control descriptor and the session thread serving *)
(* it.  CONNECTED, AUTHENTICATED and TRANSFERRING are treated alike by the *)
(* pool and are one state here, "busy".                                    *)
(***************************************************************************)
EXTENDS Integers, FiniteSets

CONSTANTS
  NConns,       \* client connections made, in all
  NSlots,       \* FTP_MAX_SESSIONS
  CounterMod    \* values of the unsigned counter active_sessions

ASSUME ConnAssumption == NConns \in Nat
ASSUME SlotsAssumption == NSlots \in Nat \ {0}
ASSUME CounterAssumption == CounterMod \in Nat /\ CounterMod > NConns + 1

Conn == 1 .. NConns   \* connections, in the order they are accepted
None == 0             \* no connection: a descriptor of -1
Slot == 0 .. NSlots - 1

VARIABLES
  running,      \* ctx->running
  listening,    \* ctx->listen_fd is open
  state,        \* sessions[s].state
  ctrl,         \* sessions[s].ctrl_fd: a connection, or None for -1
  ctx,          \* sessions[s].server_ctx is not NULL
  active,       \* ctx->active_sessions
  apc,          \* where the accept thread is
  aconn,        \* the connection the accept thread is handling
  aslot,        \* the slot it got for it
  tpc,          \* where each session thread is
  tslot,        \* the slot each session thread was started on
  open,         \* descriptors that are open
  shut,         \* descriptors on which shutdown() was called
  spc,          \* where the thread calling ftp_server_stop is
  scan,         \* the slot its interrupt loop has come to
  reused        \* ghost: a slot was given out while it was TERMINATING

acceptVars == <<apc, aconn, aslot>>
slotVars   == <<state, ctrl, ctx, reused>>
threadVars == <<tpc, tslot>>
fdVars     == <<open, shut>>
stopVars   == <<running, listening, spc, scan>>
vars == <<running, listening, state, ctrl, ctx, active, apc, aconn, aslot,
          tpc, tslot, open, shut, spc, scan, reused>>

Init ==
  /\ running = TRUE /\ listening = TRUE
  /\ state = [s \in Slot |-> "INIT"]
  /\ ctrl = [s \in Slot |-> None]
  /\ ctx = [s \in Slot |-> FALSE]
  /\ active = 0
  /\ apc = "accept" /\ aconn = None /\ aslot = 0
  /\ tpc = [c \in Conn |-> "new"]
  /\ tslot = [c \in Conn |-> 0]
  /\ open = {} /\ shut = {}
  /\ spc = "up" /\ scan = 0 /\ reused = FALSE

-----------------------------------------------------------------------------
(* The accept thread.                                                      *)

AcceptLoopEnd ==
  /\ apc = "accept" /\ ~running
  /\ apc' = "exit"
  /\ UNCHANGED <<aconn, aslot, slotVars, threadVars, fdVars, stopVars, active>>

(* accept() returns a new descriptor.  The loop test of ctx->running was   *)
(* made before the call, so running may already be clear.                  *)
Accept(c) ==
  /\ apc = "accept" /\ listening
  /\ tpc[c] = "new" /\ \A d \in 1 .. c - 1 : tpc[d] # "new"
  /\ open' = open \cup {c}
  /\ tpc' = [tpc EXCEPT ![c] = "accepted"]
  /\ apc' = "alloc" /\ aconn' = c
  /\ UNCHANGED <<aslot, slotVars, tslot, shut, stopVars, active>>

Free(s) == state[s] \in {"INIT", "TERMINATING"}

(* The first slot whose state is INIT or TERMINATING becomes CONNECTED.    *)
allocate_session ==
  /\ apc = "alloc"
  /\ \E s \in Slot :
       /\ Free(s) /\ \A r \in 0 .. s - 1 : ~Free(r)
       /\ state' = [state EXCEPT ![s] = "busy"]
       /\ aslot' = s
       /\ reused' = (reused \/ state[s] = "TERMINATING")
  /\ apc' = "clear"
  /\ UNCHANGED <<aconn, ctrl, ctx, threadVars, fdVars, stopVars, active>>

(* No slot: the connection is closed.                                      *)
RejectConnection ==
  /\ apc = "alloc"
  /\ \A s \in Slot : ~Free(s)
  /\ open' = open \ {aconn}
  /\ tpc' = [tpc EXCEPT ![aconn] = "gone"]
  /\ apc' = "accept"
  /\ UNCHANGED <<aconn, aslot, slotVars, tslot, shut, stopVars, active>>

(* ftp_session_init: memset zeroes the slot (state becomes INIT) ...       *)
ClearSession ==
  /\ apc = "clear"
  /\ state' = [state EXCEPT ![aslot] = "INIT"]
  /\ ctrl' = [ctrl EXCEPT ![aslot] = None]
  /\ ctx' = [ctx EXCEPT ![aslot] = FALSE]
  /\ apc' = "init"
  /\ UNCHANGED <<aconn, aslot, reused, threadVars, fdVars, stopVars, active>>

(* ... then ctrl_fd, the state CONNECTED and, in the accept thread, the    *)
(* back-pointer are stored.                                                *)
ftp_session_init ==
  /\ apc = "init"
  /\ state' = [state EXCEPT ![aslot] = "busy"]
  /\ ctrl' = [ctrl EXCEPT ![aslot] = aconn]
  /\ ctx' = [ctx EXCEPT ![aslot] = TRUE]
  /\ apc' = "create"
  /\ UNCHANGED <<aconn, aslot, reused, threadVars, fdVars, stopVars, active>>

CreateThread ==
  /\ apc = "create"
  /\ tpc' = [tpc EXCEPT ![aconn] = "serve"]
  /\ tslot' = [tslot EXCEPT ![aconn] = aslot]
  /\ apc' = "count"
  /\ UNCHANGED <<aconn, aslot, slotVars, fdVars, stopVars, active>>

(* Variant: the slot is not given back when the thread was not created.    *)
CreateThreadFailsKeepsSlot ==
  /\ apc = "create"
  /\ open' = open \ {aconn}
  /\ tpc' = [tpc EXCEPT ![aconn] = "gone"]
  /\ apc' = "accept"
  /\ UNCHANGED <<aconn, aslot, slotVars, tslot, shut, stopVars, active>>

(* pthread_create failed: close the descriptor and free_session.           *)
CreateThreadFails ==
  /\ apc = "create"
  /\ open' = open \ {aconn}
  /\ tpc' = [tpc EXCEPT ![aconn] = "gone"]
  /\ state' = [state EXCEPT ![aslot] = "INIT"]
  /\ apc' = "accept"
  /\ UNCHANGED <<aconn, aslot, reused, ctrl, ctx, tslot, shut, stopVars, active>>

(* active_sessions is incremented after the thread was created.            *)
CountSession ==
  /\ apc = "count"
  /\ active' = (active + 1) % CounterMod
  /\ apc' = "accept"
  /\ UNCHANGED <<aconn, aslot, slotVars, threadVars, fdVars, stopVars>>

AcceptThread ==
  \/ AcceptLoopEnd \/ \E c \in Conn : Accept(c)
  \/ allocate_session \/ RejectConnection \/ ClearSession \/ ftp_session_init
  \/ CreateThread \/ CreateThreadFails \/ CountSession

-----------------------------------------------------------------------------
(* The session thread of connection c.                                     *)

(* A command's handler stores one of the busy states, unless terminating.  *)
ServeCommand(c) ==
  /\ tpc[c] = "serve"
  /\ state[tslot[c]] = "INIT"
  /\ state' = [state EXCEPT ![tslot[c]] = "busy"]
  /\ UNCHANGED <<acceptVars, reused, ctrl, ctx, threadVars, fdVars, stopVars, active>>

(* Variant: the slot is marked free before its descriptors are closed.     *)
LoopEndFreesSlot(c) ==
  /\ tpc[c] = "serve"
  /\ state' = [state EXCEPT ![tslot[c]] = "INIT"]
  /\ tpc' = [tpc EXCEPT ![c] = "joincopy"]
  /\ UNCHANGED <<acceptVars, reused, ctrl, ctx, tslot, fdVars, stopVars, active>>

(* Variant: the loop goes on when recv() returns 0.                        *)
LoopEndIgnoresEof(c) ==
  /\ tpc[c] = "serve" /\ ctrl[tslot[c]] \notin shut
  /\ state' = [state EXCEPT ![tslot[c]] = "TERMINATING"]
  /\ tpc' = [tpc EXCEPT ![c] = "joincopy"]
  /\ UNCHANGED <<acceptVars, reused, ctrl, ctx, tslot, fdVars, stopVars, active>>

(* The command loop ends (QUIT, disconnect, idle timeout, an error, EOF    *)
(* injected by ftp_server_stop) and cleanup stores TERMINATING.            *)
LoopEnd(c) ==
  /\ tpc[c] = "serve"
  /\ state' = [state EXCEPT ![tslot[c]] = "TERMINATING"]
  /\ tpc' = [tpc EXCEPT ![c] = "joincopy"]
  /\ UNCHANGED <<acceptVars, reused, ctrl, ctx, tslot, fdVars, stopVars, active>>

(* Wait for a background copy; close_data_connection then stores a busy    *)
(* state unless the session is terminating.                                *)
CloseData(c) ==
  /\ tpc[c] = "joincopy"
  /\ state' = [state EXCEPT ![tslot[c]] =
                 IF @ = "TERMINATING" THEN @ ELSE "busy"]
  /\ tpc' = [tpc EXCEPT ![c] = "closectrl"]
  /\ UNCHANGED <<acceptVars, reused, ctrl, ctx, tslot, fdVars, stopVars, active>>

(* Close whatever descriptor the slot holds now.                           *)
CloseCtrl(c) ==
  /\ tpc[c] = "closectrl"
  /\ open' = open \ {ctrl[tslot[c]]}
  /\ ctrl' = [ctrl EXCEPT ![tslot[c]] = None]
  /\ tpc' = [tpc EXCEPT ![c] = "release"]
  /\ UNCHANGED <<acceptVars, reused, state, ctx, tslot, shut, stopVars, active>>

(* ftp_server_release_session with the back-pointer read from the slot:    *)
(* nothing happens when it is NULL.                                        *)
ReleaseBegin(c) ==
  /\ tpc[c] = "release"
  /\ tpc' = [tpc EXCEPT ![c] = IF ctx[tslot[c]] THEN "unlink" ELSE "gone"]
  /\ ctx' = [ctx EXCEPT ![tslot[c]] = FALSE]
  /\ UNCHANGED <<acceptVars, reused, state, ctrl, tslot, fdVars, stopVars, active>>

(* Variant: the counter is not decremented.                                *)
ReleaseEndNoDecrement(c) ==
  /\ tpc[c] = "unlink"
  /\ state' = [state EXCEPT ![tslot[c]] = "INIT"]
  /\ tpc' = [tpc EXCEPT ![c] = "gone"]
  /\ UNCHANGED <<acceptVars, reused, ctrl, ctx, tslot, fdVars, stopVars, active>>

ReleaseEnd(c) ==
  /\ tpc[c] = "unlink"
  /\ state' = [state EXCEPT ![tslot[c]] = "INIT"]
  /\ active' = (active - 1) % CounterMod
  /\ tpc' = [tpc EXCEPT ![c] = "gone"]
  /\ UNCHANGED <<acceptVars, reused, ctrl, ctx, tslot, fdVars, stopVars>>

Cleanup(c) == CloseData(c) \/ CloseCtrl(c) \/ ReleaseBegin(c) \/ ReleaseEnd(c)
SessionThread(c) == ServeCommand(c) \/ LoopEnd(c) \/ Cleanup(c)

-----------------------------------------------------------------------------
(* ftp_server_stop followed by ftp_server_cleanup.                         *)

StopRunning ==
  /\ spc = "up"
  /\ running' = FALSE /\ spc' = "close"
  /\ UNCHANGED <<acceptVars, slotVars, threadVars, fdVars, listening, scan, active>>

(* Variant: the listening socket stays open.                               *)
StopListeningNot ==
  /\ spc = "close"
  /\ spc' = "interrupt"
  /\ UNCHANGED <<acceptVars, slotVars, threadVars, fdVars, running, listening, scan, active>>

StopListening ==
  /\ spc = "close"
  /\ listening' = FALSE /\ spc' = "interrupt"
  /\ UNCHANGED <<acceptVars, slotVars, threadVars, fdVars, running, scan, active>>

(* shutdown() the descriptor of the next slot if it is busy.  The lock the *)
(* loop holds does not stop the session threads.                           *)
InterruptSession ==
  /\ spc = "interrupt"
  /\ shut' = IF state[scan] = "busy" THEN shut \cup ({ctrl[scan]} \ {None}) ELSE shut
  /\ scan' = (scan + 1) % NSlots
  /\ spc' = IF scan' = 0 THEN "wait" ELSE "interrupt"
  /\ UNCHANGED <<acceptVars, slotVars, threadVars, open, running, listening, active>>

(* The wait ends when the counter is zero, or after the time limit.        *)
StopDrained ==
  /\ spc = "wait" /\ active = 0
  /\ spc' = "drained"
  /\ UNCHANGED <<acceptVars, slotVars, threadVars, fdVars, running, listening, scan, active>>

StopTimeout ==
  /\ spc = "wait" /\ active # 0
  /\ spc' = "timeout"
  /\ UNCHANGED <<acceptVars, slotVars, threadVars, fdVars, running, listening, scan, active>>

Stop == StopRunning \/ StopListening \/ InterruptSession \/ StopDrained \/ StopTimeout

(* Nothing is left to do: stopped, and every thread has exited.            *)
Halted ==
  /\ spc \in {"drained", "timeout"} /\ apc = "exit"
  /\ \A c \in Conn : tpc[c] \in {"new", "gone"}
  /\ UNCHANGED vars

Next == AcceptThread \/ (\E c \in Conn : SessionThread(c)) \/ Stop \/ Halted

Spec == Init /\ [][Next]_vars

(* recv() returns on a descriptor that was shut down or is gone.           *)
Interrupted(c) ==
  /\ \/ ctrl[tslot[c]] = None
     \/ ctrl[tslot[c]] \in shut
     \/ ctrl[tslot[c]] \notin open
  /\ LoopEnd(c)

(* Threads are scheduled and the background copy a session joins ends; a   *)
(* client need never connect, send a command or disconnect.  The thread in *)
(* ftp_server_stop is scheduled once it was called.                        *)
FairSpec ==
  /\ Spec
  /\ WF_vars(allocate_session \/ RejectConnection \/ ClearSession
             \/ ftp_session_init \/ CreateThread \/ CreateThreadFails
             \/ CountSession \/ AcceptLoopEnd)
  /\ \A c \in Conn : WF_vars(Interrupted(c)) /\ WF_vars(Cleanup(c))
  /\ WF_vars(StopListening \/ InterruptSession \/ StopDrained \/ StopTimeout)

-----------------------------------------------------------------------------
(* Properties.                                                             *)

Alive(c) == tpc[c] \notin {"new", "accepted", "gone"}
Live == {c \in Conn : Alive(c)}

(* The properties with ~reused hold as long as no connection was given the *)
(* slot of a session that is still in ftp_session_cleanup.                 *)

(* active_sessions may wrap below zero, because a session can end before   *)
(* the accept thread has counted it, but only until the accept thread      *)
(* reaches that increment; and it never misses a live session except the   *)
(* one being counted, so ftp_server_stop is not misled for ever.           *)
ActiveCountsThreads ==
  /\ active > NConns => apc = "count"
  /\ ~reused =>
       active = (Cardinality(Live) - (IF apc = "count" THEN 1 ELSE 0)) % CounterMod

(* No two session threads share a slot, and a slot being initialised has   *)
(* no thread of an earlier session: allocate_session and the order of the  *)
(* steps in ftp_session_cleanup and release keep the slots apart.          *)
ApartExclusive ==
  ~reused =>
    \A c \in Live :
      /\ \A d \in Live : tslot[c] = tslot[d] => c = d
      /\ apc \in {"clear", "init", "create"} => tslot[c] # aslot

(* Nothing leaks.  Every open control descriptor is owned, by the accept   *)
(* thread that will close it or hand it over or by the live session that   *)
(* will close it; and a slot that is not free is in the hands of a thread  *)
(* that will free it.                                                      *)
NoLeak ==
  ~reused =>
    /\ \A c \in open :
         \/ apc \in {"alloc", "clear", "init", "create"} /\ aconn = c
         \/ Alive(c) /\ ctrl[tslot[c]] = c
    /\ \A s \in Slot : state[s] # "INIT" =>
         \/ apc \in {"clear", "init", "create"} /\ aslot = s
         \/ \E c \in Live : tslot[c] = s

(* Shutdown reaches the threads: a session whose descriptor was shut down  *)
(* by ftp_server_stop exits, and the accept thread exits, because closing  *)
(* listen_fd leaves it nothing to wait for.                                *)
StopReachesThreads ==
  /\ \A c \in Conn : c \in shut ~> (tpc[c] = "gone" \/ reused)
  /\ ~running ~> apc = "exit"

(* When the wait of ftp_server_stop found active_sessions at zero, at most *)
(* one session thread is alive or still to come: one is missed when the    *)
(* accept thread has a connection from before the listening socket was     *)
(* closed, or has not counted a session yet.                               *)
DrainedMissesOne == spc = "drained" /\ ~reused => Cardinality(Live) <= 1

(* "prevents a race where a new session grabs the slot while the old       *)
(* session's FDs are still open": the thread of an earlier session is gone *)
(* when a slot is initialised for the next one.                            *)
SlotExclusive ==
  apc \in {"clear", "init", "create"} => \A c \in Live : tslot[c] # aslot

=============================================================================
