----------------------------- MODULE HttpServer -----------------------------
(***************************************************************************)
(* The HTTP server (http_server.c) on its kqueue event loop                *)
(* (event_loop_kqueue.c), and the shutdown of both by main().              *)
(*                                                                         *)
(* Two threads: the event loop, which runs every callback, and main, which *)
(* stops the loop and destroys the server without waiting for the loop's   *)
(* thread to end.  Bytes are counted, not spelled: a request is its kind   *)
(* ("api" or "upload"), the length of its header and its Content-Length,   *)
(* and a byte is its position in what the client sent.                     *)
(***************************************************************************)
EXTENDS Naturals, Sequences, FiniteSets, FiniteSetsExt, SequencesExt

CONSTANTS
  NSlots,     \* HTTP_MAX_CONNECTIONS
  NFds,       \* descriptors the process may still open
  Cap,        \* bytes the request buffer holds, its final NUL not counted
  Chunk,      \* HTTP_UPLOAD_CHUNK_SIZE
  Request     \* the requests a client may send: [kind, hlen, clen]

ASSUME SizesAssumption ==
  /\ NSlots \in Nat \ {0} /\ NFds \in Nat \ {0}
  /\ Cap \in Nat \ {0} /\ Chunk \in Nat \ {0}
ASSUME RequestAssumption ==
  Request \subseteq [kind : {"api", "upload"}, hlen : Nat \ {0}, clen : Nat]

Slot == 1..NSlots
Fd == 1..NFds
Handler == 1..NFds         \* one entry per descriptor: MAX_HANDLERS is larger
None == 0
Thread == {"loop", "main"}

VARIABLES
  sock,       \* the slot a socket was accepted for, or None if not open
  files,      \* slots whose upload file is open
  conns,      \* g_http_connections
  count,      \* connection_count
  handlers,   \* the loop's handler table: descriptor and connection
  kq,         \* the handler a descriptor is registered with
  kqopen, running, listening,
  batch,      \* the events that kevent() returned and are still to be handled
  lpc, mpc,   \* where the loop and main are
  idx,        \* main's loop counter in http_server_destroy
  closing,    \* a thread's call of http_close_connection
  torn        \* ghost: the server is destroyed while the loop still runs

netVars == <<sock, files, kq>>
loopVars == <<batch, lpc>>
mainVars == <<mpc, idx, listening, kqopen, torn>>
vars == <<sock, files, conns, count, handlers, kq, kqopen, running, listening,
          batch, lpc, mpc, idx, closing, torn>>

\* The request of a connection whose client has sent none.
NoRequest == [kind |-> "none", hlen |-> 0, clen |-> 0]

\* A connection, with what the model records of its client: the request, how
\* much was read of what it sent (pos), what was written for it (file), and
\* whether it was told that all was (ok).
Unused == [fd |-> None, used |-> 0, active |-> FALSE, ufd |-> FALSE,
           remaining |-> 0, req |-> NoRequest, pos |-> 0, file |-> <<>>, ok |-> FALSE]
NoHandler == [fd |-> None, conn |-> None]
NotClosing == [pc |-> "no", slot |-> None, fd |-> None]

Init ==
  /\ sock = [f \in Fd |-> None] /\ files = {}
  /\ conns = [s \in Slot |-> Unused] /\ count = 0
  /\ handlers = [h \in Handler |-> NoHandler] /\ kq = [f \in Fd |-> None]
  /\ kqopen = TRUE /\ running = FALSE /\ listening = TRUE
  /\ batch = <<>> /\ lpc = "start" /\ mpc = "run" /\ idx = 1
  /\ closing = [t \in Thread |-> NotClosing] /\ torn = FALSE

FreeFd == {f \in Fd : sock[f] = None}
FreeSlot == {s \in Slot : conns[s].fd = None}

\* add_handler: the descriptor's entry, or else the first that is free.
HandlerFor(f) ==
  LET mine == {h \in Handler : handlers[h].fd = f} IN
  Min(IF mine # {} THEN mine ELSE {h \in Handler : handlers[h].fd = None})

-----------------------------------------------------------------------------
(***************************************************************************)
(* http_close_connection, by either thread                                 *)
(***************************************************************************)
\* The connection's descriptor is read first and used by the steps below.
StartClose(t, s) ==
  closing' = [closing EXCEPT ![t] =
    [pc |-> IF conns[s].fd = None THEN "release" ELSE "remove",
     slot |-> s, fd |-> conns[s].fd]]

\* event_loop_remove
Deregister(f) ==
  /\ kq' = [kq EXCEPT ![f] = None]
  /\ handlers' = [h \in Handler |->
                    IF handlers[h].fd = f THEN NoHandler ELSE handlers[h]]

\* Variant: connection_count is not taken back.
CloseRemoveKeepsCount(t) ==
  /\ closing[t].pc = "remove"
  /\ Deregister(closing[t].fd)
  /\ closing' = [closing EXCEPT ![t].pc = "close"]
  /\ UNCHANGED <<sock, files, conns, count, running, loopVars, mainVars>>

\* Variant: the descriptor is closed here already, and then once more.
CloseRemoveCloses(t) ==
  /\ closing[t].pc = "remove"
  /\ Deregister(closing[t].fd)
  /\ sock' = [sock EXCEPT ![closing[t].fd] = None]
  /\ count' = IF count > 0 THEN count - 1 ELSE count
  /\ closing' = [closing EXCEPT ![t].pc = "close"]
  /\ UNCHANGED <<files, conns, running, loopVars, mainVars>>

CloseRemove(t) ==
  /\ closing[t].pc = "remove"
  /\ Deregister(closing[t].fd)
  /\ count' = IF count > 0 THEN count - 1 ELSE count
  /\ closing' = [closing EXCEPT ![t].pc = "close"]
  /\ UNCHANGED <<sock, files, conns, running, loopVars, mainVars>>

\* Events of the socket that are still in the batch are stale from now on.
CloseFd(t) ==
  /\ closing[t].pc = "close"
  /\ LET f == closing[t].fd IN
     /\ sock' = [sock EXCEPT ![f] = None]
     /\ kq' = [kq EXCEPT ![f] = None]
     /\ batch' = [i \in DOMAIN batch |->
                    IF batch[i].fd = f THEN [batch[i] EXCEPT !.stale = TRUE]
                                       ELSE batch[i]]
  /\ closing' = [closing EXCEPT ![t].pc = "release"]
  /\ UNCHANGED <<files, conns, count, handlers, running, lpc, mainVars>>

\* http_connection_release; then the loop's callback returns -1, or main goes on.
Release(t) ==
  /\ closing[t].pc = "release"
  /\ LET s == closing[t].slot IN
     /\ files' = IF conns[s].ufd THEN files \ {s} ELSE files
     /\ conns' = [conns EXCEPT ![s] = Unused]
  /\ closing' = [closing EXCEPT ![t] = NotClosing]
  /\ IF t = "loop" THEN lpc' = "remove" /\ UNCHANGED idx
                   ELSE idx' = idx + 1 /\ UNCHANGED lpc
  /\ UNCHANGED <<sock, kq, count, handlers, running, batch, mpc, listening,
                 kqopen, torn>>

CloseConnection(t) == CloseRemove(t) \/ CloseFd(t) \/ Release(t)

-----------------------------------------------------------------------------
(***************************************************************************)
(* http_accept_callback                                                    *)
(***************************************************************************)
AtEvent == lpc = "dispatch" /\ batch # <<>> /\ kqopen /\ closing["loop"].pc = "no"
IsListen == Head(batch).fd = None
Handled == batch' = Tail(batch) /\ lpc' = lpc

\* accept() fails, or the connection is one too many and closed again.
AcceptNothing ==
  /\ AtEvent /\ IsListen /\ listening
  /\ Handled
  /\ UNCHANGED <<netVars, conns, count, handlers, running, mainVars,
                 closing>>

\* The connection gets a slot and a handler.  The result of event_loop_add is
\* not looked at: kevent() may have failed to register the descriptor.
AcceptClient ==
  /\ AtEvent /\ IsListen /\ listening
  /\ FreeFd # {} /\ count < NSlots /\ FreeSlot # {}
  /\ LET f == Min(FreeFd)
         s == Min(FreeSlot)
         h == HandlerFor(f)
     IN
     /\ sock' = [sock EXCEPT ![f] = s]
     /\ \E r \in Request :
          conns' = [conns EXCEPT ![s] = [Unused EXCEPT !.fd = f, !.req = r]]
     /\ count' = count + 1
     /\ handlers' = [handlers EXCEPT ![h] = [fd |-> f, conn |-> s]]
     /\ kq' \in {kq, [kq EXCEPT ![f] = h]}
  /\ Handled
  /\ UNCHANGED <<files, running, mainVars, closing>>

-----------------------------------------------------------------------------
(***************************************************************************)
(* http_client_callback                                                    *)
(***************************************************************************)
\* The connection the event's handler entry points to, if it is still set.
Here == handlers[Head(batch).h].conn
AtClient == AtEvent /\ ~IsListen /\ Here # None
Open(active) == AtClient /\ conns[Here].fd # None /\ conns[Here].active = active
SetConn(r) == conns' = [conns EXCEPT ![Here] = r]

\* How many bytes read() may return, of at most n; a client may send a byte
\* more than its request has.
Read(n) ==
  {k \in 1..n : LET r == conns[Here].req IN
                conns[Here].pos + k <= r.hlen + r.clen + 1}

\* The callback is over, and closes the connection or does not.
KeepOpen == Handled /\ UNCHANGED closing
Close == StartClose("loop", Here) /\ lpc' = "closing" /\ UNCHANGED batch

ClientUnchanged == UNCHANGED <<sock, kq, count, handlers, running, mainVars>>

\* EVENT_CLOSE or EVENT_ERROR, read() returns nothing, the buffer is full
\* without a complete request, a write to the upload file fails, or the
\* connection was closed meanwhile.
ClientGone ==
  /\ AtClient
  /\ Close
  /\ UNCHANGED <<files, conns>> /\ ClientUnchanged

\* Part of the header, or of the body of a request that is not an upload.
ReadMore ==
  /\ Open(FALSE)
  /\ LET s == conns[Here]  r == s.req IN
     \E k \in Read(Cap - s.used) :
       /\ \/ s.used + k < r.hlen
          \/ /\ r.kind = "api" /\ r.hlen + r.clen <= Cap
             /\ s.used + k < r.hlen + r.clen
       /\ SetConn([s EXCEPT !.used = @ + k, !.pos = @ + k])
  /\ KeepOpen
  /\ UNCHANGED files /\ ClientUnchanged

\* The header is complete and the request is refused, with or without an error
\* response: it cannot be parsed, is too large, or is an upload without a valid
\* token, length, name or place, or whose file cannot be opened.
Refuse ==
  /\ Open(FALSE)
  /\ LET s == conns[Here] IN
     \E k \in Read(Cap - s.used) :
       /\ s.used + k >= s.req.hlen
       /\ SetConn([s EXCEPT !.used = @ + k, !.pos = @ + k])
  /\ Close
  /\ UNCHANGED files /\ ClientUnchanged

\* The request is complete: the response is sent, as far as that succeeds, its
\* file or directory is closed, and then the connection is.
http_handle_request ==
  /\ Open(FALSE)
  /\ LET s == conns[Here]  r == s.req IN
     /\ r.kind = "api" /\ r.hlen + r.clen <= Cap
     /\ \E k \in Read(Cap - s.used) :
          /\ s.used + k >= r.hlen + r.clen
          /\ SetConn([s EXCEPT !.used = @ + k, !.pos = @ + k])
  /\ Close
  /\ UNCHANGED files /\ ClientUnchanged

\* What a client sent from position a on, n bytes.
Bytes(a, n) == [i \in 1..n |-> a + i]

\* The upload file is open; in_buf bytes of the body came with the header and
\* are written, which may be all of it.
UploadBegins ==
  /\ Open(FALSE)
  /\ LET s == conns[Here]  r == s.req IN
     /\ r.kind = "upload" /\ r.clen > 0
     /\ \E k \in Read(Cap - s.used) :
          LET in_buf == Min({s.used + k - r.hlen, r.clen})
              t == [s EXCEPT !.used = 0, !.pos = @ + k,
                             !.file = Bytes(r.hlen, in_buf)]
          IN
          /\ s.used + k >= r.hlen
          /\ IF in_buf = r.clen
             THEN SetConn([t EXCEPT !.ok = TRUE]) /\ Close /\ UNCHANGED files
             ELSE /\ SetConn([t EXCEPT !.active = TRUE, !.ufd = TRUE,
                                       !.remaining = r.clen - in_buf])
                  /\ files' = files \cup {Here} /\ KeepOpen
  /\ ClientUnchanged

\* pal_file_write_all fails for what came with the header.
UploadBeginFails ==
  /\ Open(FALSE)
  /\ LET s == conns[Here]  r == s.req IN
     /\ r.kind = "upload" /\ r.clen > 0
     /\ \E k \in Read(Cap - s.used) :
          /\ s.used + k > r.hlen
          /\ SetConn([s EXCEPT !.used = @ + k, !.pos = @ + k, !.active = TRUE,
                               !.ufd = TRUE])
  /\ files' = files \cup {Here}
  /\ Close /\ ClientUnchanged

\* Variant: what is beyond the Content-Length is written as well.
UploadGoesOnTooFar ==
  /\ Open(TRUE)
  /\ LET s == conns[Here] IN
     \E k \in Read(Chunk) :
       LET t == [s EXCEPT !.pos = @ + k, !.file = @ \o Bytes(s.pos, k)] IN
       IF k >= s.remaining
       THEN /\ SetConn([t EXCEPT !.ufd = FALSE, !.ok = TRUE, !.remaining = 0])
            /\ files' = files \ {Here} /\ Close
       ELSE /\ SetConn([t EXCEPT !.remaining = @ - k])
            /\ KeepOpen /\ UNCHANGED files
  /\ ClientUnchanged

\* The body goes on; what is beyond the Content-Length is dropped.
UploadGoesOn ==
  /\ Open(TRUE)
  /\ LET s == conns[Here] IN
     \E k \in Read(Chunk) :
       LET got == Min({k, s.remaining})
           t == [s EXCEPT !.pos = @ + k, !.remaining = @ - got,
                          !.file = @ \o Bytes(s.pos, got)]
       IN
       IF got = s.remaining
       THEN /\ SetConn([t EXCEPT !.ufd = FALSE, !.ok = TRUE])
            /\ files' = files \ {Here} /\ Close
       ELSE SetConn(t) /\ KeepOpen /\ UNCHANGED files
  /\ ClientUnchanged

ClientCallback ==
  ClientGone \/ ReadMore \/ Refuse \/ http_handle_request
  \/ UploadBegins \/ UploadBeginFails \/ UploadGoesOn

-----------------------------------------------------------------------------
(***************************************************************************)
(* event_loop_run                                                          *)
(***************************************************************************)
LoopUnchanged ==
  UNCHANGED <<netVars, conns, count, handlers, mainVars, closing>>

LoopStart ==
  /\ lpc = "start"
  /\ running' = TRUE /\ lpc' = "check"
  /\ UNCHANGED batch /\ LoopUnchanged

LoopCheck ==
  /\ lpc = "check"
  /\ lpc' = IF running THEN "kevent" ELSE "exit"
  /\ UNCHANGED <<batch, running>> /\ LoopUnchanged

\* kevent() returns some of the registered descriptors, or nothing after the
\* timeout of a second; it fails when the queue was closed.
Event(f, h, filter) == [fd |-> f, h |-> h, filter |-> filter, stale |-> FALSE]
Registered == {f \in Fd : kq[f] # None}
ListenEvent == IF listening THEN {Event(None, None, "read")} ELSE {}

\* Variant: connections are registered for writing as well.
ReadyBoth ==
  {Event(f, kq[f], filter) : f \in Registered, filter \in {"read", "write"}}
    \cup ListenEvent

Ready == {Event(f, kq[f], "read") : f \in Registered} \cup ListenEvent

Kevent ==
  /\ lpc = "kevent"
  /\ IF kqopen
     THEN /\ batch' \in SetToAllKPermutations(Ready)
          /\ lpc' = "dispatch"
     ELSE lpc' = "exit" /\ UNCHANGED batch
  /\ UNCHANGED running /\ LoopUnchanged

\* The handler was removed meanwhile: the event is passed over.
SkipEvent ==
  /\ AtEvent
  /\ IF IsListen THEN ~listening ELSE Here = None
  /\ Handled
  /\ UNCHANGED running /\ LoopUnchanged

\* A callback returned -1: its descriptor is removed, once more.
CallbackFailed ==
  /\ lpc = "remove"
  /\ Deregister(Head(batch).fd)
  /\ batch' = Tail(batch) /\ lpc' = "dispatch"
  /\ UNCHANGED <<sock, files, conns, count, running, mainVars, closing>>

BatchDone ==
  /\ lpc = "dispatch" /\ batch = <<>>
  /\ lpc' = "check"
  /\ UNCHANGED <<batch, running>> /\ LoopUnchanged

\* event_loop_destroy has set loop->events to NULL: the batch is gone.
LoopCrash ==
  /\ lpc = "dispatch" /\ batch # <<>> /\ ~kqopen
  /\ lpc' = "crash"
  /\ UNCHANGED <<batch, running>> /\ LoopUnchanged

Loop ==
  \/ LoopStart \/ LoopCheck \/ Kevent \/ SkipEvent \/ CallbackFailed
  \/ BatchDone \/ LoopCrash \/ AcceptNothing \/ AcceptClient \/ ClientCallback
  \/ CloseConnection("loop")

-----------------------------------------------------------------------------
(***************************************************************************)
(* The shutdown in main(): event_loop_stop, http_server_destroy and        *)
(* event_loop_destroy; the loop's thread is detached and not waited for.   *)
(***************************************************************************)
MainUnchanged ==
  UNCHANGED <<sock, files, conns, count, loopVars>>

EventLoopStop ==
  /\ mpc = "run"
  /\ running' = FALSE /\ mpc' = "stopped"
  /\ UNCHANGED <<kq, handlers, idx, listening, kqopen, torn, closing>>
  /\ MainUnchanged

DestroyBegin ==
  /\ mpc = "stopped"
  /\ mpc' = "destroy" /\ torn' = (lpc # "exit")
  /\ UNCHANGED <<kq, handlers, running, idx, listening, kqopen, closing>>
  /\ MainUnchanged

DestroyConnection ==
  /\ mpc = "destroy" /\ idx <= NSlots /\ closing["main"].pc = "no"
  /\ IF conns[idx].fd # None
     THEN StartClose("main", idx) /\ UNCHANGED idx
     ELSE idx' = idx + 1 /\ UNCHANGED closing
  /\ UNCHANGED <<kq, handlers, running, mpc, listening, kqopen, torn>>
  /\ MainUnchanged

DestroyListener ==
  /\ mpc = "destroy" /\ idx > NSlots
  /\ listening' = FALSE /\ mpc' = "loop"
  /\ UNCHANGED <<kq, handlers, running, idx, kqopen, torn, closing>>
  /\ MainUnchanged

\* Variant: the queue is not closed.
EventLoopDestroyKeepsQueue ==
  /\ mpc = "loop"
  /\ running' = FALSE
  /\ kq' = [f \in Fd |-> None] /\ handlers' = [h \in Handler |-> NoHandler]
  /\ mpc' = "exit"
  /\ UNCHANGED <<idx, listening, kqopen, torn, closing>>
  /\ MainUnchanged

EventLoopDestroy ==
  /\ mpc = "loop"
  /\ kqopen' = FALSE /\ running' = FALSE
  /\ kq' = [f \in Fd |-> None] /\ handlers' = [h \in Handler |-> NoHandler]
  /\ mpc' = "exit"
  /\ UNCHANGED <<idx, listening, torn, closing>>
  /\ MainUnchanged

Shutdown ==
  \/ DestroyBegin \/ DestroyConnection \/ DestroyListener \/ EventLoopDestroy
  \/ CloseConnection("main")

Ended == lpc \in {"exit", "crash"} /\ mpc = "exit" /\ UNCHANGED vars

Next == Loop \/ EventLoopStop \/ Shutdown \/ Ended

Spec == Init /\ [][Next]_vars /\ WF_vars(Loop) /\ WF_vars(Shutdown)

-----------------------------------------------------------------------------
(***************************************************************************)
(* Properties                                                              *)
(***************************************************************************)

\* An event whose socket was closed while it waited in the batch is not
\* delivered, although the descriptor, the handler entry and the slot may all
\* have been taken over by a new connection in the meantime.
NoStaleDelivery ==
  ~torn => \A i \in DOMAIN batch :
    (batch[i].stale /\ lpc = "dispatch") => handlers[batch[i].h].conn = None

\* A descriptor that http_close_connection is about to close is still the
\* socket of the connection it was read from.
ClosesOwn ==
  ~torn => \A t \in Thread :
    closing[t].pc \in {"remove", "close"} => sock[closing[t].fd] = closing[t].slot

\* The pool accounts for everything: connection_count is the number of slots in
\* use, and every client's socket and every upload file that is open belongs
\* to a slot.
PoolAccounts ==
  ~torn =>
    /\ count + Cardinality({t \in Thread : closing[t].pc \in {"close", "release"}})
         = Cardinality(Slot \ FreeSlot)
    /\ \A f \in Fd : sock[f] \in Slot => conns[sock[f]].fd = f
    /\ \A s \in files : conns[s].ufd

\* A client that is told {"ok":true} has its file on disk: every byte of the
\* body once, in order, and nothing of the header or beyond the end.
UploadOkIsWhole ==
  ~torn => \A s \in Slot :
    conns[s].ok => conns[s].file = Bytes(conns[s].req.hlen, conns[s].req.clen)

\* Once stopped, the loop's thread ends, also if it had not yet started when
\* event_loop_stop was called and then set running itself.
LoopEnds == (mpc = "stopped") ~> (lpc \in {"exit", "crash"})

=============================================================================
