-------------------------- MODULE SocketConnection --------------------------
(***************************************************************************)
(* A whole connection: the write queue of WriteQueue together with         *)
(* connect, read, recv, close and the lifetime of the object, for tcp, udp *)
(* and websocket connections.                                              *)
(*                                                                         *)
(* Every outstanding operation holds a shared pointer to the connection.   *)
(* Read handlers do not run in the strand.  On tcp and udp they are        *)
(* handlers of asynchronous operations, which the kernel completes in the  *)
(* order they were started; closing the socket completes them with an      *)
(* error.  On a websocket a read is a callback stored in onread_, which    *)
(* only the end of the connection calls: received data never completes it. *)
(***************************************************************************)
EXTENDS WriteQueue

CONSTANTS
    NReads,      \* bound: calls of read() and recv(), numbered as they are made
    Sender,      \* the senders of datagrams
    None         \* no sender, no read

ASSUME SocketConnectionAssumption ==
    /\ NReads \in Nat
    /\ None \notin Sender

Reads == 1..NReads

VARIABLES
    owner,       \* the program holds a pointer to the connection
    connecting,  \* connect(): "no", "pending", "ready" (its handler may run), "told"
    reads,       \* [Reads -> the call]
    remote,      \* recvremote_
    onread,      \* onread_: the read whose callback is stored, or None
    handlersSet, \* handlersSet_
    hooked,      \* the socket has the close and fail handlers of setHandlers
    ended        \* websocketpp has reported the end of the connection

side == <<owner, connecting, reads, remote, onread, handlersSet, hooked, ended>>
cvars == <<vars, side>>

\* st is "free" before the call, "pending" while the operation is outstanding,
\* "ready" when its handler may run, "told" when the callback has run; "threw"
\* when the call is not implemented.  On a websocket "replaced" by a later
\* read, and "late" when the end of the connection was already reported.
\* clobbered: another datagram arrived before the handler ran.
Free == [st |-> "free", kind |-> "read", from |-> None, told |-> None,
         clobbered |-> FALSE]

CInit ==
    /\ Init
    /\ owner = TRUE
    /\ connecting = "no"
    /\ reads = [r \in Reads |-> Free]
    /\ remote = None
    /\ onread = None
    /\ handlersSet = FALSE
    /\ hooked = FALSE
    /\ ended = FALSE

\* What holds a pointer to the connection: posted writes and the outstanding
\* send, connect and read operations; on a websocket the stored callback, and
\* the handlers in the socket that the connection itself keeps.
Held ==
    \/ owner
    \/ strand # <<>> \/ op # Idle
    \/ connecting \in {"pending", "ready"}
    \/ \E r \in Reads : reads[r].st \in {"pending", "ready"}
    \/ hooked \/ onread # None

Outstanding(st) == {r \in Reads : reads[r].st = st}
First(S) == CHOOSE r \in S : \A q \in S : r <= q

-----------------------------------------------------------------------------
(* Callers.                                                                *)

\* connect(): the address may not parse, and websockets do not implement it;
\* then the call throws and nothing is started.
Connect ==
    /\ owner /\ connecting = "no"
    /\ connecting' \in {"told"} \cup (IF transport = "web" THEN {} ELSE {"pending"})
    /\ UNCHANGED <<vars, owner, reads, remote, onread, handlersSet, hooked, ended>>

\* read() of a tcp or udp connection: start an operation.
ReadSocket(r) ==
    /\ transport # "web"
    /\ reads' = [reads EXCEPT ![r].st = "pending"]
    /\ UNCHANGED <<remote, onread, handlersSet, hooked>>

\* read() of a websocket connection: store the callback over the one before,
\* and the first time give the socket its handlers.
ReadWeb(r) ==
    /\ transport = "web"
    /\ reads' = [q \in Reads |->
                   IF q = r THEN [reads[q] EXCEPT !.st = IF ended THEN "late" ELSE "pending"]
                   ELSE IF q = onread /\ reads[q].st = "pending"
                     THEN [reads[q] EXCEPT !.st = "replaced"]
                   ELSE reads[q]]
    /\ onread' = r
    /\ handlersSet' = TRUE
    /\ hooked' = (hooked \/ ~handlersSet)
    /\ UNCHANGED remote

\* Seeded fault: recv() clears recvremote_ before it starts the operation.
BugRecvClears(r) ==
    /\ transport = "udp"
    /\ reads' = [reads EXCEPT ![r].st = "pending", ![r].kind = "recv"]
    /\ remote' = None
    /\ UNCHANGED <<onread, handlersSet, hooked>>

\* recv() of a udp connection.
RecvUdp(r) ==
    /\ transport = "udp"
    /\ reads' = [reads EXCEPT ![r].st = "pending", ![r].kind = "recv"]
    /\ UNCHANGED <<remote, onread, handlersSet, hooked>>

\* recv() of the others: not implemented.
RecvBase(r) ==
    /\ transport # "udp"
    /\ reads' = [reads EXCEPT ![r].st = "threw", ![r].kind = "recv"]
    /\ UNCHANGED <<remote, onread, handlersSet, hooked>>

Read ==
    /\ owner /\ Outstanding("free") # {}
    /\ LET r == First(Outstanding("free"))
       IN  ReadSocket(r) \/ ReadWeb(r) \/ RecvUdp(r) \/ RecvBase(r)
    /\ UNCHANGED <<vars, owner, connecting, ended>>

Drop ==
    /\ owner
    /\ owner' = FALSE
    /\ UNCHANGED <<vars, connecting, reads, remote, onread, handlersSet, hooked, ended>>

-----------------------------------------------------------------------------
(* The handlers, run by any thread of the io_service.                      *)

OnConnect ==
    /\ connecting = "ready"
    /\ connecting' = "told"
    /\ UNCHANGED <<vars, owner, reads, remote, onread, handlersSet, hooked, ended>>

\* The handler of a read or recv: onReadComplete or onReadError, then the
\* callback, whose exceptions are swallowed.  recv's is given recvremote_.
OnRead(r) ==
    /\ reads[r].st = "ready"
    /\ reads' = [reads EXCEPT ![r].st = "told",
                              ![r].told = IF reads[r].kind = "recv" THEN remote ELSE None]
    /\ UNCHANGED <<vars, owner, connecting, remote, onread, handlersSet, hooked, ended>>

\* Seeded fault: the handlers are taken out of the socket, and the callback
\* stays where it is.
BugResetHandlers ==
    /\ hooked' = FALSE
    /\ UNCHANGED onread

\* resetHandlers(): the socket and onread_ let go of the connection.
ResetHandlers ==
    /\ hooked' = FALSE
    /\ onread' = None

\* hclose, and hfail which calls it: the stored callback is told eof.
OnEnd ==
    /\ transport = "web" /\ ~open /\ ~ended
    /\ ended' = TRUE
    /\ IF hooked
       THEN /\ ResetHandlers
            /\ reads' = [r \in Reads |-> IF r = onread THEN [reads[r] EXCEPT !.st = "told"]
                                                       ELSE reads[r]]
       ELSE UNCHANGED <<hooked, onread, reads>>
    /\ UNCHANGED <<vars, owner, connecting, remote, handlersSet>>

-----------------------------------------------------------------------------
(* The operating system and websocketpp (external).                        *)

Connected ==
    /\ connecting = "pending"
    /\ connecting' = "ready"
    /\ UNCHANGED <<vars, owner, reads, remote, onread, handlersSet, hooked, ended>>

\* Data for the first outstanding read.  A datagram writes its sender into
\* recvremote_, also when the handler of an earlier one has not run yet.
Arrive ==
    /\ open /\ transport # "web" /\ Outstanding("pending") # {}
    /\ LET r == First(Outstanding("pending"))
       IN IF reads[r].kind = "recv"
          THEN \E s \in Sender :
                 /\ remote' = s
                 /\ reads' = [q \in Reads |->
                      IF q = r THEN [reads[q] EXCEPT !.st = "ready", !.from = s]
                      ELSE IF reads[q].st = "ready"
                        THEN [reads[q] EXCEPT !.clobbered = TRUE]
                      ELSE reads[q]]
          ELSE /\ reads' = [reads EXCEPT ![r].st = "ready"]
               /\ UNCHANGED remote
    /\ UNCHANGED <<vars, owner, connecting, onread, handlersSet, hooked, ended>>

\* The first outstanding read fails: the peer is gone, or the socket is closed.
ReadFails ==
    /\ transport # "web" /\ Outstanding("pending") # {}
    /\ reads' = [reads EXCEPT ![First(Outstanding("pending"))].st = "ready"]
    /\ UNCHANGED <<vars, owner, connecting, remote, onread, handlersSet, hooked, ended>>

\* The peer of a websocket goes away.
PeerGone ==
    /\ transport = "web" /\ Held
    /\ Close
    /\ UNCHANGED side

-----------------------------------------------------------------------------
CNext ==
    \/ owner /\ (\E m \in Msg : Write(m)) /\ UNCHANGED side
    \/ owner /\ Close /\ UNCHANGED side
    \/ (Strand \/ TransmitOk \/ TransmitError) /\ UNCHANGED side
    \/ Connect \/ Read \/ Drop
    \/ OnConnect \/ (\E r \in Reads : OnRead(r)) \/ OnEnd
    \/ Connected \/ Arrive \/ ReadFails \/ PeerGone

\* Handlers that are ready run; the kernel finishes the send of a datagram, one
\* way or the other, and the operations of a closed socket; a connect ends.  A
\* send on an open TCP socket may wait for the peer for ever.
CSpec ==
    /\ CInit /\ [][CNext]_cvars
    /\ WF_cvars(Strand /\ UNCHANGED side)
    /\ WF_cvars(~PeerStalls /\ (TransmitOk \/ TransmitError) /\ UNCHANGED side)
    /\ WF_cvars(OnConnect) /\ WF_cvars(Connected)
    /\ \A r \in Reads : WF_cvars(OnRead(r))
    /\ WF_cvars(ReadFails /\ ~open) /\ WF_cvars(OnEnd)

-----------------------------------------------------------------------------
(* Properties.                                                             *)

STypeOK ==
    /\ connecting \in {"no", "pending", "ready", "told"}
    /\ \A r \in Reads :
         /\ reads[r].st \in {"free", "pending", "ready", "told", "threw", "replaced", "late"}
         /\ {reads[r].from, reads[r].told} \subseteq Sender \cup {None}
    /\ remote \in Sender \cup {None}
    /\ onread \in Reads \cup {None}

\* udp/connection.cpp:154-177.  All recv operations share recvremote_: the
\* callback is told the sender of its own datagram, except when the datagram of
\* another recv arrived before its handler ran.
SenderIsTold ==
    /\ STypeOK
    /\ \A r \in Reads : reads[r].st = "told" /\ reads[r].from # None /\ ~reads[r].clobbered =>
         reads[r].told = reads[r].from

\* connection.cpp of tcp, udp and web.  Closing ends everything: a read that is
\* outstanding when the socket is closed is answered (unless, on a websocket,
\* a later read took its place), and once the program has let go of the
\* connection too, nothing holds it any more.  The one leak left is a read of a
\* websocket made after its end was reported: nobody calls it, and the
\* connection holds itself for ever.
CloseEndsAll ==
    /\ \A r \in Reads : reads[r].st = "pending" /\ ~open ~> reads[r].st \in {"told", "replaced"}
    /\ ~owner /\ ~open ~> ~Held \/ Outstanding("late") # {}
=============================================================================
