------------------------------- MODULE ScgiPool -------------------------------
(***************************************************************************)
(* The connections of the SCGI server: scgi::Server accepts them, Pool     *)
(* counts them, Parser's read loop and the replies of Request keep them    *)
(* alive, and their destructor gives the slot in the pool back.            *)
(*                                                                         *)
(* The io_service has several threads.  A section under mtxConnections_ is *)
(* one action; what happens between the test of fshutdown_ and the lock is *)
(* not.  Handlers hold a raw pointer to Server, so a handler that is on    *)
(* its way while ~Server runs uses a destroyed object: the model lets it   *)
(* go on, which is the outcome in which it can do most.                    *)
(***************************************************************************)
EXTENDS Naturals, FiniteSets

CONSTANTS
    Conn,        \* the clients that may connect, once each
    MaxSize,     \* maxSize_
    NoConn       \* stands for "no client"

ASSUME ScgiPoolAssumption ==
    /\ MaxSize \in Nat
    /\ IsFiniteSet(Conn)
    /\ NoConn \notin Conn

VARIABLES
    accept,      \* "armed", "ready" (handler queued), "checked" (past the
                 \* test of fshutdown_), "rearm", "aborted", "none"
    client,      \* the client the accept handler deals with
    dtor,        \* ~Server: "no", "cancelled", "flagged", "done"
    fshutdown,   \* fshutdown_
    connections, \* the keys of connections_
    conn,        \* [Conn -> {"none", "live", "dying", "gone", "refused"}]
    sock,        \* the sockets that are open
    reading,     \* connections held by the read loop of their parser
    replying,    \* connections held by a reply that is being written
    freeing,     \* dying connections past the test of fshutdown_
    late         \* history: connections added after shutdown() was called

vars == <<accept, client, dtor, fshutdown, connections, conn, sock, reading,
          replying, freeing, late>>

Init ==
    /\ accept = "armed"
    /\ client = NoConn
    /\ dtor = "no"
    /\ fshutdown = FALSE
    /\ connections = {}
    /\ conn = [c \in Conn |-> "none"]
    /\ sock = {}
    /\ reading = {}
    /\ replying = {}
    /\ freeing = {}
    /\ late = {}

-----------------------------------------------------------------------------
(* Server::accept.                                                         *)

\* A client connects: the accept completes, its handler is queued.
Arrive(c) ==
    /\ accept = "armed"
    /\ conn[c] = "none"
    /\ accept' = "ready"
    /\ client' = c
    /\ sock' = sock \cup {c}
    /\ UNCHANGED <<dtor, fshutdown, connections, conn, reading, replying, freeing, late>>

\* The accept fails or is aborted, or the callback throws before it gets to
\* the pool: nothing calls accept() again.
AcceptEnds ==
    /\ accept \in {"armed", "ready", "aborted"}
    /\ accept' = "none"
    /\ client' = NoConn
    /\ conn' = IF client = NoConn THEN conn ELSE [conn EXCEPT ![client] = "refused"]
    /\ sock' = sock \ {client}
    /\ UNCHANGED <<dtor, fshutdown, connections, reading, replying, freeing, late>>

\* The client gets no connection, and its socket is closed with the last
\* reference to it.
TurnAway(c) ==
    /\ accept' = "rearm"
    /\ client' = NoConn
    /\ conn' = [conn EXCEPT ![c] = "refused"]
    /\ sock' = sock \ {c}

\* Pool::getConnection up to the lock.
GetConnection ==
    /\ accept = "ready"
    /\ \/ /\ fshutdown
          /\ TurnAway(client)
       \/ /\ ~fshutdown
          /\ accept' = "checked"
          /\ UNCHANGED <<client, conn, sock>>
    /\ UNCHANGED <<dtor, fshutdown, connections, reading, replying, freeing, late>>

\* Pool::getConnection under the lock, and the parser's first read.
AddConnection ==
    /\ accept = "checked"
    /\ \/ /\ Cardinality(connections) < MaxSize
          /\ connections' = connections \cup {client}
          /\ conn' = [conn EXCEPT ![client] = "live"]
          /\ reading' = reading \cup {client}
          /\ late' = IF fshutdown THEN late \cup {client} ELSE late
          /\ accept' = "rearm"
          /\ client' = NoConn
          /\ UNCHANGED sock
       \/ /\ Cardinality(connections) >= MaxSize
          /\ TurnAway(client)
          /\ UNCHANGED <<connections, reading, late>>
    /\ UNCHANGED <<dtor, fshutdown, replying, freeing>>

\* The callback calls accept() again.
Rearm ==
    /\ accept = "rearm"
    /\ accept' = "armed"
    /\ UNCHANGED <<client, dtor, fshutdown, connections, conn, sock, reading,
                   replying, freeing, late>>

-----------------------------------------------------------------------------
(* The life of a connection.                                               *)

\* The peer goes away, the parser closes the connection after a bad message,
\* or the read fails on a socket closed by shutdown(): the read loop ends.
ReadEnds(c) ==
    /\ c \in reading
    /\ reading' = reading \ {c}
    /\ sock' \in {sock, sock \ {c}}
    /\ UNCHANGED <<accept, client, dtor, fshutdown, connections, conn, replying,
                   freeing, late>>

\* Request::reply locks its weak reference and writes.  Without another
\* reference the lock fails and the reply is dropped.
Reply(c) ==
    /\ c \in reading
    /\ c \notin replying
    /\ replying' = replying \cup {c}
    /\ UNCHANGED <<accept, client, dtor, fshutdown, connections, conn, sock,
                   reading, freeing, late>>

ReplyWritten(c) ==
    /\ c \in replying
    /\ replying' = replying \ {c}
    /\ UNCHANGED <<accept, client, dtor, fshutdown, connections, conn, sock,
                   reading, freeing, late>>

\* The last reference is dropped: ~Connection calls back Pool::freeConnection,
\* which returns at once after shutdown().
Destroy(c) ==
    /\ conn[c] = "live"
    /\ c \notin reading \cup replying
    /\ sock' = sock \ {c}
    /\ \/ /\ fshutdown
          /\ conn' = [conn EXCEPT ![c] = "gone"]
          /\ UNCHANGED freeing
       \/ /\ ~fshutdown
          /\ conn' = [conn EXCEPT ![c] = "dying"]
          /\ freeing' = freeing \cup {c}
    /\ UNCHANGED <<accept, client, dtor, fshutdown, connections, reading, replying, late>>

\* Seeded fault: the slot is not given back.
BugFreeConnectionKeeps(c) ==
    /\ c \in freeing
    /\ freeing' = freeing \ {c}
    /\ conn' = [conn EXCEPT ![c] = "gone"]
    /\ UNCHANGED <<accept, client, dtor, fshutdown, connections, sock, reading,
                   replying, late>>

\* Pool::freeConnection under the lock.
FreeConnection(c) ==
    /\ c \in freeing
    /\ freeing' = freeing \ {c}
    /\ connections' = connections \ {c}
    /\ conn' = [conn EXCEPT ![c] = "gone"]
    /\ UNCHANGED <<accept, client, dtor, fshutdown, sock, reading, replying, late>>

-----------------------------------------------------------------------------
(* ~Server.                                                                *)

\* listener_->cancel()
CancelListener ==
    /\ dtor = "no"
    /\ dtor' = "cancelled"
    /\ accept' = IF accept = "armed" THEN "aborted" ELSE accept
    /\ UNCHANGED <<client, fshutdown, connections, conn, sock, reading, replying,
                   freeing, late>>

\* Pool::shutdown: fshutdown_.exchange(true)
BeginShutdown ==
    /\ dtor = "cancelled"
    /\ dtor' = "flagged"
    /\ fshutdown' = TRUE
    /\ UNCHANGED <<accept, client, connections, conn, sock, reading, replying,
                   freeing, late>>

\* Seeded fault: connections that are being written to are not closed.
BugCloseAllIdle ==
    /\ dtor = "flagged"
    /\ dtor' = "done"
    /\ sock' = sock \ {c \in connections : conn[c] = "live" /\ c \notin replying}
    /\ UNCHANGED <<accept, client, fshutdown, connections, conn, reading,
                   replying, freeing, late>>

\* Pool::shutdown under the lock: close every connection that still exists.
CloseAll ==
    /\ dtor = "flagged"
    /\ dtor' = "done"
    /\ sock' = sock \ {c \in connections : conn[c] = "live"}
    /\ UNCHANGED <<accept, client, fshutdown, connections, conn, reading,
                   replying, freeing, late>>

-----------------------------------------------------------------------------
AcceptHandler == GetConnection \/ AddConnection \/ Rearm

Next ==
    \/ \E c \in Conn : \/ Arrive(c) \/ ReadEnds(c) \/ Reply(c)
                       \/ ReplyWritten(c) \/ Destroy(c) \/ FreeConnection(c)
    \/ AcceptEnds
    \/ AcceptHandler
    \/ CancelListener
    \/ BeginShutdown
    \/ CloseAll

Spec == Init /\ [][Next]_vars

\* Handlers that are queued run, a thread in a destructor goes on, a read on
\* a closed socket fails, a write ends.
FairSpec ==
    /\ Spec
    /\ WF_vars(AcceptHandler)
    /\ WF_vars(BeginShutdown \/ CloseAll)
    /\ \A c \in Conn :
          /\ WF_vars(ReadEnds(c) /\ c \notin sock)
          /\ WF_vars(ReplyWritten(c))
          /\ WF_vars(Destroy(c) \/ FreeConnection(c))

-----------------------------------------------------------------------------
(* Properties.                                                             *)

Exists(c) == conn[c] \in {"live", "dying"}

TypeOK ==
    /\ accept \in {"armed", "ready", "checked", "rearm", "aborted", "none"}
    /\ client \in Conn \cup {NoConn}
    /\ dtor \in {"no", "cancelled", "flagged", "done"}
    /\ fshutdown \in BOOLEAN
    /\ connections \subseteq Conn
    /\ conn \in [Conn -> {"none", "live", "dying", "gone", "refused"}]
    /\ {sock, reading, replying, freeing, late} \subseteq SUBSET Conn

\* pool.cpp:21-59.  No more than maxSize_ connections exist at a time, those
\* that are being destroyed on another thread included, and until shutdown the
\* slots taken are exactly theirs: no slot leaks, none is given back twice.
SlotsExact ==
    /\ TypeOK
    /\ Cardinality({c \in Conn : Exists(c)}) <= MaxSize
    /\ ~fshutdown => connections = {c \in Conn : Exists(c)}

\* pool.cpp:25-42,61-76.  When shutdown() has returned, at most one connection
\* is left open, and it was added by an accept handler that had passed the test
\* of fshutdown_ before the flag was set.
OnlyLateSurvive ==
    /\ dtor = "done" => \A c \in Conn : conn[c] = "live" /\ c \in sock => c \in late
    /\ Cardinality(late) <= 1

\* server.cpp:30-36, pool.cpp:61-76.  After shutdown every connection comes
\* to its end, except one that was added too late to be closed.
ShutdownDrains ==
    \A c \in Conn : fshutdown ~> (~Exists(c) \/ c \in late)
=============================================================================
