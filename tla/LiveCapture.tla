----------------------------- MODULE LiveCapture -----------------------------
(***************************************************************************)
(* Live capture over TCP: Grabber, ServerTCP and Connection of livecapture *)
(* with the sockets::tcp::Server they listen on.                           *)
(*                                                                         *)
(* The handlers run on several threads of one io_service, so every step of *)
(* a handler that another thread can observe is an action of its own.      *)
(* Objects live as long as a handler or a local variable refers to them:   *)
(* a destructor is the action of the thread that dropped the last          *)
(* reference.  Emitting a signal is atomic with the slot it runs.          *)
(***************************************************************************)
EXTENDS Naturals, FiniteSets

CONSTANTS
    Server,      \* the servers open() may create, each at most once
    Limits,      \* what connectionsLimit() may be configured to
    MaxArrivals  \* bound: how many clients connect to each port

ASSUME LiveCaptureAssumption ==
    /\ IsFiniteSet(Server)
    /\ Limits \subseteq Nat
    /\ MaxArrivals \in [Server -> Nat]

VARIABLES
    limit,       \* connectionsLimit(); never changes
    grabber,     \* the Grabber: "alive", "dying" (in ~Grabber) or "dead"
    owner,       \* the application still holds its shared_ptr<Grabber>
    pins,        \* the servers whose accept handler holds one (gr)
    dtorIn,      \* the server in whose accept handler ~Grabber runs, if any
    unsignalled, \* servers ~Grabber's terminate_() has not called yet
    captures,    \* captures_
    server,      \* "none", "opening" (start() has not accepted yet), "live", "freed"
    accept,      \* the accept operation and its handler, see AcceptStates
    timer,       \* the wait on tmrAccept_: "none", "armed", "expired", "aborted"
    finish,      \* finish_ is connected to the Connection's signal
    count,       \* count_
    conn,        \* the Connection: "none", "live", "gone"
    ctimer,      \* the wait on tmrCapture_: "none", "armed", "aborted"
    reading,     \* a read is outstanding
    sock,        \* the Connection's socket is open
    arrivals,    \* clients that connected to the port so far
    made,        \* history: Connections created on the port
    missed       \* history: a cancel() came while the accept handler was on
                 \* its way, and so cancelled nothing

gvars == <<limit, grabber, owner, pins, dtorIn, unsignalled, captures>>
svars == <<server, accept, timer, finish, count, arrivals, missed>>
cvars == <<conn, ctimer, reading, sock, made>>
vars == <<gvars, svars, cvars>>

\* "ready": a client was accepted and the handler is queued; then the handler
\* is past grabber() ("run"), past connection->start() ("made"), out of the
\* try block ("leave"), or about to call accept() again ("rearm").
AcceptStates == {"none", "armed", "ready", "run", "made", "leave", "rearm", "aborted"}

\* The states in which cancel() is too late for the current operation and too
\* early for the next one.
InHandler == {"ready", "run", "made", "leave", "rearm"}

Init ==
    /\ limit \in Limits
    /\ grabber = "alive"
    /\ owner = TRUE
    /\ pins = {}
    /\ dtorIn = {}
    /\ unsignalled = {}
    /\ captures = 0
    /\ server = [s \in Server |-> "none"]
    /\ accept = [s \in Server |-> "none"]
    /\ timer = [s \in Server |-> "none"]
    /\ finish = [s \in Server |-> FALSE]
    /\ count = [s \in Server |-> 0]
    /\ conn = [s \in Server |-> "none"]
    /\ ctimer = [s \in Server |-> "none"]
    /\ reading = [s \in Server |-> FALSE]
    /\ sock = [s \in Server |-> FALSE]
    /\ arrivals = [s \in Server |-> 0]
    /\ made = [s \in Server |-> 0]
    /\ missed = [s \in Server |-> FALSE]

Live(s) == server[s] \in {"opening", "live"}

-----------------------------------------------------------------------------
(* The pieces handlers are made of.                                        *)

\* Server::stopAcceptTimer: destroying the timer aborts its wait, unless the
\* wait is over and its handler queued.
StopAcceptTimer(s) ==
    timer' = [timer EXCEPT ![s] = IF @ = "armed" THEN "aborted" ELSE @]

\* ServerTCP::cancel: abort the outstanding accept, if there is one.
Cancel(s) ==
    /\ accept' = [accept EXCEPT ![s] = IF @ = "armed" THEN "aborted" ELSE @]
    /\ missed' = [missed EXCEPT ![s] =
                     @ \/ accept[s] \in InHandler \/ server[s] = "opening"]

\* ~Grabber begins: terminate_() is about to call the slot of every server.
BeginDestroyGrabber ==
    /\ grabber' = "dying"
    /\ unsignalled' = {s \in Server : Live(s)}

-----------------------------------------------------------------------------
(* Grabber.                                                                *)

\* Seeded fault: the limit is tested for one server too many.
BugOpenOneMore(s) ==
    /\ owner
    /\ server[s] = "none"
    /\ captures <= limit
    /\ captures' = captures + 1
    /\ server' = [server EXCEPT ![s] = "opening"]
    /\ timer' = [timer EXCEPT ![s] = "armed"]
    /\ UNCHANGED <<limit, grabber, owner, pins, dtorIn, unsignalled>>
    /\ UNCHANGED <<accept, finish, count, arrivals, missed, cvars>>

\* Grabber::open up to the end of Server::wait: below the limit, create the
\* server (its constructor binds the port and connects to terminate_), count
\* it and start the accept timer.  An exception on the way changes nothing.
Open(s) ==
    /\ owner
    /\ server[s] = "none"
    /\ captures < limit
    /\ captures' = captures + 1
    /\ server' = [server EXCEPT ![s] = "opening"]
    /\ timer' = [timer EXCEPT ![s] = "armed"]
    /\ UNCHANGED <<limit, grabber, owner, pins, dtorIn, unsignalled>>
    /\ UNCHANGED <<accept, finish, count, arrivals, missed, cvars>>

\* The rest of Grabber::open: Server::start calls accept().
OpenAccept(s) ==
    /\ server[s] = "opening"
    /\ server' = [server EXCEPT ![s] = "live"]
    /\ accept' = [accept EXCEPT ![s] = "armed"]
    /\ UNCHANGED <<gvars, timer, finish, count, arrivals, missed, cvars>>

\* The application drops the Grabber (no call to open() is running).  Unless
\* an accept handler holds a reference, ~Grabber runs on the owner's thread.
DropOwner ==
    /\ owner
    /\ \A s \in Server : server[s] # "opening"
    /\ owner' = FALSE
    /\ IF pins = {}
       THEN BeginDestroyGrabber
       ELSE UNCHANGED <<grabber, unsignalled>>
    /\ UNCHANGED <<limit, pins, dtorIn, captures, svars, cvars>>

\* Seeded fault: the termination slot does not cancel the listener.
BugSignalNoCancel(s) ==
    /\ s \in unsignalled
    /\ unsignalled' = unsignalled \ {s}
    /\ StopAcceptTimer(s)
    /\ UNCHANGED <<limit, grabber, owner, pins, dtorIn, captures>>
    /\ UNCHANGED <<server, accept, finish, count, arrivals, missed, cvars>>

\* terminate_() calls the next slot: Server::connect's lambda.
Signal(s) ==
    /\ s \in unsignalled
    /\ unsignalled' = unsignalled \ {s}
    /\ StopAcceptTimer(s)
    /\ Cancel(s)
    /\ UNCHANGED <<limit, grabber, owner, pins, dtorIn, captures>>
    /\ UNCHANGED <<server, finish, count, arrivals, cvars>>

\* Seeded fault: ~Grabber does not wait for its servers.
BugShutdownNoWait ==
    /\ grabber = "dying"
    /\ unsignalled = {}
    /\ grabber' = "dead"
    /\ UNCHANGED <<limit, owner, pins, dtorIn, unsignalled, captures, svars, cvars>>

\* Grabber::shutdown returns once captures_ is 0, and the Grabber is gone.
ShutdownDone ==
    /\ grabber = "dying"
    /\ unsignalled = {}
    /\ captures = 0
    /\ grabber' = "dead"
    /\ UNCHANGED <<limit, owner, pins, dtorIn, unsignalled, captures, svars, cvars>>

-----------------------------------------------------------------------------
(* Accepting a client.                                                     *)

\* A client connects (the accept completes; its handler is queued).
Arrive(s) ==
    /\ accept[s] = "armed"
    /\ arrivals[s] < MaxArrivals[s]
    /\ arrivals' = [arrivals EXCEPT ![s] = @ + 1]
    /\ accept' = [accept EXCEPT ![s] = "ready"]
    /\ UNCHANGED <<gvars, server, timer, finish, count, missed, cvars>>

\* sockets::tcp::Server::accept's handler for a failed or aborted accept, or
\* for an exception out of the callback (remote_endpoint() of a client that
\* is gone already): log it.  Nothing calls accept() again.
AcceptEnds(s) ==
    /\ accept[s] \in {"armed", "ready", "aborted"}
    /\ accept' = [accept EXCEPT ![s] = "none"]
    /\ UNCHANGED <<gvars, server, timer, finish, count, arrivals, missed, cvars>>

\* The callback turns the client away: the port has had its connection, or
\* the Grabber is no longer available.
Reject(s) ==
    /\ accept[s] = "ready"
    /\ count[s] # 0 \/ grabber # "alive"
    /\ accept' = [accept EXCEPT ![s] = "rearm"]
    /\ UNCHANGED <<gvars, server, timer, finish, count, arrivals, missed, cvars>>

\* The callback locks its weak reference to the Grabber.
Enter(s) ==
    /\ accept[s] = "ready"
    /\ count[s] = 0
    /\ grabber = "alive"
    /\ pins' = pins \cup {s}
    /\ accept' = [accept EXCEPT ![s] = "run"]
    /\ UNCHANGED <<limit, grabber, owner, dtorIn, unsignalled, captures>>
    /\ UNCHANGED <<server, timer, finish, count, arrivals, missed, cvars>>

\* Grabber::sniffer throws; the callback logs it.
SnifferFails(s) ==
    /\ accept[s] = "run"
    /\ accept' = [accept EXCEPT ![s] = "leave"]
    /\ UNCHANGED <<gvars, server, timer, finish, count, arrivals, missed, cvars>>

\* Connection's constructor, on the socket of the client.
NewConnection(s) ==
    /\ conn' = [conn EXCEPT ![s] = "live"]
    /\ sock' = [sock EXCEPT ![s] = TRUE]
    /\ made' = [made EXCEPT ![s] = @ + 1]

\* Connection::start: the capture timer and the first read.
StartConnection(s) ==
    /\ ctimer' = [ctimer EXCEPT ![s] = "armed"]
    /\ reading' = [reading EXCEPT ![s] = TRUE]

\* Create the Connection, connectOnFinish() and Connection::start.
Create(s) ==
    /\ accept[s] = "run"
    /\ accept' = [accept EXCEPT ![s] = "made"]
    /\ NewConnection(s)
    /\ finish' = [finish EXCEPT ![s] = TRUE]
    /\ StartConnection(s)
    /\ UNCHANGED <<gvars, server, timer, count, arrivals, missed>>

\* stopAcceptTimer(), ++count_, and the local shared_ptr goes out of scope.
Settle(s) ==
    /\ accept[s] = "made"
    /\ StopAcceptTimer(s)
    /\ count' = [count EXCEPT ![s] = @ + 1]
    /\ accept' = [accept EXCEPT ![s] = "leave"]
    /\ UNCHANGED <<gvars, server, finish, arrivals, missed, cvars>>

\* gr goes out of scope.  If the owner is gone and no other handler holds the
\* Grabber, ~Grabber runs here, inside the accept handler.
ReleaseGrabber(s) ==
    /\ accept[s] = "leave"
    /\ accept' = [accept EXCEPT ![s] = "rearm"]
    /\ pins' = pins \ {s}
    /\ IF ~owner /\ pins' = {}
       THEN BeginDestroyGrabber /\ dtorIn' = {s}
       ELSE UNCHANGED <<grabber, unsignalled, dtorIn>>
    /\ UNCHANGED <<limit, owner, captures>>
    /\ UNCHANGED <<server, timer, finish, count, arrivals, missed, cvars>>

\* The callback's last statement: accept() again, whatever happened before.
Rearm(s) ==
    /\ accept[s] = "rearm"
    /\ s \in dtorIn => grabber = "dead"
    /\ accept' = [accept EXCEPT ![s] = "armed"]
    /\ UNCHANGED <<gvars, server, timer, finish, count, arrivals, missed, cvars>>

-----------------------------------------------------------------------------
(* The accept timer.                                                       *)

TimerExpires(s) ==
    /\ timer[s] = "armed"
    /\ timer' = [timer EXCEPT ![s] = "expired"]
    /\ UNCHANGED <<gvars, server, accept, finish, count, arrivals, missed, cvars>>

\* Seeded fault: the timer's handler does not cancel the listener.
BugTimerHandlerNoCancel(s) ==
    /\ timer[s] = "expired"
    /\ timer' = [timer EXCEPT ![s] = "none"]
    /\ UNCHANGED <<gvars, server, accept, finish, count, arrivals, missed, cvars>>

\* The handler of Server::wait.  stopAcceptTimer() finds no wait to abort.
TimerHandler(s) ==
    /\ timer[s] = "expired"
    /\ timer' = [timer EXCEPT ![s] = "none"]
    /\ Cancel(s)
    /\ UNCHANGED <<gvars, server, finish, count, arrivals, cvars>>

TimerAborted(s) ==
    /\ timer[s] = "aborted"
    /\ timer' = [timer EXCEPT ![s] = "none"]
    /\ UNCHANGED <<gvars, server, accept, finish, count, arrivals, missed, cvars>>

-----------------------------------------------------------------------------
(* Connection.                                                             *)

\* The capture period is over: close the socket.
CaptureTimeout(s) ==
    /\ ctimer[s] = "armed"
    /\ ctimer' = [ctimer EXCEPT ![s] = "none"]
    /\ sock' = [sock EXCEPT ![s] = FALSE]
    /\ UNCHANGED <<gvars, svars, conn, reading, made>>

CaptureTimerAborted(s) ==
    /\ ctimer[s] = "aborted"
    /\ ctimer' = [ctimer EXCEPT ![s] = "none"]
    /\ UNCHANGED <<gvars, svars, conn, reading, sock, made>>

\* The read fails (closed here, or the client is gone): cancel the capture
\* timer and let go.  Data that arrives is dropped and the read repeated.
ReadEnds(s) ==
    /\ reading[s]
    /\ reading' = [reading EXCEPT ![s] = FALSE]
    /\ ctimer' = [ctimer EXCEPT ![s] = IF @ = "armed" THEN "aborted" ELSE @]
    /\ UNCHANGED <<gvars, svars, conn, sock, made>>

\* Seeded fault: the end of the capture is not signalled to the server.
BugDestroyConnectionSilent(s) ==
    /\ conn[s] = "live"
    /\ accept[s] # "made" /\ ctimer[s] = "none" /\ ~reading[s]
    /\ conn' = [conn EXCEPT ![s] = "gone"]
    /\ sock' = [sock EXCEPT ![s] = FALSE]
    /\ UNCHANGED <<gvars, svars, ctimer, reading, made>>

\* ~Connection: terminate_() calls the finish slot of the server.
DestroyConnection(s) ==
    /\ conn[s] = "live"
    /\ accept[s] # "made" /\ ctimer[s] = "none" /\ ~reading[s]
    /\ conn' = [conn EXCEPT ![s] = "gone"]
    /\ sock' = [sock EXCEPT ![s] = FALSE]
    /\ \/ /\ finish[s]
          /\ finish' = [finish EXCEPT ![s] = FALSE]
          /\ StopAcceptTimer(s)
          /\ Cancel(s)
       \/ /\ ~finish[s]
          /\ UNCHANGED <<finish, timer, accept, missed>>
    /\ UNCHANGED <<gvars, server, count, arrivals, ctimer, reading, made>>

\* The slot of a Connection on its server's signal: cancel and close.
StopConnection(s) ==
    /\ ctimer' = [ctimer EXCEPT ![s] = IF @ = "armed" THEN "aborted" ELSE @]
    /\ sock' = [sock EXCEPT ![s] = FALSE]

\* ~Server, once neither the accept nor the timer refers to it: disconnect
\* both slots; terminate_() takes the server off captures_ and makes a
\* Connection that is still there cancel its timer and close its socket.
DestroyServer(s) ==
    /\ server[s] = "live"
    /\ accept[s] = "none" /\ timer[s] = "none"
    /\ server' = [server EXCEPT ![s] = "freed"]
    /\ finish' = [finish EXCEPT ![s] = FALSE]
    /\ unsignalled' = unsignalled \ {s}
    /\ captures' = captures - 1
    /\ StopConnection(s)
    /\ UNCHANGED <<limit, grabber, owner, pins, dtorIn>>
    /\ UNCHANGED <<accept, timer, count, arrivals, missed, conn, reading, made>>

-----------------------------------------------------------------------------
\* What a thread of the io_service does for server s once it can.
Handler(s) ==
    \/ AcceptEnds(s) \/ Reject(s) \/ Enter(s) \/ SnifferFails(s) \/ Create(s)
    \/ Settle(s) \/ ReleaseGrabber(s) \/ Rearm(s)

Timers(s) ==
    \/ TimerExpires(s) \/ TimerHandler(s) \/ TimerAborted(s)

Client(s) ==
    \/ CaptureTimeout(s) \/ CaptureTimerAborted(s) \/ ReadEnds(s)
    \/ DestroyConnection(s)

Next ==
    \/ \E s \in Server :
          \/ Open(s) \/ OpenAccept(s) \/ Signal(s) \/ Arrive(s) \/ Handler(s)
          \/ Timers(s) \/ Client(s) \/ DestroyServer(s)
    \/ DropOwner
    \/ ShutdownDone

Spec == Init /\ [][Next]_vars

\* The threads of the io_service run what is queued, timers expire, a closed
\* socket fails its read, and a thread inside a destructor or open() goes on.
\* Nothing makes a client connect, an accept fail or the owner let go.
Fairness ==
    /\ \A s \in Server :
          /\ WF_vars(OpenAccept(s))
          /\ WF_vars(Signal(s))
          /\ WF_vars(AcceptEnds(s) /\ accept[s] = "aborted")
          /\ WF_vars(Handler(s) /\ accept[s] \in InHandler)
          /\ WF_vars(Timers(s))
          /\ WF_vars(CaptureTimeout(s) \/ CaptureTimerAborted(s))
          /\ WF_vars(ReadEnds(s) /\ ~sock[s])
          /\ WF_vars(DestroyConnection(s))
          /\ WF_vars(DestroyServer(s))
    /\ WF_vars(ShutdownDone)

FairSpec == Spec /\ Fairness

-----------------------------------------------------------------------------
(* Properties.                                                             *)

\* Among the types: one port serves one capture, no second Connection is created
\* although count_ is raised only after the first one is running
\* (servertcp.cpp:50-68).
TypeOK ==
    /\ limit \in Limits
    /\ grabber \in {"alive", "dying", "dead"}
    /\ owner \in BOOLEAN
    /\ pins \subseteq Server
    /\ dtorIn \subseteq Server
    /\ unsignalled \subseteq Server
    /\ captures \in Nat
    /\ server \in [Server -> {"none", "opening", "live", "freed"}]
    /\ accept \in [Server -> AcceptStates]
    /\ timer \in [Server -> {"none", "armed", "expired", "aborted"}]
    /\ finish \in [Server -> BOOLEAN]
    /\ count \in [Server -> Nat]
    /\ conn \in [Server -> {"none", "live", "gone"}]
    /\ ctimer \in [Server -> {"none", "armed", "aborted"}]
    /\ reading \in [Server -> BOOLEAN]
    /\ sock \in [Server -> BOOLEAN]
    /\ arrivals \in [Server -> Nat]
    /\ made \in [Server -> 0..1]
    /\ missed \in [Server -> BOOLEAN]

\* grabber.cpp:59-75.  captures_ counts exactly the servers that exist, and
\* never exceeds the limit, however servers come and go on other threads.
CapturesExact ==
    /\ TypeOK
    /\ captures = Cardinality({s \in Server : Live(s)})
    /\ captures <= limit

\* grabber.cpp:18-23,119-125.  No server outlives the Grabber: its destructor
\* decrements captures_ of the Grabber, which ~Grabber must wait for.
NoServerOutlivesGrabber == grabber = "dead" => \A s \in Server : ~Live(s)

\* A server that will accept clients for ever: nothing is left that would
\* cancel its accept.
Stranded(s) ==
    /\ server[s] = "live"
    /\ accept[s] = "armed"
    /\ timer[s] \notin {"armed", "expired"}
    /\ ~(conn[s] = "live" /\ finish[s])
    /\ s \notin unsignalled

\* server.cpp:28-84 and servertcp.cpp:38-87.  A server is left behind in one
\* way only: a cancel() came while its accept handler was on its way.
StrandedOnlyByMissedCancel == \A s \in Server : Stranded(s) => missed[s]

\* server.cpp:48-84 and connection.cpp:65-99.  Every server that is opened
\* goes away again by itself (accept timeout, or end of the capture), unless
\* it was stranded by a missed cancel() or runs ~Grabber in its handler.
Released ==
    \A s \in Server :
        Live(s) ~> (server[s] = "freed" \/ (Stranded(s) /\ missed[s]) \/ s \in dtorIn)

\* grabber.cpp:18-23,119-125.  ~Grabber terminates, unless a server is
\* stranded, or the destructor runs inside the accept handler of a server
\* that it waits for.
ShutdownEnds ==
    grabber = "dying" ~>
        \/ grabber = "dead"
        \/ dtorIn # {}
        \/ \E s \in Server : Stranded(s) /\ missed[s]

\* servertcp.cpp:79-80 says that the server goes on accepting "to hold the TCP
\* port in the system": while a capture runs, the port is held.
PortHeld ==
    \A s \in Server :
        conn[s] = "live" /\ sock[s] /\ grabber = "alive"
            => accept[s] \in InHandler \cup {"armed"}
=============================================================================
