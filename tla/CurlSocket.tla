------------------------------ MODULE CurlSocket ------------------------------
(***************************************************************************)
(* curl::Service: watching the sockets of libcurl with boost::asio.        *)
(*                                                                         *)
(* libcurl says which events it wants on a socket (action()), the service  *)
(* starts one asynchronous wait for each, and the handler of a wait tells  *)
(* libcurl about the event (process()) and waits again.  One thread runs   *)
(* the handlers, one after the other.  libcurl opens, changes and removes  *)
(* sockets from inside process(), from the timer, and on the threads that  *)
(* attach and detach transfers: mutex_ keeps these apart from one another, *)
(* but not from the rest of a handler.                                     *)
(***************************************************************************)
EXTENDS Naturals, FiniteSets

CONSTANTS
    Sock,        \* the sockets libcurl may open, once each
    MaxCalls,    \* bound: calls of action() for one socket
    NoHandler    \* stands for "no handler is running"

Dir == {"in", "out"}

VARIABLES
    state,       \* [Sock -> {"new", "open", "closed"}]; open: in sockets_
    assigned,    \* the sockets libcurl has our pointer for
    mask,        \* mask_ of each Socket
    waits,       \* waits[s][d]: outstanding waits
    queued,      \* queued[s][d]: waits that are over, handler not yet run
    handler,     \* the handler that is running
    wants,       \* what libcurl wants to know of each socket
    calls,       \* how often libcurl called action() to say so
    broken,      \* sockets on which a wait has failed
    raced        \* sockets another thread changed while a handler renewed them

vars == <<state, assigned, mask, waits, queued, handler, wants, calls,
          broken, raced>>

\* A handler: the wait that ended, whether it failed, the mask before
\* process() and, from HandlerCheck on, the mask after it.
Processing == [pc : {"process"}, sock : Sock, dir : Dir, err : BOOLEAN,
               prev : SUBSET Dir]
Renewing == [pc : {"renew"}, sock : Sock, dir : Dir, what : SUBSET Dir,
             prev : SUBSET Dir]

ASSUME CurlSocketAssumption ==
    /\ MaxCalls \in Nat
    /\ NoHandler \notin Processing \cup Renewing

Zero == [d \in Dir |-> 0]

Init ==
    /\ state = [s \in Sock |-> "new"]
    /\ assigned = {}
    /\ mask = [s \in Sock |-> {}]
    /\ waits = [s \in Sock |-> Zero]
    /\ queued = [s \in Sock |-> Zero]
    /\ handler = NoHandler
    /\ wants = [s \in Sock |-> {}]
    /\ calls = [s \in Sock |-> 0]
    /\ broken = {}
    /\ raced = {}

-----------------------------------------------------------------------------
\* Seeded fault: a wait is started only for events that were not wanted yet,
\* also by the handler of a wait that is over.
BugUpdateNew(s, what, prev) ==
    /\ mask' = [mask EXCEPT ![s] = what]
    /\ waits' = [waits EXCEPT ![s] =
          [d \in Dir |-> IF d \in what \ mask[s] THEN @[d] + 1 ELSE @[d]]]

\* Seeded fault: every event that is wanted is waited for once more.
BugUpdateAll(s, what, prev) ==
    /\ mask' = [mask EXCEPT ![s] = what]
    /\ waits' = [waits EXCEPT ![s] =
          [d \in Dir |-> IF d \in what THEN @[d] + 1 ELSE @[d]]]

\* Service::update: one more wait for each event that is in what and was not
\* in prev.
Update(s, what, prev) ==
    /\ mask' = [mask EXCEPT ![s] = what]
    /\ waits' = [waits EXCEPT ![s] =
          [d \in Dir |-> IF d \in what \ prev THEN @[d] + 1 ELSE @[d]]]

-----------------------------------------------------------------------------
(* What libcurl does.                                                      *)

\* A change of s between HandlerCheck and HandlerRenew is made by another
\* thread, and the handler does not know of it.
Changed(s) ==
    raced' = IF handler \in Renewing /\ handler.sock = s THEN raced \cup {s}
             ELSE raced

\* socket(): a new socket, put in sockets_.
Open(s) ==
    /\ state[s] = "new"
    /\ state' = [state EXCEPT ![s] = "open"]
    /\ UNCHANGED <<assigned, mask, waits, queued, handler, wants, calls,
                   broken, raced>>

\* action() with CURL_POLL_IN, _OUT or _INOUT: add() or update().
ActionPoll(s, what) ==
    /\ state[s] = "open"
    /\ calls[s] < MaxCalls
    /\ what # {}
    /\ assigned' = assigned \cup {s}
    /\ Update(s, what, IF s \in assigned THEN mask[s] ELSE {})
    /\ wants' = [wants EXCEPT ![s] = what]
    /\ calls' = [calls EXCEPT ![s] = @ + 1]
    /\ Changed(s)
    /\ UNCHANGED <<state, queued, handler, broken>>

\* action() with CURL_POLL_REMOVE: cancel all waits.  A wait that is over
\* already keeps its handler.  libcurl forgets our pointer.
ActionRemove(s) ==
    /\ s \in assigned
    /\ assigned' = assigned \ {s}
    /\ wants' = [wants EXCEPT ![s] = {}]
    /\ IF state[s] = "open" /\ mask[s] # {}
       THEN /\ mask' = [mask EXCEPT ![s] = {}]
            /\ waits' = [waits EXCEPT ![s] = Zero]
       ELSE UNCHANGED <<mask, waits>>
    /\ Changed(s)
    /\ UNCHANGED <<state, queued, handler, calls, broken>>

\* close(), after libcurl has removed the socket.
Close(s) ==
    /\ state[s] = "open"
    /\ wants[s] = {}
    /\ state' = [state EXCEPT ![s] = "closed"]
    /\ Changed(s)
    /\ UNCHANGED <<assigned, mask, waits, queued, handler, wants, calls, broken>>

-----------------------------------------------------------------------------
(* Handlers.                                                               *)

\* A wait is over; its handler is queued.
Ready(s, d) ==
    /\ waits[s][d] > 0
    /\ waits' = [waits EXCEPT ![s][d] = @ - 1]
    /\ queued' = [queued EXCEPT ![s][d] = @ + 1]
    /\ UNCHANGED <<state, assigned, mask, handler, wants, calls, broken, raced>>

\* The handler of update() up to process().
HandlerBegin(s, d, err) ==
    /\ handler = NoHandler
    /\ queued[s][d] > 0
    /\ queued' = [queued EXCEPT ![s][d] = @ - 1]
    /\ handler' = [pc |-> "process", sock |-> s, dir |-> d, err |-> err,
                   prev |-> mask[s]]
    /\ broken' = IF err THEN broken \cup {s} ELSE broken
    /\ UNCHANGED <<state, assigned, mask, waits, wants, calls, raced>>

\* Seeded fault: the wait is renewed without a look at the mask.
BugHandlerCheckBlind ==
    /\ handler \in Processing
    /\ handler' = IF ~handler.err /\ state[handler.sock] = "open"
                  THEN [pc |-> "renew", sock |-> handler.sock,
                        dir |-> handler.dir, prev |-> handler.prev,
                        what |-> mask[handler.sock] \cup {handler.dir}]
                  ELSE NoHandler
    /\ UNCHANGED <<state, assigned, mask, waits, queued, wants, calls, broken,
                   raced>>

\* After process(): is the socket still there and still wanted?
HandlerCheck ==
    /\ handler \in Processing
    /\ handler' = IF /\ ~handler.err
                     /\ state[handler.sock] = "open"
                     /\ mask[handler.sock] # {}
                  THEN [pc |-> "renew", sock |-> handler.sock,
                        dir |-> handler.dir, prev |-> handler.prev,
                        what |-> mask[handler.sock]]
                  ELSE NoHandler
    /\ UNCHANGED <<state, assigned, mask, waits, queued, wants, calls, broken,
                   raced>>

\* update() by the handler: wait again, for what the check found, except for
\* the events that were waited for before and have not happened.
HandlerRenew ==
    /\ handler \in Renewing
    /\ handler' = NoHandler
    /\ Update(handler.sock, handler.what, handler.prev \ {handler.dir})
    /\ UNCHANGED <<state, assigned, queued, wants, calls, broken, raced>>

Next ==
    \/ \E s \in Sock :
          \/ Open(s) \/ ActionRemove(s) \/ Close(s)
          \/ \E what \in SUBSET Dir : ActionPoll(s, what)
          \/ \E d \in Dir : \/ Ready(s, d)
                            \/ \E err \in BOOLEAN : HandlerBegin(s, d, err)
    \/ HandlerCheck
    \/ HandlerRenew

Spec == Init /\ [][Next]_vars

-----------------------------------------------------------------------------
(* Properties.                                                             *)

TypeOK ==
    /\ state \in [Sock -> {"new", "open", "closed"}]
    /\ assigned \subseteq Sock
    /\ mask \in [Sock -> SUBSET Dir]
    /\ waits \in [Sock -> [Dir -> Nat]]
    /\ queued \in [Sock -> [Dir -> Nat]]
    /\ handler \in Processing \cup Renewing \cup {NoHandler}
    /\ wants \in [Sock -> SUBSET Dir]
    /\ calls \in [Sock -> 0..MaxCalls]
    /\ broken \subseteq Sock
    /\ raced \subseteq Sock

\* A handler that will wait again for d.
WillRenew(s, d) ==
    /\ handler \in Processing \cup Renewing
    /\ handler.sock = s
    /\ handler.dir = d
    /\ handler.pc = "process" => ~handler.err
    /\ handler.pc = "renew" => d \in handler.what

\* service.cpp:79-196.  No event libcurl wants to know of is forgotten: it is
\* waited for, or its handler is on its way, or the handler is running and
\* will wait again, unless a wait on the socket has failed or another thread
\* changed the socket while a handler renewed its waits.  This must hold
\* whatever libcurl changes while the handler is inside process().
Watched ==
    /\ TypeOK
    /\ \A s \in Sock \ (broken \cup raced) : \A d \in wants[s] :
          waits[s][d] + queued[s][d] > 0 \/ WillRenew(s, d)

\* service.cpp:103-112,173-178.  Nothing is waited for on a socket libcurl has
\* removed: a wait keeps the socket open.  Same exception.
RemovedIsQuiet == \A s \in Sock \ raced : wants[s] = {} => waits[s] = Zero

\* service.cpp:177-191.  The handler may start a wait that action() has just
\* started, so that an event is waited for twice, but the waits do not
\* multiply by themselves: a call of action() adds two at most.
ExtraWaitsBounded ==
    \A s \in Sock : \A d \in Dir : waits[s][d] + queued[s][d] <= 2 * calls[s]

\* service.cpp:173-176.  "continue monitoring if: 1. no errors and 2. socket is
\* not closed 3. no CURL_POLL_REMOVE": a step of a handler never starts a wait
\* on a socket that libcurl has removed.  Does not hold when a transfer is
\* detached on another thread between the check and update().
MonitorsOnlyWanted ==
    [][\A s \in Sock : wants[s] = {} /\ wants'[s] = {}
            => \A d \in Dir : waits'[s][d] <= waits[s][d]]_vars
=============================================================================
