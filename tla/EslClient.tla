------------------------------ MODULE EslClient ------------------------------
(***************************************************************************)
(* esl::Client: the poll loop that keeps a connection to FreeSWITCH, and   *)
(* the calls applications make while it runs.                              *)
(*                                                                         *)
(* Each start() posts one more poll() to the io_service, which has several *)
(* threads; the loop runs until it sees stopped_.  The ESL handle is       *)
(* shared by the loop and send(), under mtxsend_ except in recv().  What   *)
(* libesl does with the handle is known from how it is used: its calls may *)
(* fail, and may or may not leave `connected' set when they do.            *)
(***************************************************************************)
EXTENDS Naturals

CONSTANTS
    MaxStarts,    \* bound: calls of start()
    MaxConnects,  \* bound: connections FreeSWITCH accepts
    Event         \* event names

ASSUME EslClientAssumption ==
    /\ MaxStarts \in Nat
    /\ MaxConnects \in Nat

Loop == 1..MaxStarts

VARIABLES
    stopped,      \* stopped_
    starts,       \* how often start() was called with success
    pc,           \* where each poll loop is, see PcStates
    lock,         \* the loops that hold mtxsend_
    connected,    \* handle()->connected
    mask,         \* eventmask_
    asked,        \* asked[l]: the mask given to the l-th start()
    subscribed,   \* the events FreeSWITCH sends on the current connection
    refused,      \* FreeSWITCH refused the last subscription
    connects,     \* connections made so far
    told,         \* the last notification: "connect" or "disconnect"
    turn,         \* changes with each notification
    dropped,      \* history: since the last "connect", send() broke a
                  \* connection that a loop had left,
    unclosed,     \* esl_disconnect failed, or
    zeroed,       \* connect() zeroed a handle that was connected
    kept,         \* history: recv() gave up on a handle that was connected
    overlapped    \* history: two loops have run at the same time

vars == <<stopped, starts, pc, lock, connected, mask, asked, subscribed, refused,
          connects, told, turn, dropped, unclosed, zeroed, kept, overlapped>>

\* start() before ("started") and after ("masked") eventMask(), the posted
\* poll() ("queued"), the test of stopped_, connect() before and under
\* mtxsend_, the test of connected, subscribe(), recv(), the wait after a
\* failed attempt, and disconnect() after the loop.
PcStates == {"none", "started", "masked", "queued", "test", "lock", "connecting",
             "check", "subscribe", "recv", "wait", "leaving", "done"}

Init ==
    /\ stopped = TRUE
    /\ starts = 0
    /\ pc = [l \in Loop |-> "none"]
    /\ lock = {}
    /\ connected = FALSE
    /\ mask = {}
    /\ asked = [l \in Loop |-> {}]
    /\ subscribed = {}
    /\ refused = FALSE
    /\ connects = 0
    /\ told = "disconnect"
    /\ turn = FALSE
    /\ dropped = FALSE
    /\ unclosed = FALSE
    /\ zeroed = FALSE
    /\ kept = FALSE
    /\ overlapped = FALSE

nvars == <<told, turn>>
evars == <<dropped, unclosed, zeroed>>
hvars == <<evars, kept, overlapped>>

\* The loops a thread is in poll() for.
Polling == {l \in Loop : pc[l] \notin {"none", "started", "masked", "queued", "done"}}

\* The signal fonconnect_ or fondisconnect_.
Notify(what) ==
    /\ told' = what
    /\ turn' = ~turn

Goto(l, from, to) ==
    /\ pc[l] = from
    /\ pc' = [pc EXCEPT ![l] = to]

-----------------------------------------------------------------------------
(* The application.                                                        *)

\* start(): stopped_.exchange(false); a second start() only logs.
Start(evts) ==
    /\ stopped
    /\ starts < MaxStarts
    /\ stopped' = FALSE
    /\ starts' = starts + 1
    /\ pc' = [pc EXCEPT ![starts'] = "started"]
    /\ asked' = [asked EXCEPT ![starts'] = evts]
    /\ UNCHANGED <<lock, connected, mask, subscribed, refused, connects, nvars, hvars>>

\* start() calls eventMask(), which adds to what was asked for before.
StartMask(l) ==
    /\ Goto(l, "started", "masked")
    /\ mask' = mask \cup asked[l]
    /\ UNCHANGED <<stopped, starts, lock, connected, asked, subscribed, refused,
                   connects, nvars, hvars>>

\* Seeded fault: no second loop is posted while one is running.
BugStartPostOnce(l) ==
    /\ Goto(l, "masked", IF \E k \in Loop \ {l} : pc[k] \notin {"none", "done"}
                         THEN "done" ELSE "queued")
    /\ UNCHANGED <<stopped, starts, lock, connected, mask, asked, subscribed,
                   refused, connects, nvars, hvars>>

\* start() posts poll().
StartPost(l) ==
    /\ Goto(l, "masked", "queued")
    /\ UNCHANGED <<stopped, starts, lock, connected, mask, asked, subscribed,
                   refused, connects, nvars, hvars>>

\* stop(): nothing but the flag.
Stop ==
    /\ ~stopped
    /\ stopped' = TRUE
    /\ UNCHANGED <<starts, pc, lock, connected, mask, asked, subscribed, refused,
                   connects, nvars, hvars>>

\* send() throws without a connection.  With one, it may find out that the
\* connection is broken.
Send ==
    /\ lock = {}
    /\ connected
    /\ connected' = FALSE
    /\ dropped' = (dropped \/ \E l \in Loop : pc[l] \in {"test", "lock", "leaving"})
    /\ UNCHANGED <<stopped, starts, pc, lock, mask, asked, subscribed, refused,
                   connects, nvars, unclosed, zeroed, kept, overlapped>>

-----------------------------------------------------------------------------
(* Client::poll.                                                           *)

\* A thread of the io_service takes the posted poll().
PollBegin(l) ==
    /\ Goto(l, "queued", "test")
    /\ overlapped' = (overlapped \/ Polling # {})
    /\ UNCHANGED <<stopped, starts, lock, connected, mask, asked, subscribed,
                   refused, connects, nvars, evars, kept>>

\* while(!stopped())
TestStopped(l) ==
    /\ Goto(l, "test", IF stopped THEN "leaving" ELSE "lock")
    /\ UNCHANGED <<stopped, starts, lock, connected, mask, asked, subscribed,
                   refused, connects, nvars, hvars>>

\* connect() takes mtxsend_ and zeroes the handle.
ConnectBegin(l) ==
    /\ lock = {}
    /\ Goto(l, "lock", "connecting")
    /\ lock' = {l}
    /\ connected' = FALSE
    /\ subscribed' = {}
    /\ zeroed' = (zeroed \/ connected)
    /\ kept' = FALSE
    /\ UNCHANGED <<stopped, starts, mask, asked, refused, connects, nvars,
                   dropped, unclosed, overlapped>>

\* esl_connect_timeout() succeeds.
ConnectOk(l) ==
    /\ Goto(l, "connecting", "check")
    /\ connects < MaxConnects
    /\ connects' = connects + 1
    /\ connected' = TRUE
    /\ lock' = {}
    /\ UNCHANGED <<stopped, starts, mask, asked, subscribed, refused, nvars, hvars>>

\* esl_connect_timeout() fails.
ConnectFails(l) ==
    /\ Goto(l, "connecting", "wait")
    /\ lock' = {}
    /\ UNCHANGED <<stopped, starts, connected, mask, asked, subscribed, refused,
                   connects, nvars, hvars>>

\* The wait on cndstop_, which nobody notifies, times out.
WaitEnds(l) ==
    /\ Goto(l, "wait", "test")
    /\ UNCHANGED <<stopped, starts, lock, connected, mask, asked, subscribed,
                   refused, connects, nvars, hvars>>

\* handle()->connected, and onConnected() notifies the application.
Check(l) ==
    /\ pc[l] = "check"
    /\ pc' = [pc EXCEPT ![l] = IF connected THEN "subscribe" ELSE "wait"]
    /\ \/ /\ connected
          /\ Notify("connect")
          /\ dropped' = FALSE
          /\ unclosed' = FALSE
          /\ zeroed' = FALSE
          /\ UNCHANGED <<kept, overlapped>>
       \/ /\ ~connected
          /\ UNCHANGED <<nvars, hvars>>
    /\ UNCHANGED <<stopped, starts, lock, connected, mask, asked, subscribed,
                   refused, connects>>

\* subscribe(): FreeSWITCH may refuse, which is only logged.
Subscribe(l) ==
    /\ Goto(l, "subscribe", "recv")
    /\ \/ subscribed' = mask /\ refused' = FALSE
       \/ mask # {} /\ refused' = TRUE /\ UNCHANGED subscribed
    /\ UNCHANGED <<stopped, starts, lock, connected, mask, asked, connects,
                   nvars, hvars>>

-----------------------------------------------------------------------------
(* Client::recv.  Timeouts and events go round the loop without a change.  *)

\* What process() makes of an event: one that cannot be parsed, and one whose
\* slot throws, are logged and forgotten; a disconnect notice ends the loop.
EventKind == {"plain", "malformed", "slot throws", "disconnect notice"}
Process(kind) == kind # "disconnect notice"

\* esl_recv_event_timed() fails, or process() ends the loop.
RecvFails(l) ==
    /\ ~stopped
    /\ connected
    /\ Goto(l, "recv", "test")
    /\ \/ connected' \in BOOLEAN
       \/ \E kind \in EventKind : ~Process(kind) /\ UNCHANGED connected
    /\ kept' = connected'
    /\ Notify("disconnect")
    /\ UNCHANGED <<stopped, starts, lock, mask, asked, subscribed, refused,
                   connects, evars, overlapped>>

\* Seeded fault: recv() notifies whenever it ends.
BugRecvEndsTells(l) ==
    /\ stopped \/ ~connected
    /\ Goto(l, "recv", "test")
    /\ Notify("disconnect")
    /\ UNCHANGED <<stopped, starts, lock, connected, mask, asked, subscribed,
                   refused, connects, hvars>>

\* Seeded fault: recv() does not look at stopped_.
BugRecvEndsOnlyLost(l) ==
    /\ ~connected
    /\ Goto(l, "recv", "test")
    /\ Notify("disconnect")
    /\ UNCHANGED <<stopped, starts, lock, connected, mask, asked, subscribed,
                   refused, connects, hvars>>

\* The loop sees stopped_ or that the connection is gone (send() noticed, or
\* another loop has zeroed the handle).
RecvEnds(l) ==
    /\ stopped \/ ~connected
    /\ Goto(l, "recv", "test")
    /\ IF connected THEN UNCHANGED nvars ELSE Notify("disconnect")
    /\ UNCHANGED <<stopped, starts, lock, connected, mask, asked, subscribed,
                   refused, connects, hvars>>

\* disconnect() after the loop: close the handle if it is connected, notify
\* if that worked, and zero it.
Disconnect(l) ==
    /\ lock = {}
    /\ Goto(l, "leaving", "done")
    /\ \/ connected /\ Notify("disconnect") /\ UNCHANGED unclosed
       \/ connected /\ unclosed' = TRUE /\ UNCHANGED nvars
       \/ ~connected /\ UNCHANGED <<nvars, unclosed>>
    /\ connected' = FALSE
    /\ subscribed' = {}
    /\ UNCHANGED <<stopped, starts, lock, mask, asked, refused, connects, dropped, zeroed, kept,
                   overlapped>>

-----------------------------------------------------------------------------
\* What the thread that runs start() or poll() does next.
Step(l) ==
    \/ StartMask(l) \/ StartPost(l)
    \/ PollBegin(l) \/ TestStopped(l) \/ ConnectBegin(l) \/ ConnectOk(l)
    \/ ConnectFails(l) \/ WaitEnds(l) \/ Check(l) \/ Subscribe(l)
    \/ RecvFails(l) \/ RecvEnds(l) \/ Disconnect(l)

Next ==
    \/ \E evts \in SUBSET Event : Start(evts)
    \/ Stop
    \/ Send
    \/ \E l \in Loop : Step(l)

Spec == Init /\ [][Next]_vars

\* Threads go on, and every call a loop makes has a timeout; recv() need not
\* fail.
FairSpec ==
    /\ Spec
    /\ \A l \in Loop :
          /\ WF_vars(Step(l) /\ pc[l] # "recv")
          /\ WF_vars(RecvEnds(l))

-----------------------------------------------------------------------------
(* Properties.                                                             *)

TypeOK ==
    /\ {stopped, connected, refused, turn, dropped, unclosed, zeroed, kept, overlapped}
         \subseteq BOOLEAN
    /\ starts \in 0..MaxStarts
    /\ pc \in [Loop -> PcStates]
    /\ lock = {l \in Loop : pc[l] = "connecting"}
    /\ mask \subseteq Event
    /\ asked \in [Loop -> SUBSET Event]
    /\ subscribed \subseteq Event
    /\ connects \in 0..MaxConnects
    /\ told \in {"connect", "disconnect"}

\* The loops that will still look at stopped_.
Serving == {l \in Loop : pc[l] \notin {"none", "leaving", "done"}}

\* client.cpp:75-123.  A client that is started has a loop that serves it,
\* however stop() and start() fall between the tests of stopped_.
ServedWhileStarted == TypeOK /\ (~stopped => Serving # {})

\* Nothing is running.
AllEnded == \A l \in Loop : pc[l] \in {"none", "done"}

\* The last connection that was announced may be gone without notice.
Unannounced == unclosed \/ dropped \/ zeroed

\* client.cpp:144-176,271-315.  A connection that was announced is announced as
\* lost by the time the loops end, except in three cases: esl_disconnect fails,
\* send() breaks the connection when recv() has left it, or connect() zeroes it
\* (stop() and start() came before the loop looked at stopped_, or another loop
\* connects).  And as long as no two loops have run at the same time the
\* notifications alternate: a second "connect" in a row follows one of these
\* cases only, and a second "disconnect" one only: a disconnect notice or an
\* error ended recv() with the handle still connected, and the loop was stopped
\* before it connected again.  Of the order of the notifications of two loops at
\* the same time nothing is said: each tells what it sees of the shared handle.
NotificationsAlternate ==
    /\ [](AllEnded /\ told = "connect" => Unannounced)
    /\ [][~overlapped /\ turn' # turn /\ told' = told
              => IF told = "disconnect" THEN kept ELSE Unannounced]_vars

\* client.cpp:91-123.  After stop() every loop ends, unless start() is called
\* again: none waits for an event, a connection or another loop for ever.
StopEnds == stopped ~> (AllEnded \/ ~stopped)
=============================================================================
