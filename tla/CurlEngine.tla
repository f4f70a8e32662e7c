----------------------------- MODULE CurlEngine -----------------------------
(***************************************************************************)
(* curl::Engine and the timers of curl::Service, around the sockets of     *)
(* CurlSocket.                                                             *)
(*                                                                         *)
(* The worker thread of the engine runs the io_service.  libcurl asks for  *)
(* a call at a later time through setTimer(), from process(), from timer() *)
(* and on the threads that attach and detach transfers.  The pinger is a   *)
(* timer that rearms itself for ever.  The destructor of the engine        *)
(* cancels the pinger and then joins the worker, whose run() returns when  *)
(* nothing is outstanding any more.                                        *)
(***************************************************************************)
EXTENDS CurlSocket

CONSTANT MaxTransfers    \* bound: transfers attached

ASSUME CurlEngineAssumption == MaxTransfers \in Nat

VARIABLES
    engine,      \* "up"; then ~Engine: "joining", "joined"; "hung" instead of
                 \* "joining" when stop() has missed the pinger
    pinger,      \* "unset" (pingerset_ is false), "armed", "expired", "off"
    timer,       \* timer_: "off", "armed", "expired" (its handler is queued)
    phase,       \* of process(): "action", "cancel" (no transfers left), "slipped"
                 \* (none left then, but one has been attached since), "done"
    transfers,   \* the transfers libcurl runs
    attached,    \* how many were attached so far
    wanted,      \* libcurl waits for the timer it asked for last
    cut          \* history: that timer was cancelled with a transfer that slipped in

timers == <<pinger, timer, wanted, cut>>
own == <<engine, phase, transfers, attached>>
evars == <<vars, timers, own>>

EInit ==
    /\ Init
    /\ engine = "up"
    /\ pinger = "unset"
    /\ timer = "off"
    /\ phase = "done"
    /\ transfers = 0
    /\ attached = 0
    /\ wanted = FALSE
    /\ cut = FALSE

-----------------------------------------------------------------------------
(* The timers.                                                             *)

\* setTimer(ms): "now" (0) calls libcurl at once, "never" (-1) only cancels.
SetTimer(ms) ==
    /\ pinger' = IF pinger = "unset" THEN "armed" ELSE pinger
    /\ engine' = IF pinger = "unset" /\ engine = "joining" THEN "hung" ELSE engine
    /\ timer' = IF ms = "later" THEN "armed" ELSE "off"
    /\ wanted' = (ms = "later")
    /\ cut' = FALSE

\* libcurl changes its mind about the timer, in any of its calls.
Retime(ms) ==
    /\ transfers > 0
    /\ SetTimer(ms)
    /\ UNCHANGED <<vars, phase, transfers, attached>>

TimerExpires ==
    /\ timer = "armed"
    /\ timer' = "expired"
    /\ UNCHANGED <<vars, own, pinger, wanted, cut>>

\* The handler of timer_: timer() calls libcurl.  (The handler of a wait that
\* had expired when it was cancelled calls libcurl too, too early and to no
\* effect; it is left out.)
OnTimer ==
    /\ handler = NoHandler
    /\ timer = "expired"
    /\ timer' = "off"
    /\ wanted' = FALSE
    /\ UNCHANGED <<vars, own, pinger, cut>>

PingerExpires ==
    /\ pinger = "armed"
    /\ pinger' = "expired"
    /\ UNCHANGED <<vars, own, timer, wanted, cut>>

\* pinger(): the handler arms the next wait.
OnPinger ==
    /\ handler = NoHandler /\ pinger = "expired"
    /\ pinger' = "armed"
    /\ UNCHANGED <<vars, own, timer, wanted, cut>>

-----------------------------------------------------------------------------
(* Transfers.                                                              *)

\* attach(), on any thread: libcurl asks for its timer to start the transfer.
Attach(ms) ==
    /\ attached < MaxTransfers
    /\ transfers' = transfers + 1
    /\ attached' = attached + 1
    /\ phase' = IF phase = "cancel" THEN "slipped" ELSE phase
    /\ SetTimer(ms)
    /\ UNCHANGED vars

\* A transfer ends, or is detached.  Without transfers libcurl needs no timer.
Detach ==
    /\ transfers > 0
    /\ transfers' = transfers - 1
    /\ wanted' = (wanted /\ transfers' > 0)
    /\ cut' = (cut /\ transfers' > 0)
    /\ UNCHANGED <<vars, pinger, timer, engine, phase, attached>>

\* The part of process() under mutex_: action() returns the running transfers.
ProcessAction ==
    /\ handler \in Processing /\ phase = "action"
    /\ phase' = IF transfers = 0 THEN "cancel" ELSE "done"
    /\ UNCHANGED <<vars, timers, engine, transfers, attached>>

\* Seeded fault: the timer is cancelled whenever a transfer has ended.
BugProcessCancels ==
    /\ handler \in Processing /\ phase # "done"
    /\ phase' = "done"
    /\ timer' = "off"
    /\ cut' = (cut \/ phase = "slipped")
    /\ UNCHANGED <<vars, pinger, wanted, engine, transfers, attached>>

\* The rest of it, without the lock: cancelTimer() when none was running.
ProcessCancel ==
    /\ handler \in Processing /\ phase \in {"cancel", "slipped"}
    /\ phase' = "done"
    /\ timer' = "off"
    /\ cut' = (cut \/ phase = "slipped")
    /\ UNCHANGED <<vars, pinger, wanted, engine, transfers, attached>>

-----------------------------------------------------------------------------
(* The sockets: libcurl opens and watches them for transfers; a handler    *)
(* goes through process() before it looks at its socket again.             *)

\* What process() still has to do, when a handler begins.
Begun == IF handler' \in Processing /\ handler = NoHandler THEN "action" ELSE phase

SocketStep ==
    /\ \/ \E s \in Sock :
            \/ transfers > 0 /\ Open(s)
            \/ transfers > 0 /\ \E what \in SUBSET Dir : ActionPoll(s, what)
            \/ ActionRemove(s)
            \/ Close(s)
            \/ \E d \in Dir : Ready(s, d)
       \/ HandlerRenew
    /\ UNCHANGED <<timers, own>>

SocketBegin ==
    /\ \E s \in Sock, d \in Dir, err \in BOOLEAN : HandlerBegin(s, d, err)
    /\ phase' = Begun
    /\ UNCHANGED <<timers, engine, transfers, attached>>

SocketCheck ==
    /\ phase = "done" /\ HandlerCheck
    /\ UNCHANGED <<timers, own>>

-----------------------------------------------------------------------------
(* The engine.                                                             *)

\* Seeded fault: stop() leaves the pinger alone.
BugStopService ==
    /\ engine = "up"
    /\ engine' = IF pinger = "expired" THEN "hung" ELSE "joining"
    /\ UNCHANGED <<vars, timers, phase, transfers, attached>>

\* ~Engine: service_->stop() cancels the pinger, if its wait is outstanding;
\* then work_.reset(), and the join begins.
StopService ==
    /\ engine = "up"
    /\ engine' = IF pinger = "expired" THEN "hung" ELSE "joining"
    /\ pinger' = IF pinger = "armed" THEN "off" ELSE pinger
    /\ UNCHANGED <<vars, timer, wanted, cut, phase, transfers, attached>>

\* run() returns when there is nothing left to run or to wait for.
Idle ==
    /\ handler = NoHandler
    /\ \A s \in Sock : waits[s] = Zero /\ queued[s] = Zero
    /\ pinger \in {"unset", "off"}
    /\ timer = "off"

Join ==
    /\ engine \in {"joining", "hung"} /\ Idle
    /\ engine' = "joined"
    /\ UNCHANGED <<vars, timers, phase, transfers, attached>>

\* The model ends when the worker is gone.
ENext == engine # "joined" /\
   (\/ SocketStep \/ SocketBegin \/ SocketCheck
    \/ \E ms \in {"never", "now", "later"} : Retime(ms)
    \/ \E ms \in {"now", "later"} : Attach(ms)
    \/ Detach \/ ProcessAction \/ ProcessCancel
    \/ TimerExpires \/ OnTimer \/ PingerExpires \/ OnPinger
    \/ StopService \/ Join)

\* The worker runs what is ready and timers expire; ~Engine goes on.  libcurl
\* ends its transfers (they have timeouts) and then watches nothing.
Worker == SocketBegin \/ SocketCheck \/ (HandlerRenew /\ UNCHANGED <<timers, own>>)
          \/ ProcessAction \/ ProcessCancel \/ OnTimer \/ OnPinger

ESpec ==
    /\ EInit /\ [][ENext]_evars
    /\ WF_evars(Worker)
    /\ WF_evars(TimerExpires) /\ WF_evars(PingerExpires)
    /\ WF_evars(Join)
    /\ WF_evars(Detach)
    /\ \A s \in Sock : WF_evars(transfers = 0 /\ ActionRemove(s) /\ UNCHANGED <<timers, own>>)

-----------------------------------------------------------------------------
(* Properties.                                                             *)

ETypeOK ==
    /\ engine \in {"up", "joining", "hung", "joined"}
    /\ pinger \in {"unset", "armed", "expired", "off"}
    /\ timer \in {"off", "armed", "expired"}
    /\ phase \in {"action", "cancel", "slipped", "done"}
    /\ transfers \in 0..MaxTransfers

\* multi.cpp:126-144 and service.cpp:50-77.  While libcurl runs transfers, the
\* timer it has asked for comes: it is armed or its handler is queued, whatever
\* was set, cancelled and expired before.  The exception is a transfer attached
\* on another thread after process() has found none running and before it
\* cancels the timer.
TimerKept ==
    /\ ETypeOK
    /\ wanted /\ ~cut => timer # "off"

\* engine.cpp:27-41.  The destructor of the engine returns, once libcurl has
\* ended its transfers -- unless the pinger was armed after stop() had cancelled
\* it (its wait had just expired, or the first transfer came later: it is armed
\* again and again from then on), or a handler watches a socket that another
\* thread has removed: then the worker always has something to wait for, and
\* the join never returns.
JoinReturns ==
    engine = "joining" ~> engine \in {"joined", "hung"} \/ raced # {}
=============================================================================
