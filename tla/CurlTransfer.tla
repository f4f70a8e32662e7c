----------------------------- MODULE CurlTransfer -----------------------------
(***************************************************************************)
(* curl::Transfer, JsonRPC and Synchro: one request, from exec() to the    *)
(* call of its handler and the end of the object.                          *)
(*                                                                         *)
(* A transfer lives as long as somebody holds it: the application, a       *)
(* handler that captured it, a libcurl callback, a posted done().  The     *)
(* thread that lets go last runs ~Transfer, which detaches the handle from *)
(* libcurl under the mutex of Multi.  A thread that drives libcurl holds   *)
(* this mutex: the worker, or an application thread inside attach(), from  *)
(* where libcurl calls setTimer(0) and so timer().                         *)
(***************************************************************************)
EXTENDS Naturals, FiniteSets

CONSTANTS
    Transfer,      \* the transfers
    UserHandler,   \* the transfers with a user read or write handler
    MaxExec,       \* bound: calls of exec() for each transfer
    MaxCallbacks,  \* bound: libcurl callbacks of each transfer
    None           \* no handler, no callback, nothing running

ASSUME CurlTransferAssumption ==
    /\ UserHandler \subseteq Transfer
    /\ MaxExec \in [Transfer -> Nat]
    /\ MaxCallbacks \in [Transfer -> Nat]

VARIABLES
    app,           \* what the application does with the transfer
    execs,         \* how often it called exec()
    done,          \* done_
    attached,      \* attached_
    easy,          \* the handle in libcurl
    callback,      \* the libcurl callback that is running; its thread has mutex_
    callbacks,     \* how many there were
    posted,        \* done() is posted to the io_service
    doing,         \* the done() that is running, on the worker
    life,          \* "dying": inside ~Transfer, not yet detached
    canceled,      \* canceled_
    code,          \* what libcurl reported
    successed,     \* successed_ of JsonRPC
    finished,      \* the exec() calls whose Synchro is finished
    answers,       \* how often a handler was called
    outcome,       \* how the last run(timeout) ended
    aborted        \* the program has ended in a destructor that threw

vars == <<app, execs, done, attached, easy, callback, callbacks, posted, doing,
          life, canceled, code, successed, finished, answers, outcome, aborted>>

\* A result handler: of which exec(), whether it captured the transfer, and
\* whether it is the one of run(timeout), which finishes a Synchro.
Handler == [exec : Nat, keep : BOOLEAN, sync : BOOLEAN]
Doing == [transfer : Transfer, pc : {"parse", "call", "reset"}]
Callback == [transfer : Transfer, ref : BOOLEAN]
Code == {"ok", "error", "aborted"}
How == {"finished", "spurious", "timeout"}
Outcome == [how : How, ok : BOOLEAN]

ASSUME NoneAssumption == None \notin Handler \cup Doing \cup Callback \cup Code \cup Outcome

Init ==
    /\ app = [t \in Transfer |-> "idle"]
    /\ execs = [t \in Transfer |-> 0]
    /\ done = [t \in Transfer |-> None]
    /\ attached = [t \in Transfer |-> FALSE]
    /\ easy = [t \in Transfer |-> "out"]
    /\ callback = None
    /\ callbacks = [t \in Transfer |-> 0]
    /\ posted = [t \in Transfer |-> FALSE]
    /\ doing = None
    /\ life = [t \in Transfer |-> "alive"]
    /\ canceled = [t \in Transfer |-> FALSE]
    /\ code = [t \in Transfer |-> None]
    /\ successed = [t \in Transfer |-> FALSE]
    /\ finished = [t \in Transfer |-> {}]
    /\ answers = [t \in Transfer |-> 0]
    /\ outcome = [t \in Transfer |-> None]
    /\ aborted = FALSE

-----------------------------------------------------------------------------
\* Somebody holds a shared_ptr to t.
Held(t) ==
    \/ app[t] # "gone"
    \/ done[t] # None /\ done[t].keep
    \/ callback # None /\ callback.transfer = t /\ callback.ref
    \/ posted[t]
    \/ doing # None /\ doing.transfer = t

\* A step of a program that goes on.
Running == ~aborted /\ UNCHANGED aborted

\* What happens to t in a step that may have let go of it.
Release(t) ==
    life' = [life EXCEPT ![t] = IF @ = "alive" /\ ~Held(t)' THEN "dying" ELSE @]

-----------------------------------------------------------------------------
(* The application.                                                        *)

\* Transfer::exec, or JsonRPC::run(timeout) when sync, up to attach().
Exec(t, keep, sync) ==
    /\ Running
    /\ app[t] = "idle"
    /\ execs[t] < MaxExec[t]
    /\ sync => ~keep /\ t \notin UserHandler
    /\ app' = [app EXCEPT ![t] = IF sync THEN "run" ELSE "exec"]
    /\ execs' = [execs EXCEPT ![t] = @ + 1]
    /\ done' = [done EXCEPT ![t] =
          [exec |-> execs[t] + 1, keep |-> keep, sync |-> sync]]
    /\ outcome' = [outcome EXCEPT ![t] = None]
    /\ UNCHANGED <<attached, easy, callback, callbacks, posted, doing, life,
                   canceled, code, successed, finished, answers>>

\* Transfer::attach: once in the life of a transfer.
Attach(t) ==
    /\ Running
    /\ app[t] \in {"exec", "run"}
    /\ attached[t] \/ callback = None
    /\ app' = [app EXCEPT ![t] = IF @ = "run" THEN "wait" ELSE "idle"]
    /\ attached' = [attached EXCEPT ![t] = TRUE]
    /\ easy' = [easy EXCEPT ![t] = IF attached[t] THEN @ ELSE "running"]
    /\ UNCHANGED <<execs, done, callback, callbacks, posted, doing, life,
                   canceled, code, successed, finished, answers, outcome>>

\* attach() throws: reset(), and exec() throws.
AttachFails(t) ==
    /\ Running
    /\ app[t] \in {"exec", "run"}
    /\ ~attached[t]
    /\ app' = [app EXCEPT ![t] = "idle"]
    /\ done' = [done EXCEPT ![t] = None]
    /\ UNCHANGED <<execs, attached, easy, callback, callbacks, posted, doing,
                   life, canceled, code, successed, finished, answers, outcome>>

\* Synchro::wait returns, and run() returns successed(): after finish(), on a
\* spurious wakeup of the condition, or on a timeout, which cancels.
WaitEnds(t, how) ==
    /\ Running
    /\ app[t] = "wait"
    /\ how = "finished" => execs[t] \in finished[t]
    /\ how = "timeout" => execs[t] \notin finished[t]
    /\ app' = [app EXCEPT ![t] = "idle"]
    /\ outcome' = [outcome EXCEPT ![t] = [how |-> how, ok |-> successed[t]]]
    /\ canceled' = [canceled EXCEPT ![t] = @ \/ how = "timeout"]
    /\ UNCHANGED <<execs, done, attached, easy, callback, callbacks, posted,
                   doing, life, code, successed, finished, answers>>

\* The application lets go of the transfer.
Drop(t) ==
    /\ Running
    /\ app[t] = "idle"
    /\ app' = [app EXCEPT ![t] = "gone"]
    /\ UNCHANGED <<execs, done, attached, easy, callback, callbacks, posted,
                   doing, canceled, code, successed, finished, answers, outcome>>
    /\ Release(t)

\* Seeded fault: the handle is removed without mutex_.
BugDetachUnlocked(t) ==
    /\ Running
    /\ life[t] = "dying"
    /\ life' = [life EXCEPT ![t] = "dead"]
    /\ attached' = [attached EXCEPT ![t] = FALSE]
    /\ easy' = [easy EXCEPT ![t] = "out"]
    /\ UNCHANGED <<app, execs, done, callback, callbacks, posted, doing, canceled,
                   code, successed, finished, answers, outcome>>

\* ~Transfer, on the thread that let go last: detach(), under mutex_.
Detach(t) ==
    /\ Running
    /\ life[t] = "dying"
    /\ attached[t] => callback = None
    /\ life' = [life EXCEPT ![t] = "dead"]
    /\ attached' = [attached EXCEPT ![t] = FALSE]
    /\ easy' = [easy EXCEPT ![t] = "out"]
    /\ UNCHANGED <<app, execs, done, callback, callbacks, posted, doing, canceled,
                   code, successed, finished, answers, outcome>>

-----------------------------------------------------------------------------
(* libcurl.                                                                *)

\* Easy::read_, write_ or progress_.  read() and write() hold the transfer
\* while a user's handler runs, unless it is dying (bad_weak_ptr is caught).
CallbackBegin(t, ref) ==
    /\ Running
    /\ callback = None
    /\ easy[t] = "running"
    /\ callbacks[t] < MaxCallbacks[t]
    /\ ref => t \in UserHandler /\ life[t] = "alive"
    /\ callback' = [transfer |-> t, ref |-> ref]
    /\ callbacks' = [callbacks EXCEPT ![t] = @ + 1]
    /\ UNCHANGED <<app, execs, done, attached, easy, posted, doing, life, canceled,
                   code, successed, finished, answers, outcome>>

\* The callback returns.  If it held the transfer last, ~Transfer runs here and
\* calls curl_multi_remove_handle from within the callback: libcurl refuses,
\* check_() throws, and an exception from a destructor ends the program.
CallbackEnd(t) ==
    /\ ~aborted
    /\ callback # None
    /\ callback.transfer = t
    /\ callback' = None
    /\ UNCHANGED <<app, execs, done, attached, easy, callbacks, posted, doing,
                   canceled, code, successed, finished, answers, outcome>>
    /\ Release(t)
    /\ aborted' = (life' # life)

\* libcurl is done with the transfer and queues a message.  A callback of a
\* canceled transfer makes it give up.
Complete(t, c) ==
    /\ Running
    /\ callback = None
    /\ easy[t] = "running"
    /\ c = "aborted" => canceled[t]
    /\ easy' = [easy EXCEPT ![t] = "completed"]
    /\ code' = [code EXCEPT ![t] = c]
    /\ UNCHANGED <<app, execs, done, attached, callback, callbacks, posted, doing,
                   life, canceled, successed, finished, answers, outcome>>

\* Multi::poll reads the message; Transfer::dispatch posts done(), unless the
\* transfer is dying (bad_weak_ptr is caught).
Dispatch(t) ==
    /\ Running
    /\ callback = None
    /\ easy[t] = "completed"
    /\ easy' = [easy EXCEPT ![t] = "reported"]
    /\ posted' = [posted EXCEPT ![t] = life[t] = "alive"]
    /\ UNCHANGED <<app, execs, done, attached, callback, callbacks, doing, life,
                   canceled, code, successed, finished, answers, outcome>>

-----------------------------------------------------------------------------
(* done(), on the worker.                                                  *)

\* The Synchro of the handler h, if it has one, is finished.
Finish(t, h) ==
    finished' = [finished EXCEPT ![t] = IF h.sync THEN @ \cup {h.exec} ELSE @]

\* Seeded fault: the handler of run() is called before the reply is parsed.
BugDoneBeginEarly(t) ==
    /\ Running
    /\ posted[t]
    /\ doing = None
    /\ posted' = [posted EXCEPT ![t] = FALSE]
    /\ doing' = [transfer |-> t, pc |-> "parse"]
    /\ IF done[t] = None THEN UNCHANGED finished ELSE Finish(t, done[t])
    /\ UNCHANGED <<app, execs, done, attached, easy, callback, callbacks, life,
                   canceled, code, successed, answers, outcome>>

\* The posted handler starts.
DoneBegin(t) ==
    /\ Running
    /\ posted[t]
    /\ doing = None
    /\ posted' = [posted EXCEPT ![t] = FALSE]
    /\ doing' = [transfer |-> t, pc |-> "parse"]
    /\ UNCHANGED <<app, execs, done, attached, easy, callback, callbacks, life,
                   canceled, code, successed, finished, answers, outcome>>

\* JsonRPC::done: parse the reply, if there is one; valid: it is a result.
DoneParse(t, valid) ==
    /\ Running
    /\ doing = [transfer |-> t, pc |-> "parse"]
    /\ doing' = [doing EXCEPT !.pc = "call"]
    /\ successed' = [successed EXCEPT ![t] = @ \/ (code[t] = "ok" /\ valid)]
    /\ UNCHANGED <<app, execs, done, attached, easy, callback, callbacks, posted,
                   life, canceled, code, finished, answers, outcome>>

\* Seeded fault: the handler of a canceled transfer is not called.
BugDoneCallCanceled(t) ==
    /\ Running
    /\ doing = [transfer |-> t, pc |-> "call"]
    /\ doing' = [doing EXCEPT !.pc = "reset"]
    /\ IF done[t] = None \/ canceled[t]
       THEN UNCHANGED <<finished, answers>>
       ELSE /\ Finish(t, done[t])
            /\ answers' = [answers EXCEPT ![t] = @ + 1]
    /\ UNCHANGED <<app, execs, done, attached, easy, callback, callbacks, posted,
                   life, canceled, code, successed, outcome>>

\* Transfer::done up to reset(): call the handler.
DoneCall(t) ==
    /\ Running
    /\ doing = [transfer |-> t, pc |-> "call"]
    /\ doing' = [doing EXCEPT !.pc = "reset"]
    /\ IF done[t] = None
       THEN UNCHANGED <<finished, answers>>
       ELSE /\ Finish(t, done[t])
            /\ answers' = [answers EXCEPT ![t] = @ + 1]
    /\ UNCHANGED <<app, execs, done, attached, easy, callback, callbacks, posted,
                   life, canceled, code, successed, outcome>>

\* Seeded fault: the handlers are kept.
BugDoneResetKeeps(t) ==
    /\ Running
    /\ doing = [transfer |-> t, pc |-> "reset"]
    /\ doing' = None
    /\ UNCHANGED <<app, execs, done, attached, easy, callback, callbacks, posted,
                   canceled, code, successed, finished, answers, outcome>>
    /\ Release(t)

\* reset(), and the end of the posted handler, which held the transfer.
DoneReset(t) ==
    /\ Running
    /\ doing = [transfer |-> t, pc |-> "reset"]
    /\ doing' = None
    /\ done' = [done EXCEPT ![t] = None]
    /\ UNCHANGED <<app, execs, attached, easy, callback, callbacks, posted,
                   canceled, code, successed, finished, answers, outcome>>
    /\ Release(t)

-----------------------------------------------------------------------------
\* What the application does when it likes.
Caprice(t) ==
    \/ \E keep, sync \in BOOLEAN : Exec(t, keep, sync)
    \/ WaitEnds(t, "spurious")
    \/ Drop(t)

\* The steps that the program, its timeouts and libcurl always take; what a
\* kind of transfer does at the end (Complete, DoneParse) is apart.
Progress(t) ==
    \/ Attach(t) \/ AttachFails(t) \/ Detach(t)
    \/ \E how \in {"finished", "timeout"} : WaitEnds(t, how)
    \/ Dispatch(t)
    \/ DoneBegin(t) \/ DoneCall(t) \/ DoneReset(t)

Next ==
    \E t \in Transfer :
        \/ Caprice(t)
        \/ Progress(t)
        \/ \E c \in Code : Complete(t, c)
        \/ \E valid \in BOOLEAN : DoneParse(t, valid)
        \/ \E ref \in BOOLEAN : CallbackBegin(t, ref)
        \/ CallbackEnd(t)

Spec == Init /\ [][Next]_vars

-----------------------------------------------------------------------------
(* Properties.                                                             *)

\* Among the types: a transfer is answered once at most, however often exec()
\* is called.
TypeOK ==
    /\ app \in [Transfer -> {"idle", "exec", "run", "wait", "gone"}]
    /\ execs \in [Transfer -> Nat]
    /\ done \in [Transfer -> Handler \cup {None}]
    /\ attached \in [Transfer -> BOOLEAN]
    /\ easy \in [Transfer -> {"out", "running", "completed", "reported"}]
    /\ callback \in Callback \cup {None}
    /\ callbacks \in [Transfer -> Nat]
    /\ posted \in [Transfer -> BOOLEAN]
    /\ doing \in Doing \cup {None}
    /\ life \in [Transfer -> {"alive", "dying", "dead"}]
    /\ canceled \in [Transfer -> BOOLEAN]
    /\ code \in [Transfer -> Code \cup {None}]
    /\ successed \in [Transfer -> BOOLEAN]
    /\ finished \in [Transfer -> SUBSET Nat]
    /\ answers \in [Transfer -> 0..1]
    /\ outcome \in [Transfer -> Outcome \cup {None}]
    /\ aborted \in BOOLEAN

\* multi.cpp:102-124, transfer.cpp:25-31,78-92.  libcurl has a raw pointer to
\* the transfer for as long as it has the handle, and uses it in callbacks and in
\* dispatch(): it never does so after the end of the transfer.  And done() runs
\* on a transfer somebody holds, whoever else lets go while it is posted.
LibcurlPointsToLive ==
    /\ TypeOK
    /\ \A t \in Transfer :
        /\ life[t] = "dead" =>
              easy[t] = "out" /\ (callback # None => callback.transfer # t)
        /\ posted[t] \/ (doing # None /\ doing.transfer = t) => life[t] = "alive"

\* jsonrpc.cpp:54-70,98-112.  When run(timeout) returns because its handler was
\* called, successed_ is final: the worker sets it before it calls the handler.
RunSeesReply ==
    \A t \in Transfer :
        outcome[t] # None /\ outcome[t].how = "finished"
            => outcome[t].ok = successed[t]

\* transfer.cpp:33-104.  A transfer libcurl has accepted is answered, canceled
\* or not, unless the application destroys it first.
Answered ==
    \A t \in Transfer :
        attached[t] ~> answers[t] = 1 \/ life[t] # "alive" \/ aborted

\* transfer.cpp:25-52.  A transfer the application has let go of is destroyed
\* in the end, also one whose handler captured it: reset() breaks the cycle.
\* Only the first exec() of a transfer is meant: a later handler stays.
Reclaimed ==
    \A t \in Transfer :
        app[t] = "gone" /\ execs[t] <= 1 ~> life[t] = "dead" \/ aborted

\* multi.cpp:104-105.  "It is fine to remove a handle at any time during a
\* transfer, just not from within any libcurl callback function."  Does not
\* hold when a callback is the last holder of a transfer.
NotRemovedInCallback == ~aborted
=============================================================================
