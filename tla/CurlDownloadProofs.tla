-------------------------- MODULE CurlDownloadProofs --------------------------
(***************************************************************************)
(* libcurl never uses a transfer that is gone, run() sees the final reply, *)
(* a transfer is answered once, and a download is moved to its place whole *)
(* or not at all: for every set of transfers, any number of calls of       *)
(* exec() and any number of callbacks.                                     *)
(***************************************************************************)
EXTENDS CurlDownload, TLAPS

-----------------------------------------------------------------------------
(* The inductive invariant of a transfer.                                  *)

\* done() runs for t, and has come to pc.
DoingAt(t, pc) == doing = [transfer |-> t, pc |-> pc]
DoingFor(t) == doing # None /\ doing.transfer = t
InCallback(t) == callback # None /\ callback.transfer = t

\* The reply of t has not been parsed, and will be if t lives long enough.
Unparsed(t) ==
    \/ easy[t] \in {"running", "completed"}
    \/ easy[t] = "out" /\ life[t] = "alive"
    \/ posted[t]
    \/ DoingAt(t, "parse")

\* A transfer that is not alive has no holder: none of its operations is
\* started again.
Unheld == \A t \in Transfer : life[t] # "alive" => ~Held(t)

\* libcurl has the handle of t while t is attached, and calls back only while
\* the transfer runs: what detach() removes is not in use.
Handles ==
    \A t \in Transfer :
        /\ attached[t] <=> easy[t] # "out"
        /\ life[t] = "dead" => easy[t] = "out"
        /\ InCallback(t) => easy[t] = "running"

\* done() is posted once, after the transfer was reported.
Order ==
    \A t \in Transfer :
        /\ posted[t] \/ DoingFor(t) => easy[t] = "reported" /\ life[t] = "alive"
        /\ posted[t] => ~DoingFor(t)

\* Nobody has been told of a reply that is not parsed.
Untold ==
    \A t \in Transfer :
        /\ Unparsed(t) \/ DoingAt(t, "call") => answers[t] = 0
        /\ finished[t] # {} => answers[t] = 1
        /\ outcome[t] # None /\ outcome[t].how = "finished" => answers[t] = 1

TransferInv ==
    /\ TypeOK
    /\ Unheld
    /\ Handles
    /\ Order
    /\ Untold
    /\ RunSeesReply

-----------------------------------------------------------------------------
(* The inductive invariant of a download.                                  *)

DTypeOK ==
    /\ out \in [Downloader -> {"new", "open", "closed"}]
    /\ tmp \in [Downloader -> {"none", "whole", "torn"}]
    /\ target \in [Downloader -> {"old", "whole", "torn"}]
    /\ short \in [Downloader -> BOOLEAN]
    /\ blunder \in [Downloader -> CloseEnd \cup {None}]

\* Until done() runs, the file at file_ is the old one, and the temporary file
\* is torn only if libcurl has been told, or has told, of an error.
Collecting(t) ==
    /\ target[t] = "old"
    /\ out[t] # "closed"
    /\ ~successed[t]
    /\ out[t] = "new" => tmp[t] = "none"
    /\ out[t] = "open" => tmp[t] # "none"
    /\ tmp[t] = "torn" => short[t] \/ code[t] \in {"error", "aborted"}
    /\ code[t] = "ok" => ~short[t]

\* What the handler finds.
Delivered(t) ==
    /\ successed[t] => target[t] # "old" \/ out[t] = "new"
    /\ ~successed[t] => target[t] = "old"
    /\ tmp[t] # "none" => blunder[t] \in {"rename fails", "remove fails"}

\* libcurl has not reported the end of t.
Early(t) == easy[t] = "running" \/ (easy[t] = "out" /\ life[t] = "alive")

\* close() is over.
Closed(t) == answers[t] = 1 \/ DoingAt(t, "call") \/ DoingAt(t, "reset")

DownloadInv ==
    /\ DTypeOK
    /\ \A t \in Downloader :
        /\ Early(t) => code[t] = None
        /\ Unparsed(t) => Collecting(t)
        /\ Closed(t) => Delivered(t)
        /\ target[t] = "torn" => blunder[t] = "flush fails"

-----------------------------------------------------------------------------
(* Proofs about transfers.                                                 *)

LEMMA TransferInit == Init => TransferInv
<1> SUFFICES ASSUME Init PROVE TransferInv
  OBVIOUS
<1>1. TypeOK
  <2>1. /\ app \in [Transfer -> {"idle", "exec", "run", "wait", "gone"}]
        /\ execs \in [Transfer -> Nat]
        /\ done \in [Transfer -> Handler \cup {None}]
        /\ attached \in [Transfer -> BOOLEAN]
        /\ easy \in [Transfer -> {"out", "running", "completed", "reported"}]
        /\ callback \in Callback \cup {None}
        /\ callbacks \in [Transfer -> Nat]
        /\ posted \in [Transfer -> BOOLEAN]
        /\ doing \in Doing \cup {None}
    BY DEF Init
  <2>2. /\ life \in [Transfer -> {"alive", "dying", "dead"}]
        /\ canceled \in [Transfer -> BOOLEAN]
        /\ code \in [Transfer -> Code \cup {None}]
        /\ successed \in [Transfer -> BOOLEAN]
    BY DEF Init
  <2>3. finished \in [Transfer -> SUBSET Nat]
    BY DEF Init
  <2>4. answers \in [Transfer -> 0..1]
    BY DEF Init
  <2>5. outcome \in [Transfer -> Outcome \cup {None}] /\ aborted \in BOOLEAN
    BY DEF Init
  <2> QED
    BY <2>1, <2>2, <2>3, <2>4, <2>5 DEF TypeOK
<1>2. Unheld /\ Handles /\ Order /\ Untold /\ RunSeesReply
  BY DEF Init, Unheld, Handles, Order, Untold, RunSeesReply, DoingFor, InCallback
<1> QED
  BY <1>1, <1>2 DEF TransferInv

\* A step of the application, of libcurl or of the worker keeps the invariant.
LEMMA TransferNext == TransferInv /\ [Next]_vars => TransferInv'
<1> SUFFICES ASSUME TransferInv, [Next]_vars PROVE TransferInv'
  OBVIOUS
<1> USE NoneAssumption DEF TransferInv
<1>1. ASSUME NEW t \in Transfer, NEW keep \in BOOLEAN, NEW sync \in BOOLEAN, Exec(t, keep, sync) PROVE TransferInv'
  <2>1. TypeOK'
    BY <1>1 DEF Exec, Running, TypeOK, Handler
  <2>2. Unheld'
    BY <1>1 DEF Exec, Unheld, Held
  <2>3. Handles'
    BY <1>1 DEF Exec, Handles, InCallback
  <2>4. Order'
    BY <1>1 DEF Exec, Order, DoingFor
  <2>5. Untold'
    BY <1>1 DEF Exec, Untold, Unparsed, DoingAt
  <2>6. RunSeesReply'
    BY <1>1 DEF Exec, RunSeesReply
  <2> QED
    BY <2>1, <2>2, <2>3, <2>4, <2>5, <2>6
<1>2. ASSUME NEW t \in Transfer, Attach(t) PROVE TransferInv'
  <2>1. TypeOK'
    BY <1>2 DEF Attach, Running, TypeOK
  <2>2. Unheld'
    BY <1>2 DEF Attach, Unheld, Held
  <2>3. Handles'
    BY <1>2 DEF Attach, Handles, Unheld, Held, InCallback, TypeOK
  <2>4. Order'
    BY <1>2 DEF Attach, Order, Handles, DoingFor
  <2>5. Untold'
    BY <1>2 DEF Attach, Untold, Unparsed, DoingAt, Handles, Unheld, Held
  <2>6. RunSeesReply'
    BY <1>2 DEF Attach, RunSeesReply
  <2> QED
    BY <2>1, <2>2, <2>3, <2>4, <2>5, <2>6
<1>3. ASSUME NEW t \in Transfer, AttachFails(t) PROVE TransferInv'
  <2>1. TypeOK'
    BY <1>3 DEF AttachFails, Running, TypeOK
  <2>2. Unheld'
    BY <1>3 DEF AttachFails, Unheld, Held
  <2>3. Handles'
    BY <1>3 DEF AttachFails, Handles, InCallback
  <2>4. Order'
    BY <1>3 DEF AttachFails, Order, DoingFor
  <2>5. Untold'
    BY <1>3 DEF AttachFails, Untold, Unparsed, DoingAt
  <2>6. RunSeesReply'
    BY <1>3 DEF AttachFails, RunSeesReply
  <2> QED
    BY <2>1, <2>2, <2>3, <2>4, <2>5, <2>6
<1>4. ASSUME NEW t \in Transfer, NEW how \in How, WaitEnds(t, how) PROVE TransferInv'
  <2>1. TypeOK'
    BY <1>4 DEF WaitEnds, Running, TypeOK, How, Outcome
  <2>2. Unheld'
    BY <1>4 DEF WaitEnds, Unheld, Held
  <2>3. Handles'
    BY <1>4 DEF WaitEnds, Handles, InCallback
  <2>4. Order'
    BY <1>4 DEF WaitEnds, Order, DoingFor
  <2>5. Untold'
    BY <1>4 DEF WaitEnds, Untold, Unparsed, DoingAt
  <2>6. RunSeesReply'
    BY <1>4 DEF WaitEnds, RunSeesReply
  <2> QED
    BY <2>1, <2>2, <2>3, <2>4, <2>5, <2>6
<1>5. ASSUME NEW t \in Transfer, Drop(t) PROVE TransferInv'
  <2>1. TypeOK'
    BY <1>5 DEF Drop, Release, Running, TypeOK
  <2>2. Unheld'
    BY <1>5 DEF Drop, Release, Unheld, Held
  <2>3. Handles'
    BY <1>5 DEF Drop, Release, Handles, InCallback
  <2>4. Order'
    BY <1>5 DEF Drop, Release, Order, Held, DoingFor
  <2>5. Untold'
    BY <1>5 DEF Drop, Release, Untold, Unparsed, DoingAt
  <2>6. RunSeesReply'
    BY <1>5 DEF Drop, RunSeesReply
  <2> QED
    BY <2>1, <2>2, <2>3, <2>4, <2>5, <2>6
<1>6. ASSUME NEW t \in Transfer, Detach(t) PROVE TransferInv'
  <2>1. TypeOK'
    BY <1>6 DEF Detach, Running, TypeOK
  <2>2. Unheld'
    BY <1>6 DEF Detach, Unheld, Held
  <2>3. Handles'
    BY <1>6 DEF Detach, Handles, InCallback, TypeOK
  <2>4. Order'
    BY <1>6 DEF Detach, Order, DoingFor
  <2>5. Untold'
    BY <1>6 DEF Detach, Untold, Unparsed, DoingAt
  <2>6. RunSeesReply'
    BY <1>6 DEF Detach, RunSeesReply
  <2> QED
    BY <2>1, <2>2, <2>3, <2>4, <2>5, <2>6
<1>7. ASSUME NEW t \in Transfer, NEW ref \in BOOLEAN, CallbackBegin(t, ref) PROVE TransferInv'
  <2>1. TypeOK'
    BY <1>7 DEF CallbackBegin, Running, TypeOK, Callback
  <2>2. Unheld'
    BY <1>7 DEF CallbackBegin, Unheld, Held
  <2>3. Handles'
    BY <1>7 DEF CallbackBegin, Handles, InCallback
  <2>4. Order'
    BY <1>7 DEF CallbackBegin, Order, DoingFor
  <2>5. Untold'
    BY <1>7 DEF CallbackBegin, Untold, Unparsed, DoingAt
  <2>6. RunSeesReply'
    BY <1>7 DEF CallbackBegin, RunSeesReply
  <2> QED
    BY <2>1, <2>2, <2>3, <2>4, <2>5, <2>6
<1>8. ASSUME NEW t \in Transfer, CallbackEnd(t) PROVE TransferInv'
  <2>1. TypeOK'
    BY <1>8 DEF CallbackEnd, Release, TypeOK
  <2>2. Unheld'
    BY <1>8 DEF CallbackEnd, Release, Unheld, Held
  <2>3. Handles'
    BY <1>8 DEF CallbackEnd, Release, Handles, InCallback
  <2>4. Order'
    BY <1>8 DEF CallbackEnd, Release, Order, Held, DoingFor
  <2>5. Untold'
    BY <1>8 DEF CallbackEnd, Release, Untold, Unparsed, DoingAt
  <2>6. RunSeesReply'
    BY <1>8 DEF CallbackEnd, RunSeesReply
  <2> QED
    BY <2>1, <2>2, <2>3, <2>4, <2>5, <2>6
<1>9. ASSUME NEW t \in Transfer, NEW c \in Code, Complete(t, c) PROVE TransferInv'
  <2>1. TypeOK'
    BY <1>9 DEF Complete, Running, TypeOK
  <2>2. Unheld'
    BY <1>9 DEF Complete, Unheld, Held
  <2>3. Handles'
    BY <1>9 DEF Complete, Handles, InCallback
  <2>4. Order'
    BY <1>9 DEF Complete, Order, DoingFor
  <2>5. Untold'
    BY <1>9 DEF Complete, Untold, Unparsed, DoingAt
  <2>6. RunSeesReply'
    BY <1>9 DEF Complete, RunSeesReply
  <2> QED
    BY <2>1, <2>2, <2>3, <2>4, <2>5, <2>6
<1>10. ASSUME NEW t \in Transfer, Dispatch(t) PROVE TransferInv'
  <2>1. TypeOK'
    BY <1>10 DEF Dispatch, Running, TypeOK
  <2>2. Unheld'
    BY <1>10 DEF Dispatch, Unheld, Held, TypeOK
  <2>3. Handles'
    BY <1>10 DEF Dispatch, Handles, InCallback
  <2>4. Order'
    BY <1>10 DEF Dispatch, Order, DoingFor, TypeOK
  <2>5. Untold'
    BY <1>10 DEF Dispatch, Untold, Unparsed, DoingAt
  <2>6. RunSeesReply'
    BY <1>10 DEF Dispatch, RunSeesReply
  <2> QED
    BY <2>1, <2>2, <2>3, <2>4, <2>5, <2>6
<1>11. ASSUME NEW t \in Transfer, DoneBegin(t) PROVE TransferInv'
  <2>1. TypeOK'
    BY <1>11 DEF DoneBegin, Running, TypeOK, Doing
  <2>2. Unheld'
    BY <1>11 DEF DoneBegin, Unheld, Held
  <2>3. Handles'
    BY <1>11 DEF DoneBegin, Handles, InCallback
  <2>4. Order'
    BY <1>11 DEF DoneBegin, Order, DoingFor, TypeOK
  <2>5. Untold'
    BY <1>11 DEF DoneBegin, Untold, Unparsed, DoingAt
  <2>6. RunSeesReply'
    BY <1>11 DEF DoneBegin, RunSeesReply
  <2> QED
    BY <2>1, <2>2, <2>3, <2>4, <2>5, <2>6
<1>12. ASSUME NEW t \in Transfer, NEW valid \in BOOLEAN, DoneParse(t, valid) PROVE TransferInv'
  <2>1. TypeOK'
    BY <1>12 DEF DoneParse, Running, TypeOK, Doing
  <2>2. Unheld'
    BY <1>12 DEF DoneParse, Unheld, Held, Doing
  <2>3. Handles'
    BY <1>12 DEF DoneParse, Handles, InCallback
  <2>4. Order'
    BY <1>12 DEF DoneParse, Order, DoingFor, Doing
  <2>5. Untold'
    <3>1. \A u \in Transfer : \A pc \in {"parse", "call", "reset"} :
             DoingAt(u, pc)' <=> u = t /\ pc = "call"
      BY <1>12 DEF DoneParse, DoingAt
    <3>2. \A u \in Transfer : Unparsed(u)' => Unparsed(u)
      BY <1>12, <3>1 DEF DoneParse, Unparsed
    <3>3. Unparsed(t)
      BY <1>12 DEF DoneParse, Unparsed, DoingAt
    <3>4. UNCHANGED <<answers, finished, outcome>>
      BY <1>12 DEF DoneParse
    <3> QED
      BY <3>1, <3>2, <3>3, <3>4 DEF Untold
  <2>6. RunSeesReply'
    BY <1>12 DEF DoneParse, RunSeesReply, Untold, Unparsed, DoingAt
  <2> QED
    BY <2>1, <2>2, <2>3, <2>4, <2>5, <2>6
<1>13. ASSUME NEW t \in Transfer, DoneCall(t) PROVE TransferInv'
  <2>1. TypeOK'
    <3>1. DoingAt(t, "call") /\ answers[t] = 0
      BY <1>13 DEF DoneCall, Untold, DoingAt
    <3>2. doing' \in Doing
      BY <1>13 DEF DoneCall, Doing
    <3>3. answers' \in [Transfer -> 0..1]
      BY <1>13, <3>1 DEF DoneCall, TypeOK
    <3>4. finished' \in [Transfer -> SUBSET Nat]
      <4>1. done[t] # None => done[t].exec \in Nat
        BY DEF TypeOK, Handler
      <4> QED
        BY <1>13, <4>1 DEF DoneCall, Finish, TypeOK
    <3> QED
      BY <1>13, <3>2, <3>3, <3>4 DEF DoneCall, Running, TypeOK
  <2>2. Unheld'
    BY <1>13 DEF DoneCall, Unheld, Held, Doing
  <2>3. Handles'
    BY <1>13 DEF DoneCall, Handles, InCallback
  <2>4. Order'
    BY <1>13 DEF DoneCall, Order, DoingFor, Doing
  <2>5. Untold'
    <3>1. \A u \in Transfer : \A pc \in {"parse", "call", "reset"} :
             DoingAt(u, pc)' <=> u = t /\ pc = "reset"
      BY <1>13 DEF DoneCall, DoingAt
    <3>2. easy[t] = "reported" /\ ~posted[t] /\ DoingAt(t, "call") /\ answers[t] = 0
      BY <1>13 DEF DoneCall, DoingFor, DoingAt, Doing, Order, Untold
    <3>3. \A u \in Transfer : Unparsed(u)' => Unparsed(u) /\ u # t
      BY <1>13, <3>1, <3>2 DEF DoneCall, Unparsed
    <3>4. \A u \in Transfer \ {t} : answers'[u] = answers[u] /\ finished'[u] = finished[u]
      BY <1>13 DEF DoneCall, Finish, TypeOK
    <3>5. IF done[t] = None THEN answers' = answers /\ finished' = finished ELSE answers'[t] = 1
      BY <1>13, <3>2 DEF DoneCall, TypeOK
    <3>6. outcome' = outcome
      BY <1>13 DEF DoneCall
    <3> QED
      BY <3>1, <3>2, <3>3, <3>4, <3>5, <3>6 DEF Untold
  <2>6. RunSeesReply'
    BY <1>13 DEF DoneCall, RunSeesReply
  <2> QED
    BY <2>1, <2>2, <2>3, <2>4, <2>5, <2>6
<1>14. ASSUME NEW t \in Transfer, DoneReset(t) PROVE TransferInv'
  <2>1. TypeOK'
    BY <1>14 DEF DoneReset, Release, Running, TypeOK
  <2>2. Unheld'
    BY <1>14 DEF DoneReset, Release, Unheld, Held
  <2>3. Handles'
    BY <1>14 DEF DoneReset, Release, Handles, InCallback
  <2>4. Order'
    BY <1>14 DEF DoneReset, Release, Order, Held, DoingFor
  <2>5. Untold'
    <3>1. \A u \in Transfer : ~DoingAt(u, "parse")' /\ ~DoingAt(u, "call")'
      BY <1>14 DEF DoneReset, DoingAt, Doing
    <3>2. easy[t] = "reported" /\ ~posted[t]
      BY <1>14 DEF DoneReset, DoingFor, Doing, Order
    <3>3. \A u \in Transfer : Unparsed(u)' => Unparsed(u)
      BY <1>14, <3>1, <3>2 DEF DoneReset, Release, Unparsed
    <3>4. UNCHANGED <<answers, finished, outcome>>
      BY <1>14 DEF DoneReset
    <3> QED
      BY <3>1, <3>3, <3>4 DEF Untold
  <2>6. RunSeesReply'
    BY <1>14 DEF DoneReset, RunSeesReply
  <2> QED
    BY <2>1, <2>2, <2>3, <2>4, <2>5, <2>6
<1>15. ASSUME UNCHANGED vars PROVE TransferInv'
  BY <1>15
  DEF vars, TypeOK, Unheld, Handles, Order, Untold, RunSeesReply, Held, InCallback,
      DoingFor, DoingAt, Unparsed
<1> HIDE DEF TransferInv
<1> QED
  BY <1>1, <1>2, <1>3, <1>4, <1>5, <1>6, <1>7, <1>8, <1>9, <1>10, <1>11, <1>12, <1>13,
     <1>14, <1>15
  DEF Next, Caprice, Progress, How

\* The invariant holds in every state of the transfers.
THEOREM TransferInvariant == Spec => []TransferInv
BY TransferInit, TransferNext, PTL DEF Spec

-----------------------------------------------------------------------------
(* Proofs about downloads.                                                 *)

\* What a downloader does to libcurl and its transfer, a transfer may do.
LEMMA DownloadStep == [DNext]_dvars => [Next]_vars
BY DEF DNext, dvars, Ends, DComplete, Close, Write, Next

\* downloader.cpp, transfer.cpp.  The downloaders implement the specification
\* of the transfers: every behaviour with files is one of transfers.
THEOREM DownloadImplementsTransfer == DSpec => Spec
BY DownloadStep, PTL DEF DSpec, DInit, Spec

\* multi.cpp:102-124, transfer.cpp:25-31,78-92.  libcurl never uses a transfer
\* that is gone, done() runs on one that somebody holds, and a transfer is
\* answered once at most.
THEOREM LibcurlPointsToLiveHolds == DSpec => []LibcurlPointsToLive
<1>1. TransferInv => LibcurlPointsToLive
  BY DEF TransferInv, Handles, Order, InCallback, DoingFor, LibcurlPointsToLive
<1> QED
  BY <1>1, DownloadImplementsTransfer, TransferInvariant, PTL

\* jsonrpc.cpp:54-70,98-112.  run(timeout) that was woken by its handler has
\* seen the final value of successed_.
THEOREM RunSeesReplyHolds == DSpec => []RunSeesReply
<1>1. TransferInv => RunSeesReply
  BY DEF TransferInv
<1> QED
  BY <1>1, DownloadImplementsTransfer, TransferInvariant, PTL

LEMMA DownloadInit == DInit => DownloadInv
<1> SUFFICES ASSUME DInit PROVE DownloadInv
  OBVIOUS
<1>1. DTypeOK
  BY DEF DInit, DTypeOK
<1>2. \A t \in Downloader : t \in Transfer
  BY CurlDownloadAssumption
<1>3. \A t \in Downloader : code[t] = None /\ ~successed[t] /\ answers[t] = 0 /\ doing = None
  BY <1>2 DEF DInit, Init
<1>4. \A t \in Downloader : ~DoingAt(t, "call") /\ ~DoingAt(t, "reset")
  BY <1>2, <1>3, NoneAssumption DEF DoingAt, Doing
<1>5. None \notin {"ok", "error", "aborted"}
  BY NoneAssumption DEF Code
<1> QED
  BY <1>1, <1>3, <1>4, <1>5 DEF DInit, DownloadInv, Collecting, Closed

\* A step that neither ends a transfer nor parses its reply.
Frame ==
    /\ \A u \in Transfer : Unparsed(u)' => Unparsed(u)
    /\ \A u \in Transfer : Closed(u)' => Closed(u)
    /\ \A u \in Transfer : Early(u)' => Early(u)
    /\ UNCHANGED <<code, successed>>

LEMMA FrameSteps ==
    ASSUME TransferInv, NEW t \in Transfer,
           Progress(t) \/ Caprice(t) \/ CallbackEnd(t) \/ \E ref \in BOOLEAN : CallbackBegin(t, ref)
    PROVE  Frame
<1> USE NoneAssumption DEF TransferInv
<1>1. ASSUME NEW keep \in BOOLEAN, NEW sync \in BOOLEAN, Exec(t, keep, sync) PROVE Frame
  <2>1. \A u \in Transfer : Unparsed(u)' => Unparsed(u)
    BY <1>1 DEF Exec, Unparsed, DoingAt
  <2>2. \A u \in Transfer : Closed(u)' => Closed(u)
    BY <1>1 DEF Exec, Closed, DoingAt
  <2>3. \A u \in Transfer : Early(u)' => Early(u)
    BY <1>1 DEF Exec, Early
  <2>4. UNCHANGED <<code, successed>>
    BY <1>1 DEF Exec
  <2> QED
    BY <2>1, <2>2, <2>3, <2>4 DEF Frame
<1>2. ASSUME Attach(t) PROVE Frame
  <2>1. \A u \in Transfer : Unparsed(u)' => Unparsed(u)
    BY <1>2 DEF Attach, Unparsed, DoingAt, Unheld, Handles, Held
  <2>2. \A u \in Transfer : Closed(u)' => Closed(u)
    BY <1>2 DEF Attach, Closed, DoingAt
  <2>3. \A u \in Transfer : Early(u)' => Early(u)
    BY <1>2 DEF Attach, Early, Unheld, Held, Handles
  <2>4. UNCHANGED <<code, successed>>
    BY <1>2 DEF Attach
  <2> QED
    BY <2>1, <2>2, <2>3, <2>4 DEF Frame
<1>3. ASSUME AttachFails(t) PROVE Frame
  <2>1. \A u \in Transfer : Unparsed(u)' => Unparsed(u)
    BY <1>3 DEF AttachFails, Unparsed, DoingAt
  <2>2. \A u \in Transfer : Closed(u)' => Closed(u)
    BY <1>3 DEF AttachFails, Closed, DoingAt
  <2>3. \A u \in Transfer : Early(u)' => Early(u)
    BY <1>3 DEF AttachFails, Early
  <2>4. UNCHANGED <<code, successed>>
    BY <1>3 DEF AttachFails
  <2> QED
    BY <2>1, <2>2, <2>3, <2>4 DEF Frame
<1>4. ASSUME NEW how \in How, WaitEnds(t, how) PROVE Frame
  <2>1. \A u \in Transfer : Unparsed(u)' => Unparsed(u)
    BY <1>4 DEF WaitEnds, Unparsed, DoingAt
  <2>2. \A u \in Transfer : Closed(u)' => Closed(u)
    BY <1>4 DEF WaitEnds, Closed, DoingAt
  <2>3. \A u \in Transfer : Early(u)' => Early(u)
    BY <1>4 DEF WaitEnds, Early
  <2>4. UNCHANGED <<code, successed>>
    BY <1>4 DEF WaitEnds
  <2> QED
    BY <2>1, <2>2, <2>3, <2>4 DEF Frame
<1>5. ASSUME Drop(t) PROVE Frame
  <2>1. \A u \in Transfer : Unparsed(u)' => Unparsed(u)
    BY <1>5 DEF Drop, Release, Unparsed, DoingAt
  <2>2. \A u \in Transfer : Closed(u)' => Closed(u)
    BY <1>5 DEF Drop, Closed, DoingAt
  <2>3. \A u \in Transfer : Early(u)' => Early(u)
    BY <1>5 DEF Drop, Release, Early
  <2>4. UNCHANGED <<code, successed>>
    BY <1>5 DEF Drop
  <2> QED
    BY <2>1, <2>2, <2>3, <2>4 DEF Frame
<1>6. ASSUME Detach(t) PROVE Frame
  <2>1. \A u \in Transfer : Unparsed(u)' => Unparsed(u)
    BY <1>6 DEF Detach, Unparsed, DoingAt
  <2>2. \A u \in Transfer : Closed(u)' => Closed(u)
    BY <1>6 DEF Detach, Closed, DoingAt
  <2>3. \A u \in Transfer : Early(u)' => Early(u)
    BY <1>6 DEF Detach, Early
  <2>4. UNCHANGED <<code, successed>>
    BY <1>6 DEF Detach
  <2> QED
    BY <2>1, <2>2, <2>3, <2>4 DEF Frame
<1>7. ASSUME NEW ref \in BOOLEAN, CallbackBegin(t, ref) PROVE Frame
  <2>1. \A u \in Transfer : Unparsed(u)' => Unparsed(u)
    BY <1>7 DEF CallbackBegin, Unparsed, DoingAt
  <2>2. \A u \in Transfer : Closed(u)' => Closed(u)
    BY <1>7 DEF CallbackBegin, Closed, DoingAt
  <2>3. \A u \in Transfer : Early(u)' => Early(u)
    BY <1>7 DEF CallbackBegin, Early
  <2>4. UNCHANGED <<code, successed>>
    BY <1>7 DEF CallbackBegin
  <2> QED
    BY <2>1, <2>2, <2>3, <2>4 DEF Frame
<1>8. ASSUME CallbackEnd(t) PROVE Frame
  <2>1. \A u \in Transfer : Unparsed(u)' => Unparsed(u)
    BY <1>8 DEF CallbackEnd, Release, Unparsed, DoingAt
  <2>2. \A u \in Transfer : Closed(u)' => Closed(u)
    BY <1>8 DEF CallbackEnd, Closed, DoingAt
  <2>3. \A u \in Transfer : Early(u)' => Early(u)
    BY <1>8 DEF CallbackEnd, Release, Early
  <2>4. UNCHANGED <<code, successed>>
    BY <1>8 DEF CallbackEnd
  <2> QED
    BY <2>1, <2>2, <2>3, <2>4 DEF Frame
<1>9. ASSUME Dispatch(t) PROVE Frame
  <2>1. \A u \in Transfer : Unparsed(u)' => Unparsed(u)
    BY <1>9 DEF Dispatch, Unparsed, DoingAt
  <2>2. \A u \in Transfer : Closed(u)' => Closed(u)
    BY <1>9 DEF Dispatch, Closed, DoingAt
  <2>3. \A u \in Transfer : Early(u)' => Early(u)
    BY <1>9 DEF Dispatch, Early
  <2>4. UNCHANGED <<code, successed>>
    BY <1>9 DEF Dispatch
  <2> QED
    BY <2>1, <2>2, <2>3, <2>4 DEF Frame
<1>10. ASSUME DoneBegin(t) PROVE Frame
  <2>1. \A u \in Transfer : Unparsed(u)' => Unparsed(u)
    BY <1>10 DEF DoneBegin, Unparsed, DoingAt
  <2>2. \A u \in Transfer : Closed(u)' => Closed(u)
    BY <1>10 DEF DoneBegin, Closed, DoingAt
  <2>3. \A u \in Transfer : Early(u)' => Early(u)
    BY <1>10 DEF DoneBegin, Early
  <2>4. UNCHANGED <<code, successed>>
    BY <1>10 DEF DoneBegin
  <2> QED
    BY <2>1, <2>2, <2>3, <2>4 DEF Frame
<1>11. ASSUME DoneCall(t) PROVE Frame
  <2>1. \A u \in Transfer : Unparsed(u)' => Unparsed(u)
    BY <1>11 DEF DoneCall, Unparsed, DoingAt
  <2>2. \A u \in Transfer : Closed(u)' => Closed(u)
    BY <1>11 DEF DoneCall, Closed, DoingAt, TypeOK
  <2>3. \A u \in Transfer : Early(u)' => Early(u)
    BY <1>11 DEF DoneCall, Early
  <2>4. UNCHANGED <<code, successed>>
    BY <1>11 DEF DoneCall
  <2> QED
    BY <2>1, <2>2, <2>3, <2>4 DEF Frame
<1>12. ASSUME DoneReset(t) PROVE Frame
  <2>1. \A u \in Transfer : Unparsed(u)' => Unparsed(u)
    BY <1>12 DEF DoneReset, Release, Unparsed, DoingAt, Doing
  <2>2. \A u \in Transfer : Closed(u)' => Closed(u)
    BY <1>12 DEF DoneReset, Closed, DoingAt, Doing
  <2>3. \A u \in Transfer : Early(u)' => Early(u)
    BY <1>12 DEF DoneReset, Release, Early
  <2>4. UNCHANGED <<code, successed>>
    BY <1>12 DEF DoneReset
  <2> QED
    BY <2>1, <2>2, <2>3, <2>4 DEF Frame
<1> QED
  BY <1>1, <1>2, <1>3, <1>4, <1>5, <1>6, <1>7, <1>8, <1>9, <1>10, <1>11, <1>12
  DEF Progress, Caprice, How

\* Such a step keeps the invariant of the files, when it leaves them alone.
LEMMA FrameInv ==
    ASSUME DownloadInv, Frame, UNCHANGED files
    PROVE  DownloadInv'
<1>1. \A t \in Downloader : t \in Transfer
  BY CurlDownloadAssumption
<1>2. \A t \in Downloader : (Collecting(t) => Collecting(t)') /\ (Delivered(t) => Delivered(t)')
  BY DEF Frame, files, Collecting, Delivered
<1> QED
  BY <1>1, <1>2 DEF DownloadInv, Frame, files, DTypeOK

\* close() of a transfer that runs is still to come.
LEMMA RunningIsOpen ==
    ASSUME TransferInv, NEW t \in Transfer, easy[t] = "running"
    PROVE  Unparsed(t) /\ ~Closed(t)
BY NoneAssumption
DEF TransferInv, Order, Untold, Unparsed, Closed, DoingAt, DoingFor, Doing

\* A step of a transfer, of libcurl or of the file system keeps the invariant.
LEMMA DownloadNext == TransferInv /\ DownloadInv /\ [DNext]_dvars => DownloadInv'
<1> SUFFICES ASSUME TransferInv, DownloadInv, [DNext]_dvars PROVE DownloadInv'
  OBVIOUS
<1>1. \A t \in Downloader : t \in Transfer
  BY CurlDownloadAssumption
<1>2. ASSUME NEW t \in Transfer,
             Progress(t) \/ Caprice(t) \/ CallbackEnd(t)
                \/ (\E ref \in BOOLEAN : CallbackBegin(t, ref)),
             UNCHANGED files
      PROVE DownloadInv'
  BY <1>2, FrameSteps, FrameInv
<1>3. ASSUME NEW t \in Transfer, NEW c \in Code, DComplete(t, c) PROVE DownloadInv'
  <2>1. /\ easy[t] = "running" /\ easy' = [easy EXCEPT ![t] = "completed"]
        /\ code' = [code EXCEPT ![t] = c]
        /\ UNCHANGED <<life, posted, doing, answers, successed, out, target, short, blunder>>
        /\ tmp' = IF t \in Downloader /\ c # "ok" /\ tmp[t] # "none"
                  THEN [tmp EXCEPT ![t] = "torn"] ELSE tmp
        /\ t \in Downloader /\ short[t] => c # "ok"
    BY <1>3 DEF DComplete, Complete
  <2>2. DTypeOK'
    BY <2>1 DEF DownloadInv, DTypeOK
  <2>3. \A u \in Transfer : /\ Unparsed(u)' => Unparsed(u)
                            /\ Closed(u)' => Closed(u)
                            /\ Early(u)' => Early(u) /\ u # t
    BY <2>1 DEF TransferInv, TypeOK, Unparsed, Closed, Early, DoingAt
  <2>4. Unparsed(t) /\ ~Closed(t)
    BY <2>1, RunningIsOpen
  <2>5. \A u \in Downloader \ {t} : /\ code'[u] = code[u]
                                    /\ tmp'[u] = tmp[u]
    BY <1>1, <2>1 DEF TransferInv, DTypeOK
  <2>6. \A u \in Downloader \ {t} : /\ Collecting(u) => Collecting(u)'
                                    /\ Delivered(u) => Delivered(u)'
    BY <2>1, <2>5 DEF Collecting, Delivered
  <2>7. t \in Downloader => Collecting(t)'
    <3> SUFFICES ASSUME t \in Downloader PROVE Collecting(t)'
      OBVIOUS
    <3>1. Collecting(t) /\ code[t] = None
      BY <2>1, <2>4 DEF DownloadInv, Early
    <3>2. code'[t] = c /\ None \notin Code
      BY <2>1, NoneAssumption DEF TransferInv, TypeOK
    <3>3. tmp'[t] = IF c # "ok" /\ tmp[t] # "none" THEN "torn" ELSE tmp[t]
      BY <2>1 DEF DownloadInv, DTypeOK
    <3> QED
      BY <2>1, <3>1, <3>2, <3>3 DEF Collecting, Code
  <2> QED
    BY <1>1, <2>1, <2>2, <2>3, <2>4, <2>5, <2>6, <2>7 DEF DownloadInv
<1>4. ASSUME NEW t \in Transfer, NEW how \in {"written", "disk full", "no file"}, Write(t, how)
      PROVE DownloadInv'
  <2>1. /\ t \in Downloader /\ life[t] = "alive" /\ ~short[t] /\ easy[t] = "running"
        /\ UNCHANGED <<easy, life, code, posted, doing, answers, successed, target, blunder>>
        /\ how = "no file" => out[t] = "new"
        /\ short' = [short EXCEPT ![t] = how # "written"]
        /\ how = "no file" => UNCHANGED <<out, tmp>>
        /\ how # "no file" =>
              /\ out' = [out EXCEPT ![t] = "open"]
              /\ tmp' = [tmp EXCEPT ![t] = IF how = "disk full" THEN "torn"
                                           ELSE IF @ = "none" THEN "whole" ELSE @]
    BY <1>4 DEF Write, CallbackBegin
  <2>2. DTypeOK'
    BY <2>1 DEF DownloadInv, DTypeOK
  <2>3. \A u \in Transfer : /\ Unparsed(u)' <=> Unparsed(u)
                            /\ Closed(u)' <=> Closed(u)
                            /\ Early(u)' <=> Early(u)
    BY <2>1 DEF Unparsed, Closed, Early, DoingAt
  <2>4. Unparsed(t) /\ ~Closed(t) /\ code[t] = None
    <3>1. easy[t] = "running" /\ code[t] = None
      BY <2>1 DEF DownloadInv, Early
    <3> QED
      BY <3>1, RunningIsOpen
  <2>5. \A u \in Downloader \ {t} : short'[u] = short[u] /\ out'[u] = out[u] /\ tmp'[u] = tmp[u]
    BY <2>1 DEF DownloadInv, DTypeOK
  <2>6. \A u \in Downloader \ {t} : /\ Collecting(u) => Collecting(u)'
                                    /\ Delivered(u) => Delivered(u)'
    BY <2>1, <2>5 DEF Collecting, Delivered
  <2>7. Collecting(t)'
    <3>1. Collecting(t)
      BY <2>1, <2>4 DEF DownloadInv
    <3>2. None \notin Code
      BY NoneAssumption
    <3>3. /\ how # "written" => short'[t]
          /\ how # "no file" => out'[t] = "open"
          /\ how = "disk full" => tmp'[t] = "torn"
          /\ how = "written" => tmp'[t] = IF tmp[t] = "none" THEN "whole" ELSE tmp[t]
      BY <2>1, Zenon DEF DownloadInv, DTypeOK
    <3> QED
      BY <2>1, <2>2, <2>4, <3>1, <3>2, <3>3 DEF Collecting, Code
  <2> QED
    BY <1>1, <2>1, <2>2, <2>3, <2>4, <2>5, <2>6, <2>7 DEF DownloadInv
<1>5. ASSUME NEW t \in Transfer, NEW valid \in BOOLEAN, DoneParse(t, valid)
      PROVE /\ DoingAt(t, "parse") /\ Unparsed(t) /\ ~Unparsed(t)'
            /\ \A u \in Transfer \ {t} : /\ Unparsed(u)' => Unparsed(u)
                                         /\ Closed(u)' => Closed(u)
                                         /\ successed'[u] = successed[u]
            /\ \A u \in Transfer : Early(u)' <=> Early(u)
            /\ successed'[t] <=> successed[t] \/ (code[t] = "ok" /\ valid)
            /\ UNCHANGED code
  <2>1. DoingAt(t, "parse") /\ Unparsed(t)
    BY <1>5 DEF DoneParse, DoingAt, Unparsed
  <2>2. easy[t] = "reported" /\ ~posted[t]
    BY <2>1, NoneAssumption DEF TransferInv, Order, DoingFor, DoingAt, Doing
  <2>3. doing' = [transfer |-> t, pc |-> "call"]
    BY <1>5 DEF DoneParse
  <2>4. UNCHANGED <<easy, life, posted, answers, code>>
    BY <1>5 DEF DoneParse
  <2>5. ~Unparsed(t)' /\ \A u \in Transfer \ {t} : Unparsed(u)' => Unparsed(u)
    BY <2>2, <2>3, <2>4 DEF Unparsed, DoingAt
  <2>6. \A u \in Transfer \ {t} : Closed(u)' => Closed(u)
    BY <2>3, <2>4 DEF Closed, DoingAt
  <2>7. \A u \in Transfer : Early(u)' <=> Early(u)
    BY <2>4 DEF Early
  <2>8. /\ \A u \in Transfer \ {t} : successed'[u] = successed[u]
        /\ successed'[t] <=> successed[t] \/ (code[t] = "ok" /\ valid)
    BY <1>5, Zenon DEF DoneParse, TransferInv, TypeOK
  <2> QED
    BY <2>1, <2>4, <2>5, <2>6, <2>7, <2>8
<1>6. ASSUME NEW t \in Transfer, t \notin Downloader, NEW valid \in BOOLEAN,
             DoneParse(t, valid), UNCHANGED files
      PROVE DownloadInv'
  <2>1. \A u \in Downloader : u \in Transfer \ {t}
    BY <1>1, <1>6
  <2>2. UNCHANGED <<out, tmp, target, short, blunder>>
    BY <1>6 DEF files
  <2>3. \A u \in Downloader : /\ Collecting(u) => Collecting(u)'
                              /\ Delivered(u) => Delivered(u)'
    BY <1>5, <1>6, <2>1, <2>2 DEF Collecting, Delivered
  <2> QED
    BY <1>5, <1>6, <2>1, <2>2, <2>3 DEF DownloadInv, DTypeOK
<1>7. ASSUME NEW t \in Transfer, NEW how \in CloseEnd, Close(t, how) PROVE DownloadInv'
  <2> DEFINE valid == how # "rename fails"
  <2>1. t \in Downloader /\ DoneParse(t, valid) /\ valid \in BOOLEAN /\ UNCHANGED short
    BY <1>7 DEF Close
  <2>2. \A u \in Downloader \ {t} : u \in Transfer \ {t}
    BY <1>1
  <2>3. Collecting(t) /\ blunder[t] \in CloseEnd \cup {None}
    BY <1>5, <2>1 DEF DownloadInv, DTypeOK
  <2>4. DTypeOK'
    <3>1. CASE out[t] # "open"
      BY <1>7, <3>1 DEF Close, DownloadInv, DTypeOK
    <3>2. CASE out[t] = "open"
      <4>1. /\ out' = [out EXCEPT ![t] = "closed"]
            /\ blunder' = [blunder EXCEPT ![t] = how]
            /\ tmp' \in {tmp, [tmp EXCEPT ![t] = "none"]}
            /\ target' \in {target, [target EXCEPT ![t] = "torn"], [target EXCEPT ![t] = tmp[t]]}
        BY <1>7, <3>2 DEF Close
      <4>2. tmp[t] \in {"whole", "torn"}
        BY <2>1, <2>3, <3>2 DEF Collecting, DownloadInv, DTypeOK
      <4>3. target' \in [Downloader -> {"old", "whole", "torn"}]
        BY <2>1, <4>1, <4>2 DEF DownloadInv, DTypeOK
      <4>4. tmp' \in [Downloader -> {"none", "whole", "torn"}]
        BY <2>1, <4>1 DEF DownloadInv, DTypeOK
      <4>5. /\ out' \in [Downloader -> {"new", "open", "closed"}]
            /\ blunder' \in [Downloader -> CloseEnd \cup {None}]
        BY <2>1, <4>1 DEF DownloadInv, DTypeOK
      <4> QED
        BY <2>1, <4>3, <4>4, <4>5 DEF DownloadInv, DTypeOK
    <3> QED
      BY <3>1, <3>2
  <2>5. \A u \in Downloader \ {t} : /\ out'[u] = out[u] /\ tmp'[u] = tmp[u]
                                    /\ target'[u] = target[u] /\ blunder'[u] = blunder[u]
    BY <1>7 DEF Close, DownloadInv, DTypeOK
  <2>6. \A u \in Downloader \ {t} : /\ Collecting(u) => Collecting(u)'
                                    /\ Delivered(u) => Delivered(u)'
    BY <1>5, <2>1, <2>2, <2>5 DEF Collecting, Delivered
  <2>7. Delivered(t)' /\ (target'[t] = "torn" => blunder'[t] = "flush fails")
    <3>1. successed'[t] <=> code[t] = "ok" /\ how # "rename fails"
      BY <1>5, <2>1, <2>3 DEF Collecting
    <3>2. CASE out[t] # "open"
      <4>1. how = "well" /\ UNCHANGED <<out, tmp, target, blunder>>
        BY <1>7, <3>2 DEF Close
      <4>2. out[t] = "new" /\ tmp[t] = "none" /\ target[t] = "old"
        BY <2>1, <2>3, <3>2 DEF Collecting, DownloadInv, DTypeOK
      <4> QED
        BY <4>1, <4>2 DEF Delivered
    <3>3. CASE out[t] = "open"
      <4>1. /\ how = "rename fails" => code[t] = "ok"
            /\ how = "remove fails" => code[t] # "ok"
            /\ blunder' = [blunder EXCEPT ![t] = how]
            /\ tmp' = IF how \in {"rename fails", "remove fails"} THEN tmp
                      ELSE [tmp EXCEPT ![t] = "none"]
            /\ target' = IF code[t] # "ok" \/ how = "rename fails" THEN target
                         ELSE [target EXCEPT ![t] = IF how = "flush fails" THEN "torn" ELSE tmp[t]]
        BY <1>7, <3>3 DEF Close
      <4>2. blunder'[t] = how
        BY <2>1, <4>1 DEF DownloadInv, DTypeOK
      <4>3. tmp'[t] # "none" => how \in {"rename fails", "remove fails"}
        BY <2>1, <4>1 DEF DownloadInv, DTypeOK
      <4>4. target[t] = "old"
        BY <2>3 DEF Collecting
      <4>5. code[t] = "ok" => tmp[t] = "whole"
        BY <2>1, <2>3, <3>3 DEF Collecting, DownloadInv, DTypeOK
      <4>6. target'[t] = IF code[t] # "ok" \/ how = "rename fails" THEN "old"
                         ELSE IF how = "flush fails" THEN "torn" ELSE "whole"
        BY <2>1, <4>1, <4>4, <4>5 DEF DownloadInv, DTypeOK
      <4>7. (successed'[t] => target'[t] # "old") /\ (~successed'[t] => target'[t] = "old")
        BY <3>1, <4>6
      <4>8. target'[t] = "torn" => blunder'[t] = "flush fails"
        BY <4>2, <4>6
      <4> QED
        BY <4>2, <4>3, <4>7, <4>8 DEF Delivered
    <3> QED
      BY <3>2, <3>3
  <2> QED
    BY <1>1, <1>5, <2>1, <2>2, <2>4, <2>5, <2>6, <2>7 DEF DownloadInv
<1>8. ASSUME UNCHANGED dvars PROVE DownloadInv'
  <2>1. Frame /\ UNCHANGED files
    BY <1>8 DEF dvars, vars, Frame, Unparsed, Closed, Early, DoingAt
  <2> QED
    BY <2>1, FrameInv
<1> QED
  BY <1>2, <1>3, <1>4, <1>6, <1>7, <1>8 DEF DNext, Ends

\* downloader.cpp:22-97.  The file at file_ is never replaced by a part of the
\* body, but for a flush that failed unnoticed; the handler is told the truth,
\* and finds no temporary file, but for a rename or a remove that failed.
THEOREM DownloadExactHolds == DSpec => []DownloadExact
<1>1. DownloadInv => DownloadExact
  BY DEF DownloadInv, Closed, Delivered, DownloadExact
<1>2. DSpec => [](TransferInv /\ DownloadInv)
  BY DownloadInit, DownloadNext, DownloadImplementsTransfer, TransferInvariant, PTL
  DEF DSpec
<1> QED
  BY <1>1, <1>2, PTL

=============================================================================
