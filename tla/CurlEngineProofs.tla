--------------------------- MODULE CurlEngineProofs ---------------------------
(***************************************************************************)
(* No event libcurl wants is forgotten, nothing is waited for on a socket  *)
(* it has removed, waits do not multiply, and the timer it asked for       *)
(* comes: for every number of sockets, of calls of action() and of         *)
(* transfers.                                                              *)
(***************************************************************************)
EXTENDS CurlEngine, TLAPS

-----------------------------------------------------------------------------
(* The inductive invariant of the sockets.                                 *)

\* The mask of a socket is what libcurl wants, except after a race; the check
\* of a handler has found this mask, except when another thread was faster.
Masks ==
    \A s \in Sock \ raced :
        /\ mask[s] = wants[s]
        /\ handler \in Renewing /\ handler.sock = s => handler.what = mask[s]

\* libcurl has our pointer for the sockets it wants events of, and these are
\* open.
Assigned ==
    \A s \in Sock :
        /\ s \in assigned <=> wants[s] # {}
        /\ wants[s] # {} => state[s] = "open"

\* The running handler may start one more wait on s for d: that of the event it
\* was called for, or one of an event that has come into the mask since.
MayRenew(s, d) ==
    \/ /\ handler \in Processing
       /\ handler.sock = s
       /\ d = handler.dir \/ d \in mask[s] \ handler.prev
    \/ /\ handler \in Renewing
       /\ handler.sock = s
       /\ d \in handler.what \ (handler.prev \ {handler.dir})

\* ExtraWaitsBounded, with the wait the running handler may start.
Load ==
    \A s \in Sock : \A d \in Dir :
        waits[s][d] + queued[s][d] + (IF MayRenew(s, d) THEN 1 ELSE 0) <= 2 * calls[s]

SocketInv ==
    /\ TypeOK
    /\ Masks
    /\ Assigned
    /\ Watched
    /\ RemovedIsQuiet
    /\ Load

-----------------------------------------------------------------------------
(* The inductive invariant of the engine.                                  *)

\* libcurl asks for a timer while it has transfers; process() goes on to cancel
\* the timer while there are none.
Timing ==
    /\ wanted => transfers > 0
    /\ phase = "cancel" => transfers = 0

EngineInv ==
    /\ ETypeOK
    /\ attached \in 0..MaxTransfers
    /\ transfers <= attached
    /\ Timing
    /\ TimerKept

-----------------------------------------------------------------------------
(* Proofs about the sockets.                                               *)

\* A handler is at one place at a time.
LEMMA HandlerKinds ==
    /\ Processing \cap Renewing = {}
    /\ NoHandler \notin Processing /\ NoHandler \notin Renewing
BY CurlSocketAssumption DEF Processing, Renewing

\* What Service::update does to the mask and the waits of a socket.
LEMMA UpdateEffect ==
    ASSUME TypeOK, NEW s \in Sock, NEW what \in SUBSET Dir, NEW prev, Update(s, what, prev)
    PROVE  /\ mask' \in [Sock -> SUBSET Dir]
           /\ waits' \in [Sock -> [Dir -> Nat]]
           /\ mask'[s] = what
           /\ \A d \in Dir : waits'[s][d] = waits[s][d] + (IF d \in what \ prev THEN 1 ELSE 0)
           /\ \A t \in Sock \ {s} : mask'[t] = mask[t] /\ waits'[t] = waits[t]
BY DEF TypeOK, Update

LEMMA SocketInit == Init => SocketInv
<1> SUFFICES ASSUME Init PROVE SocketInv
  OBVIOUS
<1>1. TypeOK
  BY CurlSocketAssumption DEF Init, TypeOK, Zero
<1>2. Masks /\ Assigned
  BY HandlerKinds DEF Init, Masks, Assigned
<1>3. Watched /\ RemovedIsQuiet
  BY <1>1 DEF Init, Watched, RemovedIsQuiet
<1>4. Load
  BY HandlerKinds DEF Init, Load, MayRenew, Zero
<1> QED
  BY <1>1, <1>2, <1>3, <1>4 DEF SocketInv

\* A step of libcurl or of a handler keeps the invariant.
LEMMA SocketNext == SocketInv /\ [Next]_vars => SocketInv'
<1> SUFFICES ASSUME SocketInv, [Next]_vars PROVE SocketInv'
  OBVIOUS
<1> USE DEF SocketInv
<1>1. ASSUME NEW s \in Sock, Open(s) PROVE SocketInv'
  <2>1. TypeOK'
    BY <1>1 DEF Open, TypeOK
  <2>2. Assigned'
    BY <1>1 DEF Open, Assigned, TypeOK
  <2>3. Masks' /\ RemovedIsQuiet' /\ Load'
    BY <1>1 DEF Open, Masks, RemovedIsQuiet, Load, MayRenew
  <2>4. Watched'
    BY <1>1, <2>1 DEF Open, Watched, WillRenew
  <2> QED
    BY <2>1, <2>2, <2>3, <2>4
<1>2. ASSUME NEW s \in Sock, NEW what \in SUBSET Dir, ActionPoll(s, what) PROVE SocketInv'
  <2> DEFINE prev == IF s \in assigned THEN mask[s] ELSE {}
  <2>1. /\ mask' \in [Sock -> SUBSET Dir]
        /\ waits' \in [Sock -> [Dir -> Nat]]
        /\ mask'[s] = what
        /\ \A d \in Dir : waits'[s][d] = waits[s][d] + (IF d \in what \ prev THEN 1 ELSE 0)
        /\ \A t \in Sock \ {s} : mask'[t] = mask[t] /\ waits'[t] = waits[t]
    <3>1. Update(s, what, prev) /\ TypeOK
      BY <1>2 DEF ActionPoll
    <3> HIDE DEF prev
    <3> QED
      BY <3>1, UpdateEffect
  <2>2. /\ wants' = [wants EXCEPT ![s] = what]
        /\ calls' = [calls EXCEPT ![s] = @ + 1]
        /\ calls[s] < MaxCalls /\ state[s] = "open" /\ what # {}
        /\ assigned' = assigned \cup {s}
        /\ raced' = IF handler \in Renewing /\ handler.sock = s THEN raced \cup {s} ELSE raced
        /\ UNCHANGED <<state, queued, handler, broken>>
    BY <1>2 DEF ActionPoll, Changed
  <2> HIDE DEF prev
  <2>3. TypeOK'
    BY <2>1, <2>2, CurlSocketAssumption DEF TypeOK
  <2>4. Masks'
    BY <2>1, <2>2 DEF Masks, TypeOK
  <2>5. Assigned'
    BY <2>1, <2>2 DEF Assigned, TypeOK
  <2>6. RemovedIsQuiet'
    BY <2>1, <2>2 DEF RemovedIsQuiet, TypeOK
  <2>7. Watched'
    <3> SUFFICES ASSUME NEW t \in Sock \ (broken \cup raced)', NEW d \in wants'[t]
                 PROVE  (waits[t][d] + queued[t][d] > 0)' \/ WillRenew(t, d)'
      BY <2>3 DEF Watched
    <3>1. t \in Sock \ (broken \cup raced) /\ d \in Dir
      BY <2>2, <2>3 DEF TypeOK
    <3>2. CASE t # s
      BY <2>1, <2>2, <3>1, <3>2 DEF Watched, WillRenew, TypeOK
    <3>3. CASE t = s /\ d \in prev
      <4>1. d \in wants[s]
        BY <3>1, <3>3 DEF prev, Masks
      <4>2. waits[s][d] + queued[s][d] > 0 \/ WillRenew(s, d)
        BY <3>1, <3>3, <4>1 DEF Watched
      <4>3. WillRenew(s, d) => WillRenew(s, d)'
        BY <2>2 DEF WillRenew
      <4>4. waits'[s][d] = waits[s][d] /\ queued' = queued
        BY <2>1, <2>2, <3>1, <3>3 DEF TypeOK
      <4> QED
        BY <3>3, <4>2, <4>3, <4>4
    <3>4. CASE t = s /\ d \notin prev
      BY <2>1, <2>2, <3>1, <3>4 DEF TypeOK
    <3> QED
      BY <3>2, <3>3, <3>4
  <2>8. Load'
    <3> SUFFICES ASSUME NEW t \in Sock, NEW d \in Dir
                 PROVE  (waits[t][d] + queued[t][d] + (IF MayRenew(t, d) THEN 1 ELSE 0)
                            <= 2 * calls[t])'
      BY DEF Load
    <3>1. CASE t # s
      BY <2>1, <2>2, <3>1 DEF Load, MayRenew, TypeOK
    <3>2. CASE t = s
      <4>1. waits'[s][d] <= waits[s][d] + 1 /\ queued'[s][d] = queued[s][d]
        <5>1. waits[s][d] \in Nat
          BY DEF TypeOK
        <5> QED
          BY <2>1, <2>2, <5>1
      <4>2. calls'[s] = calls[s] + 1
        BY <2>2 DEF TypeOK
      <4>3. waits[s][d] + queued[s][d] <= 2 * calls[s]
        BY DEF Load, TypeOK
      <4>4. calls[s] \in Nat /\ waits[s][d] \in Nat /\ queued[s][d] \in Nat /\ waits'[s][d] \in Nat
        BY <2>3, CurlSocketAssumption DEF TypeOK
      <4>5. waits'[s][d] + queued'[s][d] + 1 <= 2 * calls'[s]
        BY <4>1, <4>2, <4>3, <4>4
      <4> HIDE DEF MayRenew
      <4> QED
        BY <3>2, <4>5, <4>4, <4>1, <4>2
    <3> QED
      BY <3>1, <3>2
  <2> QED
    BY <2>3, <2>4, <2>5, <2>6, <2>7, <2>8
<1>3. ASSUME NEW s \in Sock, ActionRemove(s) PROVE SocketInv'
  <2>1. /\ \A t \in Sock : mask'[t] \subseteq mask[t]
        /\ \A t \in Sock : \A d \in Dir : waits'[t][d] <= waits[t][d]
        /\ \A t \in Sock \ {s} : mask'[t] = mask[t] /\ waits'[t] = waits[t]
        /\ mask' \in [Sock -> SUBSET Dir] /\ waits' \in [Sock -> [Dir -> Nat]]
    <3>1. CASE state[s] = "open" /\ mask[s] # {}
      <4>1. /\ mask' = [mask EXCEPT ![s] = {}]
            /\ waits' = [waits EXCEPT ![s] = Zero]
        BY <1>3, <3>1 DEF ActionRemove
      <4>2. Zero \in [Dir -> Nat] /\ \A d \in Dir : Zero[d] = 0
        BY DEF Zero
      <4>3. /\ mask' \in [Sock -> SUBSET Dir] /\ waits' \in [Sock -> [Dir -> Nat]]
            /\ waits'[s] = Zero /\ mask'[s] = {}
            /\ \A t \in Sock \ {s} : mask'[t] = mask[t] /\ waits'[t] = waits[t]
        BY <4>1, <4>2 DEF TypeOK
      <4>4. \A d \in Dir : waits[s][d] \in Nat /\ waits'[s][d] = 0
        BY <4>2, <4>3 DEF TypeOK
      <4>5. \A t \in Sock \ {s} : \A d \in Dir : waits[t][d] \in Nat
        BY DEF TypeOK
      <4>6. \A t \in Sock : \A d \in Dir : waits'[t][d] <= waits[t][d]
        BY <4>3, <4>4, <4>5
      <4> QED
        BY <4>3, <4>6
    <3>2. CASE ~(state[s] = "open" /\ mask[s] # {})
      BY <1>3, <3>2 DEF ActionRemove, TypeOK
    <3> QED
      BY <3>1, <3>2
  <2>2. /\ wants' = [wants EXCEPT ![s] = {}]
        /\ assigned' = assigned \ {s}
        /\ raced' = IF handler \in Renewing /\ handler.sock = s THEN raced \cup {s} ELSE raced
        /\ UNCHANGED <<state, queued, handler, calls, broken>>
    BY <1>3 DEF ActionRemove, Changed
  <2>3. TypeOK'
    BY <2>1, <2>2 DEF TypeOK
  <2>4. s \notin raced => mask'[s] = {} /\ waits'[s] = Zero
    BY <1>3 DEF ActionRemove, Masks, Assigned, TypeOK
  <2>5. Masks'
    BY <2>1, <2>2, <2>4 DEF Masks, TypeOK
  <2>6. Assigned'
    BY <2>2 DEF Assigned, TypeOK
  <2>7. RemovedIsQuiet'
    BY <2>1, <2>2, <2>4 DEF RemovedIsQuiet, TypeOK
  <2>8. Watched'
    BY <2>1, <2>2, <2>3 DEF Watched, WillRenew, TypeOK
  <2>9. Load'
    <3> SUFFICES ASSUME NEW t \in Sock, NEW d \in Dir
                 PROVE  (waits[t][d] + queued[t][d] + (IF MayRenew(t, d) THEN 1 ELSE 0)
                            <= 2 * calls[t])'
      BY DEF Load
    <3>1. MayRenew(t, d)' => MayRenew(t, d)
      BY <2>1, <2>2 DEF MayRenew
    <3>2. waits'[t][d] <= waits[t][d] /\ queued'[t][d] = queued[t][d] /\ calls'[t] = calls[t]
      BY <2>1, <2>2
    <3>3. calls[t] \in Nat /\ waits[t][d] \in Nat /\ queued[t][d] \in Nat /\ waits'[t][d] \in Nat
      BY <2>3, CurlSocketAssumption DEF TypeOK
    <3>4. waits[t][d] + queued[t][d] + (IF MayRenew(t, d) THEN 1 ELSE 0) <= 2 * calls[t]
      BY DEF Load
    <3> QED
      BY <3>1, <3>2, <3>3, <3>4
  <2> QED
    BY <2>3, <2>5, <2>6, <2>7, <2>8, <2>9
<1>4. ASSUME NEW s \in Sock, Close(s) PROVE SocketInv'
  <2>1. /\ state' = [state EXCEPT ![s] = "closed"]
        /\ wants[s] = {}
        /\ raced' = IF handler \in Renewing /\ handler.sock = s THEN raced \cup {s} ELSE raced
        /\ UNCHANGED <<assigned, mask, waits, queued, handler, wants, calls, broken>>
    BY <1>4 DEF Close, Changed
  <2>2. TypeOK'
    BY <2>1 DEF TypeOK
  <2>3. Masks' /\ RemovedIsQuiet' /\ Load'
    BY <2>1 DEF Masks, RemovedIsQuiet, Load, MayRenew
  <2>4. Assigned'
    BY <2>1 DEF Assigned, TypeOK
  <2>5. Watched'
    BY <2>1, <2>2 DEF Watched, WillRenew
  <2> QED
    BY <2>2, <2>3, <2>4, <2>5
<1>5. ASSUME NEW s \in Sock, NEW e \in Dir, Ready(s, e) PROVE SocketInv'
  <2>1. /\ waits' \in [Sock -> [Dir -> Nat]] /\ queued' \in [Sock -> [Dir -> Nat]]
        /\ \A t \in Sock : \A d \in Dir :
              waits'[t][d] + queued'[t][d] = waits[t][d] + queued[t][d]
        /\ \A t \in Sock \ {s} : waits'[t] = waits[t]
        /\ waits[s][e] > 0
        /\ UNCHANGED <<state, assigned, mask, handler, wants, calls, broken, raced>>
    BY <1>5 DEF Ready, TypeOK
  <2>2. TypeOK'
    BY <2>1 DEF TypeOK
  <2>3. Masks' /\ Assigned'
    BY <2>1 DEF Masks, Assigned
  <2>4. RemovedIsQuiet'
    BY <2>1 DEF RemovedIsQuiet, Zero
  <2>5. Watched'
    <3> SUFFICES ASSUME NEW t \in Sock \ (broken \cup raced)', NEW d \in wants'[t]
                 PROVE  (waits[t][d] + queued[t][d] > 0)' \/ WillRenew(t, d)'
      BY <2>2 DEF Watched
    <3>1. d \in Dir
      BY <2>2 DEF TypeOK
    <3>2. waits[t][d] + queued[t][d] > 0 \/ WillRenew(t, d)
      BY <2>1 DEF Watched
    <3>3. WillRenew(t, d) => WillRenew(t, d)'
      BY <2>1 DEF WillRenew
    <3> QED
      BY <2>1, <3>1, <3>2, <3>3
  <2>6. Load'
    BY <2>1 DEF Load, MayRenew
  <2> QED
    BY <2>2, <2>3, <2>4, <2>5, <2>6
<1>6. ASSUME NEW s \in Sock, NEW e \in Dir, NEW err \in BOOLEAN, HandlerBegin(s, e, err)
      PROVE SocketInv'
  <2> DEFINE h == [pc |-> "process", sock |-> s, dir |-> e, err |-> err, prev |-> mask[s]]
  <2>1. /\ queued' \in [Sock -> [Dir -> Nat]]
        /\ \A t \in Sock : \A d \in Dir :
              queued'[t][d] = queued[t][d] - (IF t = s /\ d = e THEN 1 ELSE 0)
        /\ broken' = IF err THEN broken \cup {s} ELSE broken
        /\ UNCHANGED <<state, assigned, mask, waits, wants, calls, raced>>
    BY <1>6 DEF HandlerBegin, TypeOK
  <2>2. handler = NoHandler /\ handler' = h /\ h \in Processing /\ h \notin Renewing
    BY <1>6, HandlerKinds DEF HandlerBegin, Processing, TypeOK
  <2>3. TypeOK'
    BY <2>1, <2>2 DEF TypeOK
  <2>4. Masks' /\ Assigned' /\ RemovedIsQuiet'
    BY <2>1, <2>2 DEF Masks, Assigned, RemovedIsQuiet
  <2>5. Watched'
    <3> SUFFICES ASSUME NEW t \in Sock \ (broken \cup raced)', NEW d \in wants'[t]
                 PROVE  (waits[t][d] + queued[t][d] > 0)' \/ WillRenew(t, d)'
      BY <2>3 DEF Watched
    <3>1. d \in Dir /\ t \notin broken \cup raced
      BY <2>1, <2>3 DEF TypeOK
    <3>2. waits[t][d] + queued[t][d] > 0
      BY <2>1, <2>2, <3>1, HandlerKinds DEF Watched, WillRenew
    <3>3. CASE t = s /\ d = e
      BY <2>1, <2>2, <3>3 DEF WillRenew
    <3>4. CASE ~(t = s /\ d = e)
      BY <2>1, <3>1, <3>2, <3>4 DEF TypeOK
    <3> QED
      BY <3>3, <3>4
  <2>6. Load'
    <3> SUFFICES ASSUME NEW t \in Sock, NEW d \in Dir
                 PROVE  (waits[t][d] + queued[t][d] + (IF MayRenew(t, d) THEN 1 ELSE 0)
                            <= 2 * calls[t])'
      BY DEF Load
    <3>1. MayRenew(t, d)' => t = s /\ d = e
      BY <2>1, <2>2 DEF MayRenew
    <3>2. waits[t][d] + queued[t][d] <= 2 * calls[t]
      BY <2>2, HandlerKinds DEF Load, MayRenew, TypeOK
    <3>3. calls[t] \in Nat /\ waits[t][d] \in Nat /\ queued[t][d] \in Nat
      BY CurlSocketAssumption DEF TypeOK
    <3> QED
      BY <2>1, <3>1, <3>2, <3>3
  <2> QED
    BY <2>3, <2>4, <2>5, <2>6
<1>7. ASSUME HandlerCheck PROVE SocketInv'
  <2>1. UNCHANGED <<state, assigned, mask, waits, queued, wants, calls, broken, raced>>
    BY <1>7 DEF HandlerCheck
  <2>2. handler \in Processing /\ handler \notin Renewing
    BY <1>7, HandlerKinds DEF HandlerCheck
  <2>3. PICK s \in Sock : handler.sock = s
    BY <2>2 DEF Processing
  <2>4. CASE ~handler.err /\ state[s] = "open" /\ mask[s] # {}
    <3>1. /\ handler' \in Renewing /\ handler' \notin Processing
          /\ handler'.pc = "renew" /\ handler'.sock = s /\ handler'.dir = handler.dir
          /\ handler'.prev = handler.prev /\ handler'.what = mask[s]
      BY <1>7, <2>2, <2>3, <2>4 DEF HandlerCheck, Processing, Renewing, TypeOK
    <3>2. TypeOK'
      BY <2>1, <3>1 DEF TypeOK
    <3>3. Masks' /\ Assigned' /\ RemovedIsQuiet'
      BY <2>1, <3>1 DEF Masks, Assigned, RemovedIsQuiet
    <3>4. Watched'
      BY <2>1, <2>2, <2>3, <3>1, <3>2 DEF Watched, WillRenew, Masks
    <3>5. Load'
      <4> SUFFICES ASSUME NEW t \in Sock, NEW d \in Dir
                   PROVE  (waits[t][d] + queued[t][d] + (IF MayRenew(t, d) THEN 1 ELSE 0)
                              <= 2 * calls[t])'
        BY DEF Load
      <4>1. MayRenew(t, d)' => MayRenew(t, d)
        BY <2>1, <2>2, <2>3, <3>1 DEF MayRenew
      <4>2. calls[t] \in Nat /\ waits[t][d] \in Nat /\ queued[t][d] \in Nat
        BY CurlSocketAssumption DEF TypeOK
      <4> QED
        BY <2>1, <4>1, <4>2 DEF Load
    <3> QED
      BY <3>2, <3>3, <3>4, <3>5
  <2>5. CASE ~(~handler.err /\ state[s] = "open" /\ mask[s] # {})
    <3>1. handler' = NoHandler
      BY <1>7, <2>3, <2>5 DEF HandlerCheck
    <3>2. TypeOK'
      BY <2>1, <3>1 DEF TypeOK
    <3>3. Masks' /\ Assigned' /\ RemovedIsQuiet'
      BY <2>1, <3>1, HandlerKinds DEF Masks, Assigned, RemovedIsQuiet
    <3>4. Watched'
      <4> SUFFICES ASSUME NEW t \in Sock \ (broken \cup raced), NEW d \in wants[t],
                          WillRenew(t, d)
                   PROVE  FALSE
        BY <2>1, <3>2 DEF Watched
      <4>1. t = s /\ ~handler.err
        BY <2>2, <2>3 DEF WillRenew, Processing
      <4>2. mask[s] # {} /\ state[s] = "open"
        BY <4>1 DEF Masks, Assigned
      <4> QED
        BY <2>5, <4>1, <4>2
    <3>5. Load'
      <4> SUFFICES ASSUME NEW t \in Sock, NEW d \in Dir
                   PROVE  (waits[t][d] + queued[t][d] + (IF MayRenew(t, d) THEN 1 ELSE 0)
                              <= 2 * calls[t])'
        BY DEF Load
      <4>1. ~MayRenew(t, d)'
        BY <3>1, HandlerKinds DEF MayRenew
      <4>2. calls[t] \in Nat /\ waits[t][d] \in Nat /\ queued[t][d] \in Nat
        BY CurlSocketAssumption DEF TypeOK
      <4> QED
        BY <2>1, <4>1, <4>2 DEF Load
    <3> QED
      BY <3>2, <3>3, <3>4, <3>5
  <2> QED
    BY <2>4, <2>5
<1>8. ASSUME HandlerRenew PROVE SocketInv'
  <2>1. /\ handler \in Renewing /\ handler \notin Processing /\ handler' = NoHandler
        /\ UNCHANGED <<state, assigned, queued, wants, calls, broken, raced>>
    BY <1>8, HandlerKinds DEF HandlerRenew
  <2>2. PICK s \in Sock : handler.sock = s
    BY <2>1 DEF Renewing
  <2> DEFINE prev == handler.prev \ {handler.dir}
  <2>3. /\ mask' \in [Sock -> SUBSET Dir]
        /\ waits' \in [Sock -> [Dir -> Nat]]
        /\ mask'[s] = handler.what
        /\ \A d \in Dir :
              waits'[s][d] = waits[s][d] + (IF d \in handler.what \ prev THEN 1 ELSE 0)
        /\ \A t \in Sock \ {s} : mask'[t] = mask[t] /\ waits'[t] = waits[t]
    <3>1. Update(s, handler.what, prev) /\ handler.what \in SUBSET Dir /\ TypeOK
      BY <1>8, <2>1, <2>2 DEF HandlerRenew, Renewing
    <3> HIDE DEF prev
    <3> QED
      BY <3>1, UpdateEffect
  <2>4. TypeOK'
    BY <2>1, <2>3 DEF TypeOK
  <2>5. s \notin raced => mask'[s] = mask[s] /\ handler.what = wants[s]
    BY <2>1, <2>2, <2>3 DEF Masks
  <2>6. Masks' /\ Assigned'
    BY <2>1, <2>3, <2>5, HandlerKinds DEF Masks, Assigned
  <2>7. RemovedIsQuiet'
    <3> SUFFICES ASSUME NEW t \in Sock \ raced, wants[t] = {} PROVE waits'[t] = Zero
      BY <2>1 DEF RemovedIsQuiet
    <3>1. waits[t] = Zero
      BY DEF RemovedIsQuiet
    <3>2. \A d \in Dir : waits'[t][d] = waits[t][d]
      <4> SUFFICES ASSUME NEW d \in Dir PROVE waits'[t][d] = waits[t][d]
        OBVIOUS
      <4>1. waits[t][d] \in Nat
        BY DEF TypeOK
      <4>2. t = s => d \notin handler.what
        BY <2>5
      <4> QED
        BY <2>3, <4>1, <4>2
    <3> QED
      BY <2>3, <3>1, <3>2 DEF Zero
  <2>8. Watched'
    <3> SUFFICES ASSUME NEW t \in Sock \ (broken \cup raced), NEW d \in wants[t]
                 PROVE  waits'[t][d] + queued[t][d] > 0
      BY <2>1, <2>4 DEF Watched
    <3>1. d \in Dir
      BY DEF TypeOK
    <3>2. CASE WillRenew(t, d)
      <4>1. t = s /\ d = handler.dir /\ d \in handler.what
        BY <2>1, <2>2, <3>2 DEF WillRenew, Renewing
      <4> QED
        BY <2>3, <3>1, <4>1 DEF TypeOK
    <3>3. CASE waits[t][d] + queued[t][d] > 0
      <4>1. waits[t][d] \in Nat /\ queued[t][d] \in Nat
        BY <3>1 DEF TypeOK
      <4>2. waits'[t][d] \in {waits[t][d], waits[t][d] + 1}
        BY <2>3, <3>1, <4>1
      <4> QED
        BY <3>3, <4>1, <4>2
    <3> QED
      BY <3>2, <3>3 DEF Watched
  <2>9. Load'
    <3> SUFFICES ASSUME NEW t \in Sock, NEW d \in Dir
                 PROVE  (waits[t][d] + queued[t][d] + (IF MayRenew(t, d) THEN 1 ELSE 0)
                            <= 2 * calls[t])'
      BY DEF Load
    <3>1. ~MayRenew(t, d)'
      BY <2>1, HandlerKinds DEF MayRenew
    <3>2. calls[t] \in Nat /\ waits[t][d] \in Nat /\ queued[t][d] \in Nat
      BY CurlSocketAssumption DEF TypeOK
    <3>3. CASE t = s
      <4>1. MayRenew(s, d) <=> d \in handler.what \ prev
        BY <2>1, <2>2 DEF MayRenew
      <4> QED
        BY <2>1, <2>3, <3>1, <3>2, <3>3, <4>1 DEF Load
    <3>4. CASE t # s
      <4>1. waits'[t][d] = waits[t][d]
        BY <2>3, <3>4
      <4> QED
        BY <2>1, <3>1, <3>2, <4>1 DEF Load
    <3> QED
      BY <3>3, <3>4
  <2> QED
    BY <2>4, <2>6, <2>7, <2>8, <2>9
<1>9. ASSUME UNCHANGED vars PROVE SocketInv'
  BY <1>9
  DEF vars, TypeOK, Masks, Assigned, Watched, WillRenew, RemovedIsQuiet, Load,
      MayRenew
<1> HIDE DEF SocketInv
<1> QED
  BY <1>1, <1>2, <1>3, <1>4, <1>5, <1>6, <1>7, <1>8, <1>9 DEF Next

\* The invariant holds in every state of the service, whoever drives it.
THEOREM SocketInvariant == Spec => []SocketInv
BY SocketInit, SocketNext, PTL DEF Spec

\* The three properties follow from it.
LEMMA SocketProperties == SocketInv => Watched /\ RemovedIsQuiet /\ ExtraWaitsBounded
<1> SUFFICES ASSUME SocketInv PROVE ExtraWaitsBounded
  BY DEF SocketInv
<1> SUFFICES ASSUME NEW s \in Sock, NEW d \in Dir
             PROVE  waits[s][d] + queued[s][d] <= 2 * calls[s]
  BY DEF ExtraWaitsBounded
<1>1. calls[s] \in Nat /\ waits[s][d] \in Nat /\ queued[s][d] \in Nat
  BY CurlSocketAssumption DEF SocketInv, TypeOK
<1> QED
  BY <1>1 DEF SocketInv, Load

-----------------------------------------------------------------------------
(* Proofs about the engine.                                                *)

\* What the engine does to the sockets, the service may do.
LEMMA EngineStep == [ENext]_evars => [Next]_vars
<1> SUFFICES ASSUME [ENext]_evars PROVE [Next]_vars
  OBVIOUS
<1>1. CASE SocketStep
  BY <1>1 DEF SocketStep, Next
<1>2. CASE SocketBegin
  BY <1>2 DEF SocketBegin, Next
<1>3. CASE SocketCheck
  BY <1>3 DEF SocketCheck, Next
<1>4. CASE \/ \E ms \in {"never", "now", "later"} : Retime(ms)
           \/ \E ms \in {"now", "later"} : Attach(ms)
           \/ Detach \/ ProcessAction \/ ProcessCancel
  BY <1>4 DEF Retime, Attach, Detach, ProcessAction, ProcessCancel
<1>5. CASE \/ TimerExpires \/ OnTimer \/ PingerExpires \/ OnPinger
           \/ StopService \/ Join
  BY <1>5 DEF TimerExpires, OnTimer, PingerExpires, OnPinger, StopService, Join
<1>6. CASE UNCHANGED evars
  BY <1>6 DEF evars
<1> QED
  BY <1>1, <1>2, <1>3, <1>4, <1>5, <1>6 DEF ENext

\* engine.cpp, service.cpp.  The engine implements the specification of the
\* sockets: every behaviour of the engine is one of the service.
THEOREM EngineImplementsService == ESpec => Spec
BY EngineStep, PTL DEF ESpec, EInit, Spec

\* service.cpp:79-196.  No event libcurl wants to know of is forgotten, whatever
\* it changes while a handler is inside process().
THEOREM WatchedHolds == ESpec => []Watched
BY EngineImplementsService, SocketInvariant, SocketProperties, PTL

\* service.cpp:103-112,173-178.  Nothing is waited for on a removed socket.
THEOREM RemovedIsQuietHolds == ESpec => []RemovedIsQuiet
BY EngineImplementsService, SocketInvariant, SocketProperties, PTL

\* service.cpp:177-191.  A call of action() adds two waits at most.
THEOREM ExtraWaitsBoundedHolds == ESpec => []ExtraWaitsBounded
BY EngineImplementsService, SocketInvariant, SocketProperties, PTL

LEMMA EngineInit == EInit => EngineInv
BY CurlEngineAssumption DEF EInit, EngineInv, ETypeOK, Timing, TimerKept

\* A step of the engine keeps the invariant of its timers.
LEMMA EngineNext == EngineInv /\ [ENext]_evars => EngineInv'
<1> SUFFICES ASSUME EngineInv, [ENext]_evars PROVE EngineInv'
  OBVIOUS
<1> USE CurlEngineAssumption DEF EngineInv, ETypeOK, Timing, TimerKept, timers, own
<1>1. CASE SocketStep
  BY <1>1 DEF SocketStep
<1>2. CASE SocketBegin
  BY <1>2 DEF SocketBegin, Begun
<1>3. CASE SocketCheck
  BY <1>3 DEF SocketCheck
<1>4. ASSUME NEW ms \in {"never", "now", "later"}, Retime(ms) PROVE EngineInv'
  BY <1>4 DEF Retime, SetTimer
<1>5. ASSUME NEW ms \in {"now", "later"}, Attach(ms) PROVE EngineInv'
  <2>1. /\ transfers' \in 0..MaxTransfers /\ transfers' > 0
        /\ attached' \in 0..MaxTransfers /\ transfers' <= attached'
    BY <1>5 DEF Attach
  <2>2. phase' \in {"action", "slipped", "done"}
    BY <1>5 DEF Attach
  <2>3. wanted' = (ms = "later") /\ timer' = IF ms = "later" THEN "armed" ELSE "off"
    BY <1>5 DEF Attach, SetTimer
  <2>4. wanted' => timer' # "off"
    BY <2>3
  <2>5. /\ engine' \in {"up", "joining", "hung", "joined"}
        /\ pinger' \in {"unset", "armed", "expired", "off"}
        /\ timer' \in {"off", "armed", "expired"}
    BY <1>5 DEF Attach, SetTimer
  <2> QED
    BY <2>1, <2>2, <2>4, <2>5
<1>6. CASE Detach
  <2>1. /\ transfers' \in 0..MaxTransfers /\ transfers > 0
        /\ attached' \in 0..MaxTransfers /\ transfers' <= attached'
    BY <1>6 DEF Detach
  <2>2. (wanted' => wanted /\ transfers' > 0) /\ (cut /\ transfers' > 0 => cut')
    BY <1>6, Zenon DEF Detach
  <2>3. phase # "cancel" /\ UNCHANGED <<pinger, timer, engine, phase>>
    BY <1>6 DEF Detach
  <2> QED
    BY <2>1, <2>2, <2>3
<1>7. CASE ProcessAction
  BY <1>7 DEF ProcessAction
<1>8. CASE ProcessCancel
  <2>1. wanted => phase = "slipped"
    BY <1>8 DEF ProcessCancel
  <2>2. phase = "slipped" => cut'
    BY <1>8, Zenon DEF ProcessCancel
  <2>3. UNCHANGED <<pinger, wanted, engine, transfers, attached>> /\ timer' = "off" /\ phase' = "done"
    BY <1>8 DEF ProcessCancel
  <2> QED
    BY <2>1, <2>2, <2>3
<1>9. CASE TimerExpires \/ OnTimer \/ PingerExpires \/ OnPinger
  BY <1>9 DEF TimerExpires, OnTimer, PingerExpires, OnPinger
<1>10. CASE StopService \/ Join
  BY <1>10 DEF StopService, Join
<1>11. CASE UNCHANGED evars
  BY <1>11 DEF evars
<1> HIDE DEF EngineInv
<1> QED
  BY <1>1, <1>2, <1>3, <1>4, <1>5, <1>6, <1>7, <1>8, <1>9, <1>10, <1>11 DEF ENext

\* multi.cpp:126-144 and service.cpp:50-77.  The timer libcurl has asked for
\* comes, unless process() cancelled it with a transfer that slipped in.
THEOREM TimerKeptHolds == ESpec => []TimerKept
<1>1. EngineInv => TimerKept
  BY DEF EngineInv
<1> QED
  BY <1>1, EngineInit, EngineNext, PTL DEF ESpec
=============================================================================
