--------------------------- MODULE EslClientProofs ---------------------------
(***************************************************************************)
(* A started ESL client is always served by a poll loop, and its           *)
(* notifications tell what NotificationsAlternate says of them, for every  *)
(* number of starts, connections and events.                               *)
(***************************************************************************)
EXTENDS EslClient, TLAPS

-----------------------------------------------------------------------------
(* The inductive invariant.                                                *)

\* The loops of start() calls still to come do not exist.
Fresh == \A l \in Loop : l > starts => pc[l] = "none"

\* connect() runs under mtxsend_.
Mutex == \A k, l \in Loop : pc[k] = "connecting" /\ pc[l] = "connecting" => k = l

\* stopped_ is clear only while a loop will look at it again.
Served == ~stopped => \E l \in Loop : pc[l] \notin {"none", "leaving", "done"}

\* A connection that was announced last has a loop that will tell of its loss:
\* one in subscribe() or recv(), or one past recv() that is to close it.
Watched ==
    told = "connect" =>
        \/ \E l \in Loop : pc[l] \in {"subscribe", "recv"}
        \/ connected /\ \E l \in Loop : pc[l] \in {"test", "lock", "leaving"}
        \/ Unannounced

\* Until two loops run at the same time there is one at most,
Solo == ~overlapped => \A k, l \in Polling : k = l

\* nothing is connected while there is none,
Idle == ~overlapped /\ Polling = {} => ~connected

\* and it knows, at each place, of the handle and of what was told: in
\* connect() and in the wait there is no connection; in subscribe() and recv()
\* one was announced; and a handle that is still connected although its loss
\* was announced is one recv() gave up on.
Loose(l) == pc[l] \in {"connecting", "wait"} => ~connected
Announced(l) == pc[l] \in {"subscribe", "recv"} => told = "connect"
GivenUp(l) ==
    pc[l] \in {"test", "lock", "leaving"} /\ told = "disconnect" /\ connected => kept

Story == ~overlapped => \A l \in Loop : Loose(l) /\ Announced(l) /\ GivenUp(l)

IInv ==
    /\ TypeOK
    /\ Fresh
    /\ Mutex
    /\ Served
    /\ Watched
    /\ Solo
    /\ Idle
    /\ Story

-----------------------------------------------------------------------------
\* The two halves of the type invariant: the flags, and the rest.
Flags ==
    /\ stopped \in BOOLEAN
    /\ connected \in BOOLEAN
    /\ refused \in BOOLEAN
    /\ turn \in BOOLEAN
    /\ dropped \in BOOLEAN
    /\ unclosed \in BOOLEAN
    /\ zeroed \in BOOLEAN
    /\ kept \in BOOLEAN
    /\ overlapped \in BOOLEAN

Places ==
    /\ starts \in 0..MaxStarts
    /\ pc \in [Loop -> PcStates]
    /\ lock = {l \in Loop : pc[l] = "connecting"}
    /\ mask \subseteq Event
    /\ asked \in [Loop -> SUBSET Event]
    /\ subscribed \subseteq Event
    /\ connects \in 0..MaxConnects
    /\ told \in {"connect", "disconnect"}

LEMMA Types == TypeOK <=> Flags /\ Places
BY DEF TypeOK, Flags, Places

\* The same of the next state.
LEMMA TypesNext == TypeOK' <=> Flags' /\ Places'
BY DEF TypeOK, Flags, Places

\* Initially there is no loop.
LEMMA InitInv == Init => IInv
<1> SUFFICES ASSUME Init PROVE IInv
  OBVIOUS
<1>1. TypeOK
  <2>1. Flags
    BY DEF Init, Flags
  <2>2. Places
    BY EslClientAssumption DEF Init, Places, PcStates
  <2> QED
    BY <2>1, <2>2, Types
<1>2. Fresh /\ Mutex /\ Served /\ Watched
  BY DEF Init, Fresh, Mutex, Served, Watched
<1>3. Solo /\ Idle /\ Story
  BY DEF Init, Solo, Idle, Story, Loose, Announced, GivenUp, Polling
<1> QED
  BY <1>1, <1>2, <1>3 DEF IInv

\* A step of the application or of a loop keeps the invariant.
LEMMA NextInv == IInv /\ [Next]_vars => IInv'
<1> SUFFICES ASSUME IInv, [Next]_vars PROVE IInv'
  OBVIOUS
<1> USE DEF nvars, evars, hvars
<1>0. TypeOK /\ Fresh /\ Mutex /\ Served /\ Watched /\ Solo /\ Idle /\ Story
  BY DEF IInv
<1>1. ASSUME NEW evts \in SUBSET Event, Start(evts) PROVE IInv'
  <2> DEFINE l == starts + 1
  <2>1. l \in Loop /\ pc[l] = "none"
    BY <1>0, <1>1, EslClientAssumption DEF TypeOK, Fresh, Start, Loop
  <2>2. TypeOK'
    <3>0. Flags /\ Places
      BY <1>0, Types
    <3>1. Flags'
      BY <3>0, <1>1 DEF Flags, Start
    <3>2. Places'
      BY <3>0, <1>1, <2>1, EslClientAssumption DEF Places, Start, PcStates
    <3> QED
      BY <3>1, <3>2, TypesNext
  <2>3. Fresh' /\ Mutex' /\ Served'
    BY <1>0, <1>1, EslClientAssumption DEF Fresh, Mutex, Served, TypeOK, Start, Loop
  <2>4. Watched'
    BY <1>0, <1>1, <2>1 DEF Watched, Unannounced, TypeOK, Start
  <2>5. Solo' /\ Idle'
    BY <1>0, <1>1, <2>1 DEF Solo, Idle, Polling, TypeOK, Start
  <2>6. Story'
    BY <1>0, <1>1, <2>1
    DEF Solo, Idle, Polling, Story, Loose, Announced, GivenUp, TypeOK, Start
  <2> QED
    BY <2>2, <2>3, <2>4, <2>5, <2>6 DEF IInv
<1>2. ASSUME Stop PROVE IInv'
  <2>1. UNCHANGED pc
    BY <1>2 DEF Stop
  <2>2. TypeOK'
    <3>0. Flags /\ Places
      BY <1>0, Types
    <3>1. Flags'
      BY <3>0, <1>2 DEF Flags, Stop
    <3>2. Places'
      BY <3>0, <1>2 DEF Places, Stop
    <3> QED
      BY <3>1, <3>2, TypesNext
  <2>3. Fresh' /\ Mutex' /\ Served'
    BY <1>0, <1>2 DEF Fresh, Mutex, Served, TypeOK, Stop
  <2>4. Watched'
    BY <1>0, <1>2 DEF Watched, Unannounced, TypeOK, Stop
  <2>5. Solo' /\ Idle'
    BY <1>0, <1>2 DEF Solo, Idle, Polling, TypeOK, Stop
  <2>6. Story'
    BY <1>0, <1>2
    DEF Solo, Idle, Polling, Story, Loose, Announced, GivenUp, TypeOK, Stop
  <2> QED
    BY <2>2, <2>3, <2>4, <2>5, <2>6 DEF IInv
<1>3. ASSUME Send PROVE IInv'
  <2>1. UNCHANGED pc
    BY <1>3 DEF Send
  <2>2. TypeOK'
    <3>0. Flags /\ Places
      BY <1>0, Types
    <3>1. Flags'
      BY <3>0, <1>3 DEF Flags, Send
    <3>2. Places'
      BY <3>0, <1>3 DEF Places, Send
    <3> QED
      BY <3>1, <3>2, TypesNext
  <2>3. Fresh' /\ Mutex' /\ Served'
    BY <1>0, <1>3 DEF Fresh, Mutex, Served, TypeOK, Send
  <2>4. Watched'
    BY <1>0, <1>3 DEF Watched, Unannounced, TypeOK, Send
  <2>5. Solo' /\ Idle'
    BY <1>0, <1>3 DEF Solo, Idle, Polling, TypeOK, Send
  <2>6. Story'
    BY <1>0, <1>3
    DEF Solo, Idle, Polling, Story, Loose, Announced, GivenUp, TypeOK, Send
  <2> QED
    BY <2>2, <2>3, <2>4, <2>5, <2>6 DEF IInv
<1>4. ASSUME NEW l \in Loop, StartMask(l) PROVE IInv'
  <2>1. pc[l] \in PcStates
    BY <1>0 DEF TypeOK
  <2>2. TypeOK'
    <3>0. Flags /\ Places
      BY <1>0, Types
    <3>1. Flags'
      BY <3>0, <1>4 DEF Flags, StartMask, Goto
    <3>2. Places'
      BY <3>0, <1>4 DEF Places, StartMask, Goto, PcStates
    <3> QED
      BY <3>1, <3>2, TypesNext
  <2>3. Fresh' /\ Mutex' /\ Served'
    BY <1>0, <1>4 DEF Fresh, Mutex, Served, TypeOK, StartMask, Goto
  <2>4. Watched'
    BY <1>0, <1>4 DEF Watched, Unannounced, TypeOK, StartMask, Goto
  <2>5. Solo' /\ Idle'
    BY <1>0, <1>4 DEF Solo, Idle, Polling, TypeOK, StartMask, Goto
  <2>6. Story'
    BY <1>0, <1>4
    DEF Solo, Idle, Polling, Story, Loose, Announced, GivenUp, TypeOK, StartMask, Goto
  <2> QED
    BY <2>2, <2>3, <2>4, <2>5, <2>6 DEF IInv
<1>5. ASSUME NEW l \in Loop, StartPost(l) PROVE IInv'
  <2>1. pc[l] \in PcStates
    BY <1>0 DEF TypeOK
  <2>2. TypeOK'
    <3>0. Flags /\ Places
      BY <1>0, Types
    <3>1. Flags'
      BY <3>0, <1>5 DEF Flags, StartPost, Goto
    <3>2. Places'
      BY <3>0, <1>5 DEF Places, StartPost, Goto, PcStates
    <3> QED
      BY <3>1, <3>2, TypesNext
  <2>3. Fresh' /\ Mutex' /\ Served'
    BY <1>0, <1>5 DEF Fresh, Mutex, Served, TypeOK, StartPost, Goto
  <2>4. Watched'
    BY <1>0, <1>5 DEF Watched, Unannounced, TypeOK, StartPost, Goto
  <2>5. Solo' /\ Idle'
    BY <1>0, <1>5 DEF Solo, Idle, Polling, TypeOK, StartPost, Goto
  <2>6. Story'
    BY <1>0, <1>5
    DEF Solo, Idle, Polling, Story, Loose, Announced, GivenUp, TypeOK, StartPost, Goto
  <2> QED
    BY <2>2, <2>3, <2>4, <2>5, <2>6 DEF IInv
<1>6. ASSUME NEW l \in Loop, PollBegin(l) PROVE IInv'
  <2>1. pc[l] \in PcStates
    BY <1>0 DEF TypeOK
  <2>2. TypeOK'
    <3>0. Flags /\ Places
      BY <1>0, Types
    <3>1. Flags'
      BY <3>0, <1>6 DEF Flags, PollBegin, Goto, Polling
    <3>2. Places'
      BY <3>0, <1>6 DEF Places, PollBegin, Goto, Polling, PcStates
    <3> QED
      BY <3>1, <3>2, TypesNext
  <2>3. Fresh' /\ Mutex' /\ Served'
    BY <1>0, <1>6 DEF Fresh, Mutex, Served, TypeOK, PollBegin, Goto, Polling
  <2>4. Watched'
    BY <1>0, <1>6 DEF Watched, Unannounced, TypeOK, PollBegin, Goto, Polling
  <2>5. Solo' /\ Idle'
    BY <1>0, <1>6 DEF Solo, Idle, Polling, TypeOK, PollBegin, Goto
  <2>6. Story'
    BY <1>0, <1>6
    DEF Solo, Idle, Polling, Story, Loose, Announced, GivenUp, TypeOK, PollBegin, Goto
  <2> QED
    BY <2>2, <2>3, <2>4, <2>5, <2>6 DEF IInv
<1>7. ASSUME NEW l \in Loop, TestStopped(l) PROVE IInv'
  <2>1. pc[l] \in PcStates
    BY <1>0 DEF TypeOK
  <2>2. TypeOK'
    <3>0. Flags /\ Places
      BY <1>0, Types
    <3>1. Flags'
      BY <3>0, <1>7 DEF Flags, TestStopped, Goto
    <3>2. Places'
      BY <3>0, <1>7 DEF Places, TestStopped, Goto, PcStates
    <3> QED
      BY <3>1, <3>2, TypesNext
  <2>3. Fresh' /\ Mutex' /\ Served'
    BY <1>0, <1>7 DEF Fresh, Mutex, Served, TypeOK, TestStopped, Goto
  <2>4. Watched'
    BY <1>0, <1>7 DEF Watched, Unannounced, TypeOK, TestStopped, Goto
  <2>5. Solo' /\ Idle'
    BY <1>0, <1>7 DEF Solo, Idle, Polling, TypeOK, TestStopped, Goto
  <2>6. Story'
    BY <1>0, <1>7
    DEF Solo, Idle, Polling, Story, Loose, Announced, GivenUp, TypeOK, TestStopped, Goto
  <2> QED
    BY <2>2, <2>3, <2>4, <2>5, <2>6 DEF IInv
<1>8. ASSUME NEW l \in Loop, ConnectBegin(l) PROVE IInv'
  <2>1. pc[l] \in PcStates
    BY <1>0 DEF TypeOK
  <2>2. TypeOK'
    <3>0. Flags /\ Places
      BY <1>0, Types
    <3>1. Flags'
      BY <3>0, <1>8 DEF Flags, ConnectBegin, Goto
    <3>2. Places'
      BY <3>0, <1>8 DEF Places, ConnectBegin, Goto, PcStates
    <3> QED
      BY <3>1, <3>2, TypesNext
  <2>3. Fresh' /\ Mutex' /\ Served'
    BY <1>0, <1>8 DEF Fresh, Mutex, Served, TypeOK, ConnectBegin, Goto
  <2>4. Watched'
    BY <1>0, <1>8 DEF Watched, Unannounced, TypeOK, ConnectBegin, Goto
  <2>5. Solo' /\ Idle'
    BY <1>0, <1>8 DEF Solo, Idle, Polling, TypeOK, ConnectBegin, Goto
  <2>6. Story'
    BY <1>0, <1>8
    DEF Solo, Idle, Polling, Story, Loose, Announced, GivenUp, TypeOK, ConnectBegin, Goto
  <2> QED
    BY <2>2, <2>3, <2>4, <2>5, <2>6 DEF IInv
<1>9. ASSUME NEW l \in Loop, ConnectOk(l) PROVE IInv'
  <2>1. pc[l] \in PcStates
    BY <1>0 DEF TypeOK
  <2>2. TypeOK'
    <3>0. Flags /\ Places
      BY <1>0, Types
    <3>1. Flags'
      BY <3>0, <1>9 DEF Flags, ConnectOk, Goto
    <3>2. Places'
      BY <3>0, <1>9, <1>0, EslClientAssumption DEF Places, ConnectOk, Goto, PcStates, Mutex
    <3> QED
      BY <3>1, <3>2, TypesNext
  <2>3. Fresh' /\ Mutex' /\ Served'
    BY <1>0, <1>9 DEF Fresh, Mutex, Served, TypeOK, ConnectOk, Goto
  <2>4. Watched'
    BY <1>0, <1>9 DEF Watched, Unannounced, TypeOK, ConnectOk, Goto
  <2>5. Solo' /\ Idle'
    BY <1>0, <1>9 DEF Solo, Idle, Polling, TypeOK, ConnectOk, Goto
  <2>6. Story'
    BY <1>0, <1>9
    DEF Solo, Idle, Polling, Story, Loose, Announced, GivenUp, TypeOK, ConnectOk, Goto
  <2> QED
    BY <2>2, <2>3, <2>4, <2>5, <2>6 DEF IInv
<1>10. ASSUME NEW l \in Loop, ConnectFails(l) PROVE IInv'
  <2>1. pc[l] \in PcStates
    BY <1>0 DEF TypeOK
  <2>2. TypeOK'
    <3>0. Flags /\ Places
      BY <1>0, Types
    <3>1. Flags'
      BY <3>0, <1>10 DEF Flags, ConnectFails, Goto
    <3>2. Places'
      BY <3>0, <1>10, <1>0 DEF Places, ConnectFails, Goto, PcStates, Mutex
    <3> QED
      BY <3>1, <3>2, TypesNext
  <2>3. Fresh' /\ Mutex' /\ Served'
    BY <1>0, <1>10 DEF Fresh, Mutex, Served, TypeOK, ConnectFails, Goto
  <2>4. Watched'
    BY <1>0, <1>10 DEF Watched, Unannounced, TypeOK, ConnectFails, Goto
  <2>5. Solo' /\ Idle'
    BY <1>0, <1>10 DEF Solo, Idle, Polling, TypeOK, ConnectFails, Goto
  <2>6. Story'
    BY <1>0, <1>10
    DEF Solo, Idle, Polling, Story, Loose, Announced, GivenUp, TypeOK, ConnectFails, Goto
  <2> QED
    BY <2>2, <2>3, <2>4, <2>5, <2>6 DEF IInv
<1>11. ASSUME NEW l \in Loop, WaitEnds(l) PROVE IInv'
  <2>1. pc[l] \in PcStates
    BY <1>0 DEF TypeOK
  <2>2. TypeOK'
    <3>0. Flags /\ Places
      BY <1>0, Types
    <3>1. Flags'
      BY <3>0, <1>11 DEF Flags, WaitEnds, Goto
    <3>2. Places'
      BY <3>0, <1>11 DEF Places, WaitEnds, Goto, PcStates
    <3> QED
      BY <3>1, <3>2, TypesNext
  <2>3. Fresh' /\ Mutex' /\ Served'
    BY <1>0, <1>11 DEF Fresh, Mutex, Served, TypeOK, WaitEnds, Goto
  <2>4. Watched'
    BY <1>0, <1>11 DEF Watched, Unannounced, TypeOK, WaitEnds, Goto
  <2>5. Solo' /\ Idle'
    BY <1>0, <1>11 DEF Solo, Idle, Polling, TypeOK, WaitEnds, Goto
  <2>6. Story'
    BY <1>0, <1>11
    DEF Solo, Idle, Polling, Story, Loose, Announced, GivenUp, TypeOK, WaitEnds, Goto
  <2> QED
    BY <2>2, <2>3, <2>4, <2>5, <2>6 DEF IInv
<1>12. ASSUME NEW l \in Loop, Check(l) PROVE IInv'
  <2>1. pc[l] \in PcStates
    BY <1>0 DEF TypeOK
  <2>2. TypeOK'
    <3>0. Flags /\ Places
      BY <1>0, Types
    <3>1. Flags'
      BY <3>0, <1>12 DEF Flags, Check, Notify
    <3>2. Places'
      BY <3>0, <1>12 DEF Places, Check, Notify, PcStates
    <3> QED
      BY <3>1, <3>2, TypesNext
  <2>3. Fresh' /\ Mutex' /\ Served'
    BY <1>0, <1>12 DEF Fresh, Mutex, Served, TypeOK, Check, Notify
  <2>4. Watched'
    BY <1>0, <1>12 DEF Watched, Unannounced, TypeOK, Check, Notify
  <2>5. Solo' /\ Idle'
    BY <1>0, <1>12 DEF Solo, Idle, Polling, TypeOK, Check, Notify
  <2>6. Story'
    BY <1>0, <1>12
    DEF Solo, Idle, Polling, Story, Loose, Announced, GivenUp, TypeOK, Check, Notify
  <2> QED
    BY <2>2, <2>3, <2>4, <2>5, <2>6 DEF IInv
<1>13. ASSUME NEW l \in Loop, Subscribe(l) PROVE IInv'
  <2>1. pc[l] \in PcStates
    BY <1>0 DEF TypeOK
  <2>2. TypeOK'
    <3>0. Flags /\ Places
      BY <1>0, Types
    <3>1. Flags'
      BY <3>0, <1>13 DEF Flags, Subscribe, Goto
    <3>2. Places'
      BY <3>0, <1>13 DEF Places, Subscribe, Goto, PcStates
    <3> QED
      BY <3>1, <3>2, TypesNext
  <2>3. Fresh' /\ Mutex' /\ Served'
    BY <1>0, <1>13 DEF Fresh, Mutex, Served, TypeOK, Subscribe, Goto
  <2>4. Watched'
    BY <1>0, <1>13 DEF Watched, Unannounced, TypeOK, Subscribe, Goto
  <2>5. Solo' /\ Idle'
    BY <1>0, <1>13 DEF Solo, Idle, Polling, TypeOK, Subscribe, Goto
  <2>6. Story'
    BY <1>0, <1>13
    DEF Solo, Idle, Polling, Story, Loose, Announced, GivenUp, TypeOK, Subscribe, Goto
  <2> QED
    BY <2>2, <2>3, <2>4, <2>5, <2>6 DEF IInv
<1>14. ASSUME NEW l \in Loop, RecvFails(l) PROVE IInv'
  <2>1. pc[l] \in PcStates
    BY <1>0 DEF TypeOK
  <2>2. TypeOK'
    <3>0. Flags /\ Places
      BY <1>0, Types
    <3>1. Flags'
      BY <3>0, <1>14 DEF Flags, RecvFails, Goto, Notify
    <3>2. Places'
      BY <3>0, <1>14 DEF Places, RecvFails, Goto, Notify, PcStates
    <3> QED
      BY <3>1, <3>2, TypesNext
  <2>3. Fresh' /\ Mutex' /\ Served'
    BY <1>0, <1>14 DEF Fresh, Mutex, Served, TypeOK, RecvFails, Goto, Notify
  <2>4. Watched'
    BY <1>0, <1>14 DEF Watched, Unannounced, TypeOK, RecvFails, Goto, Notify
  <2>5. Solo' /\ Idle'
    BY <1>0, <1>14 DEF Solo, Idle, Polling, TypeOK, RecvFails, Goto, Notify
  <2>6. Story'
    BY <1>0, <1>14
    DEF Solo, Idle, Polling, Story, Loose, Announced, GivenUp, TypeOK, RecvFails, Goto, Notify
  <2> QED
    BY <2>2, <2>3, <2>4, <2>5, <2>6 DEF IInv
<1>15. ASSUME NEW l \in Loop, RecvEnds(l) PROVE IInv'
  <2>1. pc[l] \in PcStates
    BY <1>0 DEF TypeOK
  <2>2. TypeOK'
    <3>0. Flags /\ Places
      BY <1>0, Types
    <3>1. Flags'
      BY <3>0, <1>15 DEF Flags, RecvEnds, Goto, Notify
    <3>2. Places'
      BY <3>0, <1>15 DEF Places, RecvEnds, Goto, Notify, PcStates
    <3> QED
      BY <3>1, <3>2, TypesNext
  <2>3. Fresh' /\ Mutex' /\ Served'
    BY <1>0, <1>15 DEF Fresh, Mutex, Served, TypeOK, RecvEnds, Goto, Notify
  <2>4. Watched'
    BY <1>0, <1>15 DEF Watched, Unannounced, TypeOK, RecvEnds, Goto, Notify
  <2>5. Solo' /\ Idle'
    BY <1>0, <1>15 DEF Solo, Idle, Polling, TypeOK, RecvEnds, Goto, Notify
  <2>6. Story'
    BY <1>0, <1>15
    DEF Solo, Idle, Polling, Story, Loose, Announced, GivenUp, TypeOK, RecvEnds, Goto, Notify
  <2> QED
    BY <2>2, <2>3, <2>4, <2>5, <2>6 DEF IInv
<1>16. ASSUME NEW l \in Loop, Disconnect(l) PROVE IInv'
  <2>1. pc[l] \in PcStates
    BY <1>0 DEF TypeOK
  <2>2. TypeOK'
    <3>0. Flags /\ Places
      BY <1>0, Types
    <3>1. Flags'
      BY <3>0, <1>16 DEF Flags, Disconnect, Goto, Notify
    <3>2. Places'
      BY <3>0, <1>16 DEF Places, Disconnect, Goto, Notify, PcStates
    <3> QED
      BY <3>1, <3>2, TypesNext
  <2>3. Fresh' /\ Mutex' /\ Served'
    BY <1>0, <1>16 DEF Fresh, Mutex, Served, TypeOK, Disconnect, Goto, Notify
  <2>4. Watched'
    BY <1>0, <1>16 DEF Watched, Unannounced, TypeOK, Disconnect, Goto, Notify
  <2>5. Solo' /\ Idle'
    BY <1>0, <1>16 DEF Solo, Idle, Polling, TypeOK, Disconnect, Goto, Notify
  <2>6. Story'
    BY <1>0, <1>16
    DEF Solo, Idle, Polling, Story, Loose, Announced, GivenUp, TypeOK, Disconnect, Goto, Notify
  <2> QED
    BY <2>2, <2>3, <2>4, <2>5, <2>6 DEF IInv
<1>17. ASSUME UNCHANGED vars PROVE IInv'
  BY <1>17
  DEF vars, IInv, TypeOK, Fresh, Mutex, Served, Watched, Unannounced, Solo, Idle, Polling,
      Story, Loose, Announced, GivenUp
<1> HIDE DEF IInv
<1> QED
  BY <1>1, <1>2, <1>3, <1>4, <1>5, <1>6, <1>7, <1>8, <1>9, <1>10, <1>11, <1>12, <1>13,
     <1>14, <1>15, <1>16, <1>17
  DEF Next, Step

\* The invariant holds in every state of every behaviour.
THEOREM Invariant == Spec => []IInv
BY InitInv, NextInv, PTL DEF Spec

\* A started client has a loop that serves it, however stop() and start() fall
\* between the tests of stopped_ (client.cpp:75-123).
THEOREM ServedWhileStartedHolds == Spec => []ServedWhileStarted
<1>1. IInv => ServedWhileStarted
  BY DEF IInv, Served, Serving, ServedWhileStarted
<1> QED
  BY <1>1, Invariant, PTL

\* Whatever loops an application starts, a connection that was announced is
\* announced as lost by the time they end, and until two of them run at the same
\* time "connect" and "disconnect" alternate, but for the cases
\* NotificationsAlternate names (client.cpp:144-176,271-315).
THEOREM NotificationsAlternateHolds == Spec => NotificationsAlternate
<1>1. IInv /\ [Next]_vars =>
        [~overlapped /\ turn' # turn /\ told' = told
           => IF told = "disconnect" THEN kept ELSE Unannounced]_vars
  <2> SUFFICES ASSUME IInv, Next, ~overlapped, turn' # turn, told' = told
               PROVE  IF told = "disconnect" THEN kept ELSE Unannounced
    OBVIOUS
  <2>0. TypeOK /\ Story /\ Solo /\ Watched
    BY DEF IInv
  <2>1. \E l \in Loop : Check(l) \/ RecvFails(l) \/ RecvEnds(l) \/ Disconnect(l)
    BY
    DEF Next, Step, Start, Stop, Send, StartMask, StartPost, PollBegin, TestStopped,
        ConnectBegin, ConnectOk, ConnectFails, WaitEnds, Subscribe, nvars
  <2>2. PICK l \in Loop : Check(l) \/ RecvFails(l) \/ RecvEnds(l) \/ Disconnect(l)
    BY <2>1
  <2>3. CASE Check(l)
    <3>1. told' = "connect" /\ pc[l] = "check"
      BY <2>3 DEF Check, Notify, nvars
    <3>2. ASSUME NEW k \in Loop, pc[k] \in {"subscribe", "recv", "test", "lock", "leaving"}
          PROVE  FALSE
      BY <2>0, <3>1, <3>2 DEF Solo, Polling
    <3> QED
      BY <2>0, <3>1, <3>2 DEF Watched
  <2>4. CASE RecvFails(l) \/ RecvEnds(l)
    BY <2>0, <2>4 DEF RecvFails, RecvEnds, Goto, Notify, nvars, Story, Announced
  <2>5. CASE Disconnect(l)
    BY <2>0, <2>5 DEF Disconnect, Goto, Notify, nvars, Story, GivenUp
  <2> QED
    BY <2>2, <2>3, <2>4, <2>5
<1>2. IInv => (AllEnded /\ told = "connect" => Unannounced)
  BY DEF IInv, Watched, AllEnded
<1> QED
  BY <1>1, <1>2, Invariant, PTL DEF Spec, NotificationsAlternate
=============================================================================
