-------------------------- MODULE LiveCaptureProofs --------------------------
(***************************************************************************)
(* captures_ is exact, ~Grabber waits for every server, and only a missed  *)
(* cancel() strands one, for every number of servers and every limit.      *)
(***************************************************************************)
EXTENDS LiveCapture, FiniteSetTheorems, TLAPS

-----------------------------------------------------------------------------
(* The inductive invariant.                                                *)

\* captures_ counts the servers that exist, up to the limit; ~Grabber has
\* waited for all of them.
Counted ==
    /\ captures = Cardinality({s \in Server : Live(s)})
    /\ captures <= limit
    /\ grabber = "dead" => captures = 0

\* The Grabber lives as long as the application or an accept handler holds it;
\* terminate_() is called by ~Grabber only.
Held ==
    /\ grabber = "alive" <=> owner \/ pins # {}
    /\ grabber = "alive" => unsignalled = {}
    /\ \A s \in Server : s \in pins <=> accept[s] \in {"run", "made", "leave"}

\* The operations of a server run while it lives; open() holds the Grabber.
Owned ==
    \A s \in Server :
        /\ server[s] # "live" => accept[s] = "none"
        /\ server[s] = "opening" => owner
        /\ server[s] \in {"none", "opening"} => conn[s] = "none"

\* count_ lags behind the Connections that were created, in the handler only.
OneCapture ==
    \A s \in Server :
        /\ made[s] = count[s] + (IF accept[s] = "made" THEN 1 ELSE 0)
        /\ accept[s] = "run" => count[s] = 0
        /\ conn[s] = "none" <=> made[s] = 0
        /\ accept[s] = "made" => conn[s] = "live"

\* The end of the capture is signalled to a server that is still there.
Finishing == \A s \in Server : server[s] = "live" /\ conn[s] = "live" => finish[s]

\* Something will cancel the accept of a server: its timer, the end of its
\* capture, or ~Grabber.  Otherwise a cancel() was missed.
Guarded ==
    \A s \in Server :
        \/ server[s] \notin {"opening", "live"}
        \/ server[s] = "live" /\ accept[s] \in {"none", "aborted"}
        \/ timer[s] \in {"armed", "expired"}
        \/ conn[s] = "live" /\ finish[s]
        \/ s \in unsignalled
        \/ missed[s]

IInv ==
    /\ TypeOK
    /\ Counted
    /\ Held
    /\ Owned
    /\ OneCapture
    /\ Finishing
    /\ Guarded

-----------------------------------------------------------------------------
\* The set of the servers that exist is finite.
LEMMA FiniteLive ==
    /\ IsFiniteSet({s \in Server : Live(s)})
    /\ Cardinality({s \in Server : Live(s)}) \in Nat
<1>1. {s \in Server : Live(s)} \in SUBSET Server
  OBVIOUS
<1> QED
  BY LiveCaptureAssumption, FS_Subset, FS_CardinalityType

\* A step that creates or destroys no server keeps the count.
LEMMA CountedFrame ==
    ASSUME Counted, UNCHANGED <<limit, captures>>,
           grabber' = "dead" => grabber = "dead" \/ captures = 0,
           \A s \in Server : Live(s)' <=> Live(s)
    PROVE  Counted'
<1>1. {s \in Server : Live(s)}' = {s \in Server : Live(s)}
  OBVIOUS
<1> QED
  BY DEF Counted

\* Initially there is no server.
LEMMA InitInv == Init => IInv
<1> SUFFICES ASSUME Init PROVE IInv
  OBVIOUS
<1>1. TypeOK
  BY DEF Init, TypeOK, AcceptStates
<1>2. {s \in Server : Live(s)} = {}
  BY DEF Init, Live
<1>3. Counted
  BY <1>2, FS_EmptySet, LiveCaptureAssumption DEF Init, Counted
<1>4. Held /\ Owned /\ OneCapture /\ Finishing /\ Guarded
  BY DEF Init, Held, Owned, OneCapture, Finishing, Guarded
<1> QED
  BY <1>1, <1>3, <1>4 DEF IInv

\* A step of any thread keeps the invariant.
LEMMA NextInv == IInv /\ [Next]_vars => IInv'
<1> SUFFICES ASSUME IInv, [Next]_vars PROVE IInv'
  OBVIOUS
<1> USE DEF IInv
<1>1. ASSUME NEW s \in Server, OpenAccept(s) PROVE IInv'
  <2>1. TypeOK'
    BY <1>1 DEF OpenAccept, gvars, cvars, TypeOK, AcceptStates
  <2>2. Counted'
    BY <1>1, CountedFrame DEF OpenAccept, gvars, Live
  <2>3. Held'
    BY <1>1 DEF OpenAccept, gvars, Held, Owned
  <2>4. Owned'
    BY <1>1 DEF OpenAccept, gvars, cvars, TypeOK, Owned
  <2>5. OneCapture'
    BY <1>1 DEF OpenAccept, cvars, OneCapture, Owned
  <2>6. Finishing'
    BY <1>1 DEF OpenAccept, cvars, Finishing, Owned
  <2>7. Guarded'
    BY <1>1 DEF OpenAccept, cvars, Guarded, Owned, Held
  <2> QED
    BY <2>1, <2>2, <2>3, <2>4, <2>5, <2>6, <2>7
<1>2. ASSUME NEW s \in Server, Signal(s) PROVE IInv'
  <2>1. TypeOK'
    BY <1>2 DEF Signal, StopAcceptTimer, Cancel, cvars, TypeOK, AcceptStates
  <2>2. Counted'
    BY <1>2, CountedFrame DEF Signal, Live
  <2>3. Held'
    BY <1>2 DEF Signal, Cancel, Held
  <2>4. Owned'
    BY <1>2 DEF Signal, Cancel, cvars, Owned
  <2>5. OneCapture'
    BY <1>2 DEF Signal, Cancel, cvars, OneCapture
  <2>6. Finishing'
    BY <1>2 DEF Signal, cvars, Finishing
  <2>7. Guarded'
    <3>1. \A t \in Server \ {s} : /\ accept'[t] = accept[t] /\ timer'[t] = timer[t]
                                  /\ missed'[t] = missed[t]
      BY <1>2 DEF Signal, StopAcceptTimer, Cancel
    <3>2. UNCHANGED <<server, conn, finish>>
      BY <1>2 DEF Signal, cvars
    <3>3. \A t \in Server \ {s} : t \in unsignalled => t \in unsignalled'
      BY <1>2 DEF Signal
    <3>4. missed'[s] \/ (accept'[s] \in {"none", "aborted"} /\ server[s] # "opening")
      <4>1. accept[s] \in InHandler \/ server[s] = "opening" => missed'[s]
        BY <1>2, Zenon DEF Signal, Cancel, TypeOK
      <4>2. accept[s] \notin InHandler => accept'[s] \in {"none", "aborted"}
        BY <1>2 DEF Signal, Cancel, TypeOK, AcceptStates, InHandler
      <4> QED
        BY <4>1, <4>2, Zenon
    <3> QED
      BY <3>1, <3>2, <3>3, <3>4 DEF Guarded
  <2> QED
    BY <2>1, <2>2, <2>3, <2>4, <2>5, <2>6, <2>7
<1>3. ASSUME NEW s \in Server, Arrive(s) PROVE IInv'
  <2>1. TypeOK'
    BY <1>3 DEF Arrive, gvars, cvars, TypeOK, AcceptStates
  <2>2. Counted'
    BY <1>3, CountedFrame DEF Arrive, gvars, Live
  <2>3. Held'
    BY <1>3 DEF Arrive, gvars, Held
  <2>4. Owned'
    BY <1>3 DEF Arrive, gvars, cvars, Owned
  <2>5. OneCapture'
    BY <1>3 DEF Arrive, cvars, OneCapture
  <2>6. Finishing'
    BY <1>3 DEF Arrive, cvars, Finishing
  <2>7. Guarded'
    BY <1>3 DEF Arrive, gvars, cvars, Guarded
  <2> QED
    BY <2>1, <2>2, <2>3, <2>4, <2>5, <2>6, <2>7
<1>4. ASSUME NEW s \in Server, AcceptEnds(s) PROVE IInv'
  <2>1. TypeOK'
    BY <1>4 DEF AcceptEnds, gvars, cvars, TypeOK, AcceptStates
  <2>2. Counted'
    BY <1>4, CountedFrame DEF AcceptEnds, gvars, Live
  <2>3. Held'
    BY <1>4 DEF AcceptEnds, gvars, Held
  <2>4. Owned'
    BY <1>4 DEF AcceptEnds, gvars, cvars, Owned
  <2>5. OneCapture'
    BY <1>4 DEF AcceptEnds, cvars, OneCapture
  <2>6. Finishing'
    BY <1>4 DEF AcceptEnds, cvars, Finishing
  <2>7. Guarded'
    BY <1>4 DEF AcceptEnds, gvars, cvars, Guarded
  <2> QED
    BY <2>1, <2>2, <2>3, <2>4, <2>5, <2>6, <2>7
<1>5. ASSUME NEW s \in Server, Reject(s) PROVE IInv'
  <2>1. TypeOK'
    BY <1>5 DEF Reject, gvars, cvars, TypeOK, AcceptStates
  <2>2. Counted'
    BY <1>5, CountedFrame DEF Reject, gvars, Live
  <2>3. Held'
    BY <1>5 DEF Reject, gvars, Held
  <2>4. Owned'
    BY <1>5 DEF Reject, gvars, cvars, Owned
  <2>5. OneCapture'
    BY <1>5 DEF Reject, cvars, OneCapture
  <2>6. Finishing'
    BY <1>5 DEF Reject, cvars, Finishing
  <2>7. Guarded'
    BY <1>5 DEF Reject, gvars, cvars, Guarded
  <2> QED
    BY <2>1, <2>2, <2>3, <2>4, <2>5, <2>6, <2>7
<1>6. ASSUME NEW s \in Server, Enter(s) PROVE IInv'
  <2>1. TypeOK'
    BY <1>6 DEF Enter, cvars, TypeOK, AcceptStates
  <2>2. Counted'
    BY <1>6, CountedFrame DEF Enter, Live
  <2>3. Held'
    BY <1>6 DEF Enter, TypeOK, Held
  <2>4. Owned'
    BY <1>6 DEF Enter, cvars, Owned
  <2>5. OneCapture'
    BY <1>6 DEF Enter, cvars, OneCapture
  <2>6. Finishing'
    BY <1>6 DEF Enter, cvars, Finishing
  <2>7. Guarded'
    BY <1>6 DEF Enter, cvars, Guarded
  <2> QED
    BY <2>1, <2>2, <2>3, <2>4, <2>5, <2>6, <2>7
<1>7. ASSUME NEW s \in Server, SnifferFails(s) PROVE IInv'
  <2>1. TypeOK'
    BY <1>7 DEF SnifferFails, gvars, cvars, TypeOK, AcceptStates
  <2>2. Counted'
    BY <1>7, CountedFrame DEF SnifferFails, gvars, Live
  <2>3. Held'
    BY <1>7 DEF SnifferFails, gvars, Held
  <2>4. Owned'
    BY <1>7 DEF SnifferFails, gvars, cvars, Owned
  <2>5. OneCapture'
    BY <1>7 DEF SnifferFails, cvars, OneCapture
  <2>6. Finishing'
    BY <1>7 DEF SnifferFails, cvars, Finishing
  <2>7. Guarded'
    BY <1>7 DEF SnifferFails, cvars, Guarded, Held
  <2> QED
    BY <2>1, <2>2, <2>3, <2>4, <2>5, <2>6, <2>7
<1>8. ASSUME NEW s \in Server, Create(s) PROVE IInv'
  <2>1. TypeOK'
    BY <1>8
    DEF Create, NewConnection, StartConnection, gvars, TypeOK, AcceptStates,
        OneCapture
  <2>2. Counted'
    BY <1>8, CountedFrame DEF Create, gvars, Live
  <2>3. Held'
    BY <1>8 DEF Create, gvars, Held
  <2>4. Owned'
    BY <1>8 DEF Create, NewConnection, gvars, Owned
  <2>5. OneCapture'
    BY <1>8 DEF Create, NewConnection, TypeOK, OneCapture
  <2>6. Finishing'
    BY <1>8 DEF Create, NewConnection, TypeOK, Finishing
  <2>7. Guarded'
    BY <1>8 DEF Create, NewConnection, Guarded, Held
  <2> QED
    BY <2>1, <2>2, <2>3, <2>4, <2>5, <2>6, <2>7
<1>9. ASSUME NEW s \in Server, Settle(s) PROVE IInv'
  <2>1. TypeOK'
    BY <1>9 DEF Settle, StopAcceptTimer, gvars, cvars, TypeOK, AcceptStates
  <2>2. Counted'
    BY <1>9, CountedFrame DEF Settle, gvars, Live
  <2>3. Held'
    BY <1>9 DEF Settle, gvars, Held
  <2>4. Owned'
    BY <1>9 DEF Settle, gvars, cvars, Owned
  <2>5. OneCapture'
    BY <1>9 DEF Settle, cvars, TypeOK, OneCapture
  <2>6. Finishing'
    BY <1>9 DEF Settle, cvars, Finishing
  <2>7. Guarded'
    BY <1>9
    DEF Settle, StopAcceptTimer, cvars, Guarded, OneCapture, Finishing, Owned, Held
  <2> QED
    BY <2>1, <2>2, <2>3, <2>4, <2>5, <2>6, <2>7
<1>10. ASSUME NEW s \in Server, ReleaseGrabber(s) PROVE IInv'
  <2>1. TypeOK'
    BY <1>10 DEF ReleaseGrabber, BeginDestroyGrabber, cvars, TypeOK, AcceptStates
  <2>2. Counted'
    BY <1>10, CountedFrame DEF ReleaseGrabber, BeginDestroyGrabber, Live
  <2>3. Held'
    BY <1>10 DEF ReleaseGrabber, BeginDestroyGrabber, TypeOK, Held
  <2>4. Owned'
    BY <1>10 DEF ReleaseGrabber, cvars, Owned
  <2>5. OneCapture'
    BY <1>10 DEF ReleaseGrabber, cvars, OneCapture
  <2>6. Finishing'
    BY <1>10 DEF ReleaseGrabber, cvars, Finishing
  <2>7. Guarded'
    BY <1>10 DEF ReleaseGrabber, cvars, Guarded, Held
  <2> QED
    BY <2>1, <2>2, <2>3, <2>4, <2>5, <2>6, <2>7
<1>11. ASSUME NEW s \in Server, Rearm(s) PROVE IInv'
  <2>1. TypeOK'
    BY <1>11 DEF Rearm, gvars, cvars, TypeOK, AcceptStates
  <2>2. Counted'
    BY <1>11, CountedFrame DEF Rearm, gvars, Live
  <2>3. Held'
    BY <1>11 DEF Rearm, gvars, Held
  <2>4. Owned'
    BY <1>11 DEF Rearm, gvars, cvars, Owned
  <2>5. OneCapture'
    BY <1>11 DEF Rearm, cvars, OneCapture
  <2>6. Finishing'
    BY <1>11 DEF Rearm, cvars, Finishing
  <2>7. Guarded'
    BY <1>11 DEF Rearm, gvars, cvars, Guarded
  <2> QED
    BY <2>1, <2>2, <2>3, <2>4, <2>5, <2>6, <2>7
<1>12. ASSUME NEW s \in Server, TimerExpires(s) PROVE IInv'
  <2>1. TypeOK'
    BY <1>12 DEF TimerExpires, gvars, cvars, TypeOK
  <2>2. Counted'
    BY <1>12, CountedFrame DEF TimerExpires, gvars, Live
  <2>3. Held'
    BY <1>12 DEF TimerExpires, gvars, Held
  <2>4. Owned'
    BY <1>12 DEF TimerExpires, gvars, cvars, Owned
  <2>5. OneCapture'
    BY <1>12 DEF TimerExpires, cvars, OneCapture
  <2>6. Finishing'
    BY <1>12 DEF TimerExpires, cvars, Finishing
  <2>7. Guarded'
    BY <1>12 DEF TimerExpires, gvars, cvars, Guarded
  <2> QED
    BY <2>1, <2>2, <2>3, <2>4, <2>5, <2>6, <2>7
<1>13. ASSUME NEW s \in Server, TimerHandler(s) PROVE IInv'
  <2>1. TypeOK'
    BY <1>13 DEF TimerHandler, Cancel, gvars, cvars, TypeOK, AcceptStates
  <2>2. Counted'
    BY <1>13, CountedFrame DEF TimerHandler, gvars, Live
  <2>3. Held'
    BY <1>13 DEF TimerHandler, Cancel, gvars, Held
  <2>4. Owned'
    BY <1>13 DEF TimerHandler, Cancel, gvars, cvars, Owned
  <2>5. OneCapture'
    BY <1>13 DEF TimerHandler, Cancel, cvars, OneCapture
  <2>6. Finishing'
    BY <1>13 DEF TimerHandler, cvars, Finishing
  <2>7. Guarded'
    <3>1. \A t \in Server \ {s} : /\ accept'[t] = accept[t] /\ timer'[t] = timer[t]
                                  /\ missed'[t] = missed[t]
      BY <1>13 DEF TimerHandler, Cancel
    <3>2. UNCHANGED <<server, conn, finish>>
      BY <1>13 DEF TimerHandler, cvars
    <3>3. \A t \in Server \ {s} : t \in unsignalled => t \in unsignalled'
      BY <1>13 DEF TimerHandler, gvars
    <3>4. missed'[s] \/ (accept'[s] \in {"none", "aborted"} /\ server[s] # "opening")
      <4>1. accept[s] \in InHandler \/ server[s] = "opening" => missed'[s]
        BY <1>13, Zenon DEF TimerHandler, Cancel, TypeOK
      <4>2. accept[s] \notin InHandler => accept'[s] \in {"none", "aborted"}
        BY <1>13 DEF TimerHandler, Cancel, TypeOK, AcceptStates, InHandler
      <4> QED
        BY <4>1, <4>2, Zenon
    <3> QED
      BY <3>1, <3>2, <3>3, <3>4 DEF Guarded
  <2> QED
    BY <2>1, <2>2, <2>3, <2>4, <2>5, <2>6, <2>7
<1>14. ASSUME NEW s \in Server, TimerAborted(s) PROVE IInv'
  <2>1. TypeOK'
    BY <1>14 DEF TimerAborted, gvars, cvars, TypeOK
  <2>2. Counted'
    BY <1>14, CountedFrame DEF TimerAborted, gvars, Live
  <2>3. Held'
    BY <1>14 DEF TimerAborted, gvars, Held
  <2>4. Owned'
    BY <1>14 DEF TimerAborted, gvars, cvars, Owned
  <2>5. OneCapture'
    BY <1>14 DEF TimerAborted, cvars, OneCapture
  <2>6. Finishing'
    BY <1>14 DEF TimerAborted, cvars, Finishing
  <2>7. Guarded'
    BY <1>14 DEF TimerAborted, gvars, cvars, Guarded
  <2> QED
    BY <2>1, <2>2, <2>3, <2>4, <2>5, <2>6, <2>7
<1>15. ASSUME NEW s \in Server, CaptureTimeout(s) PROVE IInv'
  <2>1. TypeOK'
    BY <1>15 DEF CaptureTimeout, gvars, svars, TypeOK
  <2>2. Counted'
    BY <1>15, CountedFrame DEF CaptureTimeout, gvars, svars, Live
  <2>3. Held'
    BY <1>15 DEF CaptureTimeout, gvars, svars, Held
  <2>4. Owned'
    BY <1>15 DEF CaptureTimeout, gvars, svars, Owned
  <2>5. OneCapture'
    BY <1>15 DEF CaptureTimeout, svars, OneCapture
  <2>6. Finishing'
    BY <1>15 DEF CaptureTimeout, svars, Finishing
  <2>7. Guarded'
    BY <1>15 DEF CaptureTimeout, gvars, svars, Guarded
  <2> QED
    BY <2>1, <2>2, <2>3, <2>4, <2>5, <2>6, <2>7
<1>16. ASSUME NEW s \in Server, CaptureTimerAborted(s) PROVE IInv'
  <2>1. TypeOK'
    BY <1>16 DEF CaptureTimerAborted, gvars, svars, TypeOK
  <2>2. Counted'
    BY <1>16, CountedFrame DEF CaptureTimerAborted, gvars, svars, Live
  <2>3. Held'
    BY <1>16 DEF CaptureTimerAborted, gvars, svars, Held
  <2>4. Owned'
    BY <1>16 DEF CaptureTimerAborted, gvars, svars, Owned
  <2>5. OneCapture'
    BY <1>16 DEF CaptureTimerAborted, svars, OneCapture
  <2>6. Finishing'
    BY <1>16 DEF CaptureTimerAborted, svars, Finishing
  <2>7. Guarded'
    BY <1>16 DEF CaptureTimerAborted, gvars, svars, Guarded
  <2> QED
    BY <2>1, <2>2, <2>3, <2>4, <2>5, <2>6, <2>7
<1>17. ASSUME NEW s \in Server, ReadEnds(s) PROVE IInv'
  <2>1. TypeOK'
    BY <1>17 DEF ReadEnds, gvars, svars, TypeOK
  <2>2. Counted'
    BY <1>17, CountedFrame DEF ReadEnds, gvars, svars, Live
  <2>3. Held'
    BY <1>17 DEF ReadEnds, gvars, svars, Held
  <2>4. Owned'
    BY <1>17 DEF ReadEnds, gvars, svars, Owned
  <2>5. OneCapture'
    BY <1>17 DEF ReadEnds, svars, OneCapture
  <2>6. Finishing'
    BY <1>17 DEF ReadEnds, svars, Finishing
  <2>7. Guarded'
    BY <1>17 DEF ReadEnds, gvars, svars, Guarded
  <2> QED
    BY <2>1, <2>2, <2>3, <2>4, <2>5, <2>6, <2>7
<1>18. ASSUME NEW s \in Server, DestroyConnection(s) PROVE IInv'
  <2>1. TypeOK'
    BY <1>18
    DEF DestroyConnection, StopAcceptTimer, Cancel, gvars, TypeOK, AcceptStates
  <2>2. Counted'
    BY <1>18, CountedFrame DEF DestroyConnection, gvars, Live
  <2>3. Held'
    BY <1>18 DEF DestroyConnection, Cancel, gvars, TypeOK, Held
  <2>4. Owned'
    BY <1>18 DEF DestroyConnection, Cancel, gvars, TypeOK, Owned
  <2>5. OneCapture'
    BY <1>18 DEF DestroyConnection, Cancel, TypeOK, OneCapture
  <2>6. Finishing'
    BY <1>18 DEF DestroyConnection, TypeOK, Finishing
  <2>7. Guarded'
    BY <1>18
    DEF DestroyConnection, StopAcceptTimer, Cancel, gvars, TypeOK, Guarded, InHandler,
        AcceptStates
  <2> QED
    BY <2>1, <2>2, <2>3, <2>4, <2>5, <2>6, <2>7
<1>19. ASSUME DropOwner PROVE IInv'
  <2>1. TypeOK'
    BY <1>19 DEF DropOwner, BeginDestroyGrabber, svars, cvars, TypeOK
  <2>2. Counted'
    BY <1>19, CountedFrame DEF DropOwner, BeginDestroyGrabber, svars, Live
  <2>3. Held'
    BY <1>19 DEF DropOwner, BeginDestroyGrabber, svars, Held
  <2>4. Owned'
    BY <1>19 DEF DropOwner, svars, cvars, Owned
  <2>5. OneCapture'
    BY <1>19 DEF DropOwner, svars, cvars, OneCapture
  <2>6. Finishing'
    BY <1>19 DEF DropOwner, svars, cvars, Finishing
  <2>7. Guarded'
    BY <1>19 DEF DropOwner, svars, cvars, Guarded, Held
  <2> QED
    BY <2>1, <2>2, <2>3, <2>4, <2>5, <2>6, <2>7
<1>20. ASSUME ShutdownDone PROVE IInv'
  <2>1. TypeOK'
    BY <1>20 DEF ShutdownDone, svars, cvars, TypeOK
  <2>2. Counted'
    BY <1>20, CountedFrame DEF ShutdownDone, svars, Live
  <2>3. Held'
    BY <1>20 DEF ShutdownDone, svars, Held
  <2>4. Owned'
    BY <1>20 DEF ShutdownDone, svars, cvars, Owned
  <2>5. OneCapture'
    BY <1>20 DEF ShutdownDone, svars, cvars, OneCapture
  <2>6. Finishing'
    BY <1>20 DEF ShutdownDone, svars, cvars, Finishing
  <2>7. Guarded'
    BY <1>20 DEF ShutdownDone, svars, cvars, Guarded
  <2> QED
    BY <2>1, <2>2, <2>3, <2>4, <2>5, <2>6, <2>7
<1>21. ASSUME NEW s \in Server, Open(s) PROVE IInv'
  <2>1. TypeOK'
    BY <1>21 DEF Open, cvars, TypeOK
  <2>2. Counted'
    <3>1. {t \in Server : Live(t)}' = {t \in Server : Live(t)} \cup {s}
      BY <1>21 DEF Open, Live, TypeOK
    <3>2. s \notin {t \in Server : Live(t)}
      BY <1>21 DEF Open, Live
    <3>3. Cardinality({t \in Server : Live(t)}') = Cardinality({t \in Server : Live(t)}) + 1
      BY <3>1, <3>2, FiniteLive, FS_AddElement
    <3>4. grabber' = "alive"
      BY <1>21 DEF Open, Held
    <3> QED
      BY <1>21, <3>3, <3>4, LiveCaptureAssumption DEF Open, Counted, TypeOK
  <2>3. Held'
    BY <1>21 DEF Open, Held
  <2>4. Owned'
    BY <1>21 DEF Open, cvars, Owned
  <2>5. OneCapture' /\ Finishing'
    BY <1>21 DEF Open, cvars, OneCapture, Finishing
  <2>6. Guarded'
    BY <1>21 DEF Open, cvars, Guarded, TypeOK
  <2> QED
    BY <2>1, <2>2, <2>3, <2>4, <2>5, <2>6
<1>22. ASSUME NEW s \in Server, DestroyServer(s) PROVE IInv'
  <2>1. Counted' /\ captures' \in Nat
    <3>1. {t \in Server : Live(t)}' = {t \in Server : Live(t)} \ {s}
      BY <1>22 DEF DestroyServer, Live, TypeOK
    <3>2. s \in {t \in Server : Live(t)}
      BY <1>22 DEF DestroyServer, Live
    <3>3. Cardinality({t \in Server : Live(t)}') = Cardinality({t \in Server : Live(t)}) - 1
      BY <3>1, <3>2, FiniteLive, FS_RemoveElement
    <3>4. Cardinality({t \in Server : Live(t)}) # 0
      BY <3>2, FiniteLive, FS_EmptySet
    <3> QED
      BY <1>22, <3>3, <3>4, FiniteLive, LiveCaptureAssumption
      DEF DestroyServer, Counted, TypeOK
  <2>2. TypeOK'
    BY <1>22, <2>1 DEF DestroyServer, StopConnection, TypeOK
  <2>3. Held' /\ Owned'
    BY <1>22 DEF DestroyServer, Held, Owned
  <2>4. OneCapture' /\ Finishing'
    BY <1>22 DEF DestroyServer, OneCapture, Finishing, TypeOK
  <2>5. Guarded'
    BY <1>22 DEF DestroyServer, Guarded
  <2> QED
    BY <2>1, <2>2, <2>3, <2>4, <2>5
<1>23. ASSUME UNCHANGED vars PROVE IInv'
  BY <1>23
  DEF vars, gvars, svars, cvars, Live, TypeOK, Counted, Held, Owned, OneCapture,
      Finishing, Guarded
<1> HIDE DEF IInv
<1> QED
  BY <1>1, <1>2, <1>3, <1>4, <1>5, <1>6, <1>7, <1>8, <1>9, <1>10, <1>11, <1>12, <1>13,
     <1>14, <1>15, <1>16, <1>17, <1>18, <1>19, <1>20, <1>21, <1>22, <1>23
  DEF Next, Handler, Timers, Client

\* The invariant holds in every state of the program.
THEOREM Invariant == Spec => []IInv
BY InitInv, NextInv, PTL DEF Spec

\* grabber.cpp:59-75.  captures_ counts exactly the servers that exist, never
\* more than the limit, and a port never has a second Connection.
THEOREM CapturesExactHolds == Spec => []CapturesExact
<1>1. IInv => CapturesExact
  BY DEF IInv, Counted, CapturesExact
<1> QED
  BY <1>1, Invariant, PTL

\* grabber.cpp:18-23,119-125.  When the Grabber is gone, so is every server.
THEOREM NoServerOutlivesGrabberHolds == Spec => []NoServerOutlivesGrabber
<1>1. IInv => NoServerOutlivesGrabber
  <2> SUFFICES ASSUME IInv, grabber = "dead" PROVE {s \in Server : Live(s)} = {}
    BY DEF NoServerOutlivesGrabber
  <2>1. Cardinality({s \in Server : Live(s)}) = 0
    BY DEF IInv, Counted
  <2> QED
    BY <2>1, FiniteLive, FS_EmptySet
<1> QED
  BY <1>1, Invariant, PTL

\* server.cpp:28-84 and servertcp.cpp:38-87.  A server that nothing will cancel
\* any more has missed a cancel().
THEOREM StrandedOnlyByMissedCancelHolds == Spec => []StrandedOnlyByMissedCancel
<1>1. IInv => StrandedOnlyByMissedCancel
  BY DEF IInv, Guarded, StrandedOnlyByMissedCancel, Stranded
<1> QED
  BY <1>1, Invariant, PTL
=============================================================================
