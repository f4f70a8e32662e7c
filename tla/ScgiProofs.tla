----------------------------- MODULE ScgiProofs -----------------------------
(***************************************************************************)
(* The SCGI server.  The slots of its pool are exact, and a shutdown       *)
(* misses at most one connection, for every set of clients and every size  *)
(* of the pool.  The parser of a connection gets the messages out of the   *)
(* stream however it is cut, for all frames and sizes of the chunks.       *)
(***************************************************************************)
EXTENDS ScgiPool, ScgiParser, FiniteSetTheorems, WellFoundedInduction, TLAPS

-----------------------------------------------------------------------------
(***************************************************************************)
(* The pool.                                                               *)
(***************************************************************************)

(* The inductive invariant.                                                *)

\* The accept handler deals with a client that has no connection yet.
HandlerClient ==
    /\ accept \in {"ready", "checked"} <=> client # NoConn
    /\ client # NoConn => conn[client] = "none"

\* Connections past the test of fshutdown_ in freeConnection().
Freeing == freeing = {c \in Conn : conn[c] = "dying"}

\* fshutdown_ is set by ~Server, and stays set.
Flag == fshutdown <=> dtor \in {"flagged", "done"}

\* Every connection has a slot, and the map is never larger than maxSize_;
\* after shutdown() it may also hold the slots of connections that are gone.
Slots ==
    /\ {c \in Conn : Exists(c)} \subseteq connections
    /\ Cardinality(connections) <= MaxSize
    /\ ~fshutdown => connections = {c \in Conn : Exists(c)}

\* The handler that had passed the test before shutdown() is the only one that
\* can add a connection, and it does so once.
Late ==
    /\ late = {} \/ \E c \in Conn : late = {c}
    /\ late # {} => fshutdown /\ accept # "checked"

Closed == dtor = "done" => \A c \in Conn : conn[c] = "live" /\ c \in sock => c \in late

IInv ==
    /\ TypeOK
    /\ HandlerClient
    /\ Freeing
    /\ Flag
    /\ Slots
    /\ Late
    /\ Closed

-----------------------------------------------------------------------------
\* The types again, one set at a time.
LEMMA SetTypes ==
    TypeOK <=> /\ accept \in {"armed", "ready", "checked", "rearm", "aborted", "none"}
               /\ client \in Conn \cup {NoConn}
               /\ dtor \in {"no", "cancelled", "flagged", "done"}
               /\ fshutdown \in BOOLEAN
               /\ connections \subseteq Conn
               /\ conn \in [Conn -> {"none", "live", "dying", "gone", "refused"}]
               /\ sock \subseteq Conn
               /\ reading \subseteq Conn
               /\ replying \subseteq Conn
               /\ freeing \subseteq Conn
               /\ late \subseteq Conn
BY DEF TypeOK

\* A set of connections is finite.
LEMMA FiniteConn ==
    ASSUME NEW S \in SUBSET Conn
    PROVE  IsFiniteSet(S) /\ Cardinality(S) \in Nat
BY ScgiPoolAssumption, FS_Subset, FS_CardinalityType

\* Initially the pool is empty and nothing has happened.
LEMMA InitInv == Init => IInv
<1> SUFFICES ASSUME Init PROVE IInv
  OBVIOUS
<1>1. TypeOK
  BY DEF Init, TypeOK
<1>2. Slots
  BY FS_EmptySet, ScgiPoolAssumption DEF Init, Slots, Exists
<1>3. HandlerClient /\ Freeing /\ Flag /\ Late /\ Closed
  BY DEF Init, HandlerClient, Freeing, Flag, Late, Closed
<1> QED
  BY <1>1, <1>2, <1>3 DEF IInv

\* TurnAway refuses a client that has no connection.
LEMMA TurnAwayInv ==
    ASSUME IInv, client # NoConn, TurnAway(client),
           UNCHANGED <<dtor, fshutdown, connections, reading, replying, freeing, late>>
    PROVE  IInv'
<1> USE DEF IInv, TurnAway
<1>1. client \in Conn /\ conn[client] = "none"
  BY DEF TypeOK, HandlerClient
<1>2. TypeOK'
  BY <1>1, SetTypes DEF TypeOK
<1>3. \A c \in Conn : conn'[c] \in {"live", "dying"} <=> conn[c] \in {"live", "dying"}
  BY <1>1, SetTypes
<1>4. \A c \in Conn : conn'[c] = "dying" <=> conn[c] = "dying"
  BY <1>1, SetTypes
<1>5. Slots'
  BY <1>3 DEF Slots, Exists
<1>6. Freeing'
  BY <1>4 DEF Freeing
<1>7. HandlerClient' /\ Flag' /\ Late'
  BY DEF HandlerClient, Flag, Late
<1>8. Closed'
  BY <1>1, SetTypes DEF Closed
<1> QED
  BY <1>2, <1>5, <1>6, <1>7, <1>8

\* A step of any thread keeps the invariant.
LEMMA NextInv == IInv /\ [Next]_vars => IInv'
<1> SUFFICES ASSUME IInv, [Next]_vars PROVE IInv'
  OBVIOUS
<1> USE DEF IInv
<1>1. ASSUME NEW c \in Conn, Arrive(c) PROVE IInv'
  <2>1. TypeOK'
    BY <1>1, SetTypes DEF Arrive, TypeOK
  <2>2. HandlerClient'
    BY <1>1, ScgiPoolAssumption DEF Arrive, HandlerClient
  <2>3. Closed'
    BY <1>1 DEF Arrive, Closed
  <2> QED
    BY <1>1, <2>1, <2>2, <2>3 DEF Arrive, Freeing, Flag, Slots, Late, Exists
<1>2. ASSUME NEW c \in Conn, ReadEnds(c) PROVE IInv'
  <2>1. TypeOK'
    BY <1>2, SetTypes DEF ReadEnds, TypeOK
  <2>2. Closed'
    BY <1>2 DEF ReadEnds, Closed
  <2> QED
    BY <1>2, <2>1, <2>2 DEF ReadEnds, HandlerClient, Freeing, Flag, Slots, Late, Exists
<1>3. ASSUME NEW c \in Conn, Reply(c) PROVE IInv'
  <2>1. TypeOK'
    BY <1>3, SetTypes DEF Reply, TypeOK
  <2> QED
    BY <1>3, <2>1 DEF Reply, HandlerClient, Freeing, Flag, Slots, Late, Closed, Exists
<1>4. ASSUME NEW c \in Conn, ReplyWritten(c) PROVE IInv'
  <2>1. TypeOK'
    BY <1>4, SetTypes DEF ReplyWritten, TypeOK
  <2> QED
    BY <1>4, <2>1
    DEF ReplyWritten, HandlerClient, Freeing, Flag, Slots, Late, Closed, Exists
<1>5. ASSUME NEW c \in Conn, Destroy(c) PROVE IInv'
  <2>1. TypeOK'
    BY <1>5, SetTypes DEF Destroy, TypeOK
  <2>2. HandlerClient'
    BY <1>5, SetTypes DEF Destroy, HandlerClient
  <2>3. Freeing'
    BY <1>5, SetTypes DEF Destroy, Freeing
  <2>4. Slots'
    BY <1>5, SetTypes DEF Destroy, Slots, Exists
  <2>5. Closed'
    BY <1>5, SetTypes DEF Destroy, Closed
  <2> QED
    BY <1>5, <2>1, <2>2, <2>3, <2>4, <2>5 DEF Destroy, Flag, Late
<1>6. ASSUME NEW c \in Conn, FreeConnection(c) PROVE IInv'
  <2>1. conn[c] = "dying"
    BY <1>6 DEF FreeConnection, Freeing
  <2>2. TypeOK'
    BY <1>6, SetTypes DEF FreeConnection, TypeOK
  <2>3. HandlerClient' /\ Freeing' /\ Closed'
    BY <1>6, <2>1, SetTypes DEF FreeConnection, HandlerClient, Freeing, Closed
  <2>4. Slots'
    <3>1. connections \in SUBSET Conn /\ connections' \in SUBSET connections
      BY <1>6, SetTypes DEF FreeConnection
    <3>2. Cardinality(connections') <= Cardinality(connections)
      BY <3>1, FiniteConn, FS_Subset
    <3>3. /\ Cardinality(connections) \in Nat /\ Cardinality(connections') \in Nat
          /\ MaxSize \in Nat
      BY <3>1, FiniteConn, ScgiPoolAssumption
    <3>4. {d \in Conn : Exists(d)}' = {d \in Conn : Exists(d)} \ {c}
      BY <1>6, SetTypes DEF FreeConnection, Exists
    <3> QED
      BY <1>6, <3>2, <3>3, <3>4 DEF FreeConnection, Slots
  <2> QED
    BY <1>6, <2>2, <2>3, <2>4 DEF FreeConnection, Flag, Late
<1>7. ASSUME AcceptEnds PROVE IInv'
  <2>1. TypeOK'
    BY <1>7, SetTypes DEF AcceptEnds, TypeOK
  <2>2. client # NoConn => client \in Conn /\ conn[client] = "none"
    BY SetTypes DEF HandlerClient
  <2>3. \A c \in Conn : conn'[c] \in {"live", "dying"} <=> conn[c] \in {"live", "dying"}
    BY <1>7, <2>2, SetTypes DEF AcceptEnds
  <2>4. \A c \in Conn : conn'[c] = "dying" <=> conn[c] = "dying"
    BY <1>7, <2>2, SetTypes DEF AcceptEnds
  <2>5. \A c \in Conn : conn'[c] = "live" <=> conn[c] = "live"
    BY <1>7, <2>2, SetTypes DEF AcceptEnds
  <2> QED
    BY <1>7, <2>1, <2>3, <2>4, <2>5
    DEF AcceptEnds, HandlerClient, Freeing, Flag, Slots, Late, Closed, Exists
<1>8. ASSUME GetConnection PROVE IInv'
  <2>1. CASE fshutdown
    BY <1>8, <2>1, TurnAwayInv DEF GetConnection, HandlerClient
  <2>2. CASE ~fshutdown
    <3>1. accept' = "checked" /\ UNCHANGED <<client, dtor, fshutdown, connections, conn,
             sock, reading, replying, freeing, late>>
      BY <1>8, <2>2 DEF GetConnection
    <3>2. TypeOK'
      BY <3>1, SetTypes DEF TypeOK
    <3>3. HandlerClient'
      BY <1>8, <3>1 DEF GetConnection, HandlerClient
    <3>4. Late'
      BY <2>2, <3>1 DEF Late
    <3> QED
      BY <3>1, <3>2, <3>3, <3>4 DEF Freeing, Flag, Slots, Closed, Exists
  <2> QED
    BY <2>1, <2>2
<1>9. ASSUME AddConnection PROVE IInv'
  <2>1. client \in Conn /\ conn[client] = "none" /\ client # NoConn
    BY <1>9, SetTypes DEF AddConnection, HandlerClient
  <2>2. CASE Cardinality(connections) >= MaxSize /\ TurnAway(client)
               /\ UNCHANGED <<connections, reading, late>>
    BY <1>9, <2>1, <2>2, TurnAwayInv DEF AddConnection
  <2>3. CASE Cardinality(connections) < MaxSize /\ connections' = connections \cup {client}
    <3>1. /\ conn' = [conn EXCEPT ![client] = "live"]
          /\ reading' = reading \cup {client}
          /\ late' = IF fshutdown THEN late \cup {client} ELSE late
          /\ accept' = "rearm" /\ client' = NoConn
          /\ UNCHANGED <<dtor, fshutdown, sock, replying, freeing>>
      BY <1>9, <2>1, <2>3, FiniteConn, SetTypes, ScgiPoolAssumption DEF AddConnection
    <3>2. TypeOK'
      BY <2>1, <2>3, <3>1, SetTypes DEF TypeOK
    <3>3. Slots'
      <4>1. {c \in Conn : Exists(c)}' = {c \in Conn : Exists(c)} \cup {client}
        BY <2>1, <3>1, SetTypes DEF Exists
      <4>2. /\ connections \in SUBSET Conn /\ IsFiniteSet(connections)
            /\ Cardinality(connections) \in Nat /\ MaxSize \in Nat
        BY SetTypes, FiniteConn, ScgiPoolAssumption
      <4>3. Cardinality(connections') <= MaxSize
        BY <2>3, <4>2, FS_AddElement
      <4> QED
        BY <2>3, <3>1, <4>1, <4>3 DEF Slots
    <3>4. Late'
      BY <1>9, <2>1, <3>1 DEF Late, AddConnection
    <3>5. Closed'
      BY <2>1, <3>1, SetTypes DEF Closed, Flag
    <3>6. Freeing' /\ HandlerClient' /\ Flag'
      BY <2>1, <3>1, SetTypes DEF Freeing, HandlerClient, Flag
    <3> QED
      BY <3>2, <3>3, <3>4, <3>5, <3>6
  <2> QED
    BY <1>9, <2>2, <2>3 DEF AddConnection
<1>10. ASSUME Rearm PROVE IInv'
  <2>1. TypeOK'
    BY <1>10, SetTypes DEF Rearm, TypeOK
  <2> QED
    BY <1>10, <2>1 DEF Rearm, HandlerClient, Freeing, Flag, Slots, Late, Closed, Exists
<1>11. ASSUME CancelListener PROVE IInv'
  <2>1. TypeOK'
    BY <1>11, SetTypes DEF CancelListener, TypeOK
  <2> QED
    BY <1>11, <2>1
    DEF CancelListener, HandlerClient, Freeing, Flag, Slots, Late, Closed, Exists
<1>12. ASSUME BeginShutdown PROVE IInv'
  <2>1. TypeOK'
    BY <1>12, SetTypes DEF BeginShutdown, TypeOK
  <2>2. Flag' /\ Late' /\ Slots'
    BY <1>12 DEF BeginShutdown, Flag, Late, Slots, Exists
  <2> QED
    BY <1>12, <2>1, <2>2 DEF BeginShutdown, HandlerClient, Freeing, Closed
<1>13. ASSUME CloseAll PROVE IInv'
  <2>1. TypeOK'
    BY <1>13, SetTypes DEF CloseAll, TypeOK
  <2>2. Closed'
    BY <1>13 DEF CloseAll, Closed, Slots, Exists
  <2> QED
    BY <1>13, <2>1, <2>2 DEF CloseAll, HandlerClient, Freeing, Flag, Slots, Late, Exists
<1>14. ASSUME UNCHANGED vars PROVE IInv'
  <2>1. TypeOK'
    BY <1>14, SetTypes DEF vars, TypeOK
  <2> QED
    BY <1>14, <2>1 DEF vars, HandlerClient, Freeing, Flag, Slots, Late, Closed, Exists
<1> HIDE DEF IInv
<1> QED
  BY <1>1, <1>2, <1>3, <1>4, <1>5, <1>6, <1>7, <1>8, <1>9, <1>10, <1>11, <1>12, <1>13,
     <1>14 DEF Next, AcceptHandler

\* The invariant holds in every state of the pool.
THEOREM Invariant == Spec => []IInv
BY InitInv, NextInv, PTL DEF Spec

\* pool.cpp:21-59.  The slots taken are those of the connections that exist, and
\* never more than maxSize_.
THEOREM SlotsExactHolds == Spec => []SlotsExact
<1>1. IInv => SlotsExact
  <2> SUFFICES ASSUME IInv PROVE SlotsExact
    OBVIOUS
  <2> USE DEF IInv
  <2>1. connections \in SUBSET Conn
    BY SetTypes
  <2>2. {c \in Conn : Exists(c)} \in SUBSET connections
    BY DEF Slots
  <2>3. {c \in Conn : Exists(c)} \in SUBSET Conn
    OBVIOUS
  <2>4. Cardinality({c \in Conn : Exists(c)}) <= Cardinality(connections)
    BY <2>1, <2>2, FiniteConn, FS_Subset
  <2>5. /\ Cardinality({c \in Conn : Exists(c)}) \in Nat
        /\ Cardinality(connections) \in Nat /\ MaxSize \in Nat
    BY <2>1, <2>3, FiniteConn, ScgiPoolAssumption
  <2> QED
    BY <2>4, <2>5 DEF SlotsExact, Slots
<1> QED
  BY <1>1, Invariant, PTL

\* pool.cpp:25-42,61-76.  At most one connection is open after shutdown(): the
\* one whose accept handler had passed the test of fshutdown_ before.
THEOREM OnlyLateSurviveHolds == Spec => []OnlyLateSurvive
<1>1. IInv => OnlyLateSurvive
  <2> SUFFICES ASSUME IInv PROVE OnlyLateSurvive
    OBVIOUS
  <2>1. Cardinality({}) = 0 /\ \A c \in Conn : Cardinality({c}) = 1
    BY FS_EmptySet, FS_Singleton
  <2>2. Cardinality(late) <= 1
    BY <2>1 DEF IInv, Late
  <2> QED
    BY <2>2 DEF IInv, Closed, OnlyLateSurvive
<1> QED
  BY <1>1, Invariant, PTL

-----------------------------------------------------------------------------
(***************************************************************************)
(* The parser.                                                             *)
(***************************************************************************)

\* The stream of the frames fs, frame by frame.
Bytes == Nat \X {"header", "body"} \X Nat
Laid(fs) == [i \in 1..Len(fs) |-> [k \in 1..HeaderSize |-> <<i, "header", k>>]
                                  \o [k \in 1..fs[i].size |-> <<i, "body", k>>]]

\* at[i] bytes of the stream are those of the first i parts it is made of.
Ends(at, parts, stream) ==
    /\ at \in [0..Len(parts) -> Nat]
    /\ at[0] = 0
    /\ at[Len(parts)] = Len(stream)
    /\ \A i \in 1..Len(parts) :
          /\ at[i] = at[i - 1] + Len(parts[i])
          /\ at[i] <= Len(stream)
          /\ \A k \in 1..Len(parts[i]) : stream[at[i - 1] + k] = parts[i][k]
EndOf(fs) == CHOOSE at : Ends(at, Laid(fs), FlattenSeq(Laid(fs)))

\* The frames in front of frame i have been parsed, and every one was valid.
Passed(i) == \A j \in 1..(i - 1) : frames[j].valid

\* The messages of the first i frames.
Messages(i) ==
    [k \in 1..Cardinality(Wanted \cap 1..i) |-> Body(Nth(Wanted, k))]

\* The bytes of the stream process() has gone past.
Consumed == (sent - Len(buf)) + (pos - 1)

\* The parser is in the header of frame i, which may be behind the last one.
InHeader(i) ==
    /\ nread <= HeaderSize
    /\ header = [k \in 1..nread |-> <<i, "header", k>>]
    /\ msgsize = 0
    /\ msgbuf = <<>>

\* The first m bytes of the body of frame i.
Part(i, m) == [k \in 1..m |-> <<i, "body", k>>]

\* The parser is in the body of frame i, some bytes of which it has taken.
InBody(i) ==
    /\ i \in 1..Len(frames)
    /\ frames[i].valid
    /\ size = frames[i].size
    /\ msgsize \in 1..(size - 1)
    /\ nread = HeaderSize + msgsize
    /\ skipmsg <=> size > MaxMsgSize
    /\ msgbuf = IF skipmsg THEN <<>> ELSE Part(i, msgsize)

\* What the parser holds belongs to frame i.
InFrame(i) ==
    /\ Consumed = EndOf(frames)[i - 1] + nread
    /\ Passed(i)
    /\ delivered = Messages(i - 1)
    /\ InHeader(i) \/ InBody(i)

\* The chunk that is being parsed is the last piece of the stream that came.
Chunk ==
    /\ Len(buf) <= sent
    /\ \A k \in 1..Len(buf) : buf[k] = Stream[(sent - Len(buf)) + k]
    /\ pending => pos = Len(buf) + 1

ParserInv ==
    /\ PTypeOK
    /\ frames \in Seq(Frame)
    /\ buf \in Seq(Bytes)
    /\ Chunk
    /\ ~failed => \E i \in 1..(Len(frames) + 1) : InFrame(i)
    /\ \E i \in 0..Len(frames) : delivered = Messages(i)

-----------------------------------------------------------------------------
\* Induction over the naturals, for sets.
LEMMA SetInduction ==
    ASSUME NEW S, 0 \in S, \A n \in Nat : n \in S => n + 1 \in S
    PROVE  Nat \subseteq S
<1> DEFINE T == Nat \ S
<1> SUFFICES ASSUME T # {} PROVE FALSE
  OBVIOUS
<1>1. PICK x \in T : \A y \in T : ~(<<y, x>> \in OpToRel(<, Nat))
  BY WFMin, NatLessThanWellFounded
<1>2. x \in Nat /\ x # 0 /\ x - 1 \in Nat
  OBVIOUS
<1>3. x - 1 \in T
  <2>1. x - 1 \in S => x \in S
    BY <1>2
  <2> QED
    BY <1>2, <2>1
<1> DEFINE p == <<x - 1, x>>
<1>4. p \in Nat \X Nat /\ p[1] < p[2]
  BY <1>2
<1>5. p \in OpToRel(<, Nat)
  BY <1>4, Zenon DEF OpToRel
<1> QED
  BY <1>1, <1>3, <1>5

\* What FlattenSeq returns is made part by part.
LEMMA FlattenSteps ==
    ASSUME NEW X, NEW s \in Seq(Seq(X)), Len(s) # 0
    PROVE  \E f : /\ FlattenSeq(s) = f[Len(s)]
                  /\ f[1] = s[1]
                  /\ \A i \in 2..Len(s) : f[i] = f[i - 1] \o s[i]
<1> DEFINE Flat(n, g) ==
      /\ g \in [1..n -> Seq(X)]
      /\ \A i \in 1..n : g[i] = IF i = 1 THEN s[i] ELSE g[i - 1] \o s[i]
<1> DEFINE Rec(g) == g = [i \in 1..Len(s) |-> IF i = 1 THEN s[i] ELSE g[i - 1] \o s[i]]
<1> DEFINE f == CHOOSE g : Rec(g)
<1>1. FlattenSeq(s) = f[Len(s)]
  BY DEF FlattenSeq
<1>2. Len(s) \in Nat /\ \A i \in 1..Len(s) : s[i] \in Seq(X)
  OBVIOUS
<1> DEFINE Some(n) == \E g : Flat(n, g)
<1> DEFINE S == {n \in Nat : n <= Len(s) => Some(n)}
<1>3. 0 \in S
  <2>1. Flat(0, [i \in 1..0 |-> <<>>])
    OBVIOUS
  <2> QED
    BY <2>1
<1>4. ASSUME NEW n \in Nat, n \in S PROVE n + 1 \in S
  <2> HIDE DEF Some
  <2> SUFFICES ASSUME n + 1 <= Len(s) PROVE Some(n + 1)
    OBVIOUS
  <2>1. Some(n)
    BY <1>2, <1>4
  <2> HIDE DEF Flat
  <2>2. PICK g : Flat(n, g)
    BY <2>1 DEF Some
  <2> USE DEF Flat
  <2> DEFINE v == IF n = 0 THEN s[1] ELSE g[n] \o s[n + 1]
  <2> DEFINE h == [i \in 1..(n + 1) |-> IF i <= n THEN g[i] ELSE v]
  <2>3. v \in Seq(X)
    BY <1>2, <2>2
  <2> HIDE DEF v
  <2>4. h \in [1..(n + 1) -> Seq(X)]
    BY <2>2, <2>3
  <2>5. ASSUME NEW i \in 1..(n + 1)
        PROVE  h[i] = IF i = 1 THEN s[i] ELSE h[i - 1] \o s[i]
    <3>1. CASE i <= n
      <4>1. h[i] = g[i] /\ (i # 1 => i - 1 \in 1..(n + 1) /\ h[i - 1] = g[i - 1])
        BY <3>1
      <4>2. g[i] = IF i = 1 THEN s[i] ELSE g[i - 1] \o s[i]
        <5>1. i \in 1..n
          BY <3>1
        <5> QED
          BY <2>2, <5>1, Zenon
      <4> QED
        BY <4>1, <4>2, Zenon
    <3>2. CASE i = n + 1
      BY <3>2 DEF v
    <3> QED
      BY <3>1, <3>2
  <2>6. Flat(n + 1, h)
    BY <2>4, <2>5
  <2> HIDE DEF Flat
  <2> QED
    BY <2>6 DEF Some
<1>5. PICK g : Flat(Len(s), g)
  <2> HIDE DEF S
  <2>1. Nat \subseteq S
    BY <1>3, <1>4, SetInduction
  <2>2. Some(Len(s))
    <3> HIDE DEF Some
    <3> QED
      BY <1>2, <2>1 DEF S
  <2> HIDE DEF Flat
  <2> QED
    BY <2>2 DEF Some
<1>6. Rec(g)
  BY <1>2, <1>5
<1>7. Rec(f)
  BY <1>6
<1> HIDE DEF f
<1> DEFINE F == [i \in 1..Len(s) |-> IF i = 1 THEN s[i] ELSE f[i - 1] \o s[i]]
<1>8. ASSUME NEW i \in 1..Len(s) PROVE f[i] = F[i]
  <2> HIDE DEF F
  <2> QED
    BY <1>7 DEF F
<1>9. ASSUME NEW i \in 1..Len(s)
      PROVE  f[i] = IF i = 1 THEN s[i] ELSE f[i - 1] \o s[i]
  BY <1>8
<1>10. 1 \in 1..Len(s) /\ \A i \in 2..Len(s) : i \in 1..Len(s) /\ i # 1
  BY <1>2
<1>11. f[1] = s[1] /\ \A i \in 2..Len(s) : f[i] = f[i - 1] \o s[i]
  <2> HIDE DEF F
  <2> QED
    BY <1>9, <1>10, Zenon
<1> QED
  BY <1>1, <1>11

\* Two sequences in a row.
LEMMA Joined ==
    ASSUME NEW X, NEW a \in Seq(X), NEW b \in Seq(X)
    PROVE  /\ a \o b \in Seq(X)
           /\ Len(a \o b) = Len(a) + Len(b)
           /\ \A k \in 1..Len(a) : (a \o b)[k] = a[k]
           /\ \A k \in 1..Len(b) : (a \o b)[Len(a) + k] = b[k]
OBVIOUS

\* Where each part of a flattened sequence of sequences is.
LEMMA FlattenParts ==
    ASSUME NEW X, NEW s \in Seq(Seq(X))
    PROVE  /\ FlattenSeq(s) \in Seq(X)
           /\ \E at : Ends(at, s, FlattenSeq(s))
<1>1. CASE Len(s) = 0
  <2>1. s = <<>> /\ FlattenSeq(s) = s
    BY <1>1 DEF FlattenSeq
  <2>2. Ends([i \in 0..0 |-> 0], s, FlattenSeq(s))
    BY <1>1, <2>1 DEF Ends
  <2> QED
    BY <2>1, <2>2
<1>2. CASE Len(s) # 0
  <2>1. PICK f : /\ FlattenSeq(s) = f[Len(s)]
                 /\ f[1] = s[1]
                 /\ \A i \in 2..Len(s) : f[i] = f[i - 1] \o s[i]
    BY <1>2, FlattenSteps
  <2>2. Len(s) \in Nat /\ 1 <= Len(s) /\ \A i \in 1..Len(s) : s[i] \in Seq(X)
    BY <1>2
  <2> DEFINE Upto(at, n) ==
        /\ at \in [0..n -> Nat]
        /\ at[0] = 0
        /\ at[n] = Len(f[n])
        /\ \A i \in 1..n :
              /\ at[i] = at[i - 1] + Len(s[i])
              /\ at[i] <= Len(f[n])
              /\ \A k \in 1..Len(s[i]) : f[n][at[i - 1] + k] = s[i][k]
  <2> DEFINE Good(n) == f[n] \in Seq(X) /\ \E at : Upto(at, n)
  <2> DEFINE S == {n \in Nat : n + 1 <= Len(s) => Good(n + 1)}
  <2>3. 0 \in S
    <3> DEFINE at == [i \in 0..1 |-> IF i = 0 THEN 0 ELSE Len(s[1])]
    <3>1. s[1] \in Seq(X) /\ Len(s[1]) \in Nat
      BY <2>2
    <3>2. at \in [0..1 -> Nat] /\ at[0] = 0 /\ at[1] = Len(s[1])
      BY <3>1
    <3> HIDE DEF at
    <3>3. Upto(at, 1)
      BY <2>1, <3>1, <3>2
    <3> HIDE DEF Upto
    <3>4. Good(1)
      BY <2>1, <3>1, <3>3
    <3> QED
      BY <3>4
  <2>4. ASSUME NEW n \in Nat, n \in S PROVE n + 1 \in S
    <3> HIDE DEF Good
    <3> SUFFICES ASSUME (n + 1) + 1 <= Len(s) PROVE Good((n + 1) + 1)
      OBVIOUS
    <3> DEFINE m == n + 1
    <3>1. m \in Nat /\ m >= 1 /\ m + 1 \in 2..Len(s) /\ m \in 1..Len(s)
      BY <2>2
    <3>2. Good(m)
      BY <2>2, <2>4, <3>1
    <3> HIDE DEF m
    <3> USE DEF Good
    <3> HIDE DEF Upto
    <3>3. PICK at : Upto(at, m)
      BY <3>2
    <3> USE DEF Upto
    <3>4. f[m] \in Seq(X) /\ s[m + 1] \in Seq(X) /\ f[m + 1] = f[m] \o s[m + 1]
      <4>1. (m + 1) - 1 = m /\ m + 1 \in 1..Len(s)
        BY <3>1
      <4>2. f[m + 1] = f[(m + 1) - 1] \o s[m + 1]
        BY <2>1, <3>1
      <4>3. f[m] \in Seq(X)
        BY <3>2
      <4> QED
        BY <2>2, <4>1, <4>2, <4>3
    <3> DEFINE to == [i \in 0..(m + 1) |-> IF i <= m THEN at[i] ELSE at[m] + Len(s[m + 1])]
    <3>5. /\ f[m + 1] \in Seq(X)
          /\ Len(f[m + 1]) \in Nat
          /\ Len(f[m + 1]) = Len(f[m]) + Len(s[m + 1])
          /\ \A k \in 1..Len(f[m]) : f[m + 1][k] = f[m][k]
          /\ \A k \in 1..Len(s[m + 1]) : f[m + 1][Len(f[m]) + k] = s[m + 1][k]
      <4> DEFINE a == f[m]
                 b == s[m + 1]
                 c == f[m + 1]
      <4>1. a \in Seq(X) /\ b \in Seq(X) /\ c = a \o b
        BY <3>4
      <4> HIDE DEF a, b, c
      <4>2. /\ c \in Seq(X)
            /\ Len(c) \in Nat
            /\ Len(c) = Len(a) + Len(b)
            /\ \A k \in 1..Len(a) : c[k] = a[k]
            /\ \A k \in 1..Len(b) : c[Len(a) + k] = b[k]
        BY <4>1, Joined
      <4> QED
        BY <4>2 DEF a, b, c
    <3>6. at \in [0..m -> Nat] /\ at[0] = 0 /\ at[m] = Len(f[m])
      BY <3>3
    <3>7. Len(f[m]) \in Nat /\ Len(s[m + 1]) \in Nat
      BY <3>4
    <3>8. /\ to \in [0..(m + 1) -> Nat]
          /\ to[0] = 0
          /\ to[m + 1] = Len(f[m + 1])
      <4>1. 0 \in 0..(m + 1) /\ 0 <= m /\ m + 1 \in 0..(m + 1) /\ ~(m + 1 <= m)
            /\ m \in 0..m
        BY <3>1
      <4>2. to[0] = at[0] /\ to[m + 1] = at[m] + Len(s[m + 1])
        BY <4>1
      <4>3. ASSUME NEW i \in 0..(m + 1)
            PROVE  (IF i <= m THEN at[i] ELSE at[m] + Len(s[m + 1])) \in Nat
        <5>1. i <= m => i \in 0..m
          BY <3>1
        <5>2. at[m] + Len(s[m + 1]) \in Nat
          <6> DEFINE p == at[m]
                     q == Len(s[m + 1])
          <6>1. p \in Nat /\ q \in Nat
            BY <3>6, <3>7, Zenon
          <6> HIDE DEF p, q
          <6>2. p + q \in Nat
            BY <6>1
          <6> QED
            BY <6>2 DEF p, q
        <5> QED
          BY <3>6, <5>1, <5>2
      <4>4. to \in [0..(m + 1) -> Nat]
        BY <4>3
      <4> HIDE DEF to
      <4> QED
        BY <3>5, <3>6, <4>2, <4>4
    <3>9. ASSUME NEW i \in 1..(m + 1)
          PROVE  /\ to[i] = to[i - 1] + Len(s[i])
                 /\ to[i] <= Len(f[m + 1])
                 /\ \A k \in 1..Len(s[i]) : f[m + 1][to[i - 1] + k] = s[i][k]
      <4>1. CASE i <= m
        <5>1. i \in 1..m /\ i - 1 \in 0..m /\ i \in 0..(m + 1) /\ i - 1 \in 0..(m + 1)
              /\ i - 1 <= m
          BY <3>1, <4>1
        <5>2. to[i] = at[i] /\ to[i - 1] = at[i - 1]
          BY <4>1, <5>1
        <5>3. /\ at[i] = at[i - 1] + Len(s[i])
              /\ at[i] <= Len(f[m])
              /\ \A k \in 1..Len(s[i]) : f[m][at[i - 1] + k] = s[i][k]
          BY <3>3, <5>1
        <5>4. at[i] \in Nat /\ at[i - 1] \in Nat /\ Len(s[i]) \in Nat
          <6>1. i \in 1..Len(s)
            BY <3>1, <5>1
          <6>2. s[i] \in Seq(X)
            BY <2>2, <6>1
          <6>3. Len(s[i]) \in Nat
            BY <6>2
          <6> QED
            BY <3>1, <3>6, <5>1, <6>3
        <5> DEFINE p == at[i - 1]
                   q == Len(s[i])
                   l == Len(f[m])
                   r == Len(s[m + 1])
        <5>6. p \in Nat /\ q \in Nat /\ l \in Nat /\ p + q <= l
          BY <3>7, <5>3, <5>4, Zenon
        <5>5. ASSUME NEW k \in 1..Len(s[i]) PROVE f[m + 1][at[i - 1] + k] = s[i][k]
          <6>1. at[i - 1] + k \in 1..Len(f[m])
            <7> HIDE DEF p, q, l
            <7>1. k \in 1..q
              BY DEF q
            <7>2. p + k \in 1..l
              BY <5>6, <7>1
            <7> QED
              BY <7>2 DEF p, l
          <6>2. f[m + 1][at[i - 1] + k] = f[m][at[i - 1] + k]
            BY <3>5, <6>1
          <6> QED
            BY <5>3, <6>2
        <5>7. to[i] = to[i - 1] + Len(s[i])
          BY <5>2, <5>3, Zenon
        <5>8. to[i] <= Len(f[m + 1])
          <6>1. at[i] \in Nat /\ at[i] <= l /\ r \in Nat /\ to[i] = at[i]
                /\ Len(f[m + 1]) = l + r
            BY <3>5, <3>7, <5>2, <5>3, <5>4, Zenon
          <6> HIDE DEF to, l, r
          <6> QED
            BY <5>6, <6>1
        <5>9. \A k \in 1..Len(s[i]) : f[m + 1][to[i - 1] + k] = s[i][k]
          BY <5>2, <5>5, Zenon
        <5> QED
          BY <5>7, <5>8, <5>9, Zenon
      <4>2. CASE ~(i <= m)
        <5>1. i = m + 1 /\ i - 1 = m /\ m \in 0..(m + 1)
          BY <3>1, <4>2
        <5>2. to[m] = at[m] /\ to[m + 1] = at[m] + Len(s[m + 1])
          BY <3>1
        <5> HIDE DEF to
        <5>3. to[i - 1] = Len(f[m]) /\ to[i] = Len(f[m]) + Len(s[i]) /\ s[i] = s[m + 1]
          BY <3>6, <5>1, <5>2, Zenon
        <5>4. to[i] = to[i - 1] + Len(s[i])
          BY <5>3, Zenon
        <5>5. to[i] = Len(f[m + 1])
          BY <3>5, <5>3, Zenon
        <5>6. \A k \in 1..Len(s[i]) : f[m + 1][to[i - 1] + k] = s[i][k]
          BY <3>5, <5>3, Zenon
        <5>7. Len(f[m + 1]) \in Nat
          BY <3>5, Zenon
        <5>8. to[i] <= Len(f[m + 1])
          <6> DEFINE p == Len(f[m + 1])
          <6>1. p \in Nat /\ to[i] = p
            BY <5>5, <5>7, Zenon
          <6> HIDE DEF p
          <6>2. to[i] <= p
            BY <6>1
          <6> QED
            BY <6>2 DEF p
        <5> QED
          BY <5>4, <5>6, <5>8, Zenon
      <4> QED
        BY <4>1, <4>2
    <3>10. Upto(to, m + 1)
      <4> HIDE DEF to
      <4> QED
        BY <3>8, <3>9
    <3> HIDE DEF Upto, to
    <3>11. Good(m + 1)
      BY <3>5, <3>10
    <3> QED
      BY <3>11 DEF m
  <2>5. Good(Len(s))
    <3> HIDE DEF S, Good
    <3>1. Nat \subseteq S
      BY <2>3, <2>4, SetInduction
    <3>2. Len(s) - 1 \in Nat /\ (Len(s) - 1) + 1 = Len(s)
      BY <2>2
    <3>3. Len(s) - 1 \in S
      BY <3>1, <3>2
    <3>4. (Len(s) - 1) + 1 <= Len(s) => Good((Len(s) - 1) + 1)
      BY <3>3, Zenon DEF S
    <3>5. Good((Len(s) - 1) + 1)
      BY <2>2, <3>2, <3>4
    <3> QED
      BY <3>2, <3>5, Zenon
  <2> HIDE DEF Upto
  <2>6. PICK at : Upto(at, Len(s))
    BY <2>5
  <2>7. Ends(at, s, FlattenSeq(s))
    BY <2>1, <2>6 DEF Ends, Upto
  <2> QED
    BY <2>1, <2>5, <2>7
<1> QED
  BY <1>1, <1>2

-----------------------------------------------------------------------------
(* The stream.                                                             *)

\* The parts of the stream are sequences of bytes.
LEMMA LaidType ==
    ASSUME NEW fs \in Seq(Frame)
    PROVE  /\ Laid(fs) \in Seq(Seq(Bytes))
           /\ Len(Laid(fs)) = Len(fs)
           /\ \A i \in 1..Len(fs) :
                 /\ Len(Laid(fs)[i]) = HeaderSize + fs[i].size
                 /\ \A k \in 1..HeaderSize : Laid(fs)[i][k] = <<i, "header", k>>
                 /\ \A k \in 1..fs[i].size :
                       Laid(fs)[i][HeaderSize + k] = <<i, "body", k>>
<1>1. ASSUME NEW i \in 1..Len(fs)
      PROVE  LET part == [k \in 1..HeaderSize |-> <<i, "header", k>>]
                         \o [k \in 1..fs[i].size |-> <<i, "body", k>>]
             IN  /\ part \in Seq(Bytes)
                 /\ Len(part) = HeaderSize + fs[i].size
                 /\ \A k \in 1..HeaderSize : part[k] = <<i, "header", k>>
                 /\ \A k \in 1..fs[i].size : part[HeaderSize + k] = <<i, "body", k>>
  <2> DEFINE a == [k \in 1..HeaderSize |-> <<i, "header", k>>]
             b == [k \in 1..fs[i].size |-> <<i, "body", k>>]
  <2>1. i \in Nat /\ HeaderSize \in Nat /\ fs[i] \in Frame
    BY ScgiParserAssumption
  <2>2. fs[i].size \in Nat
    BY <2>1, ScgiParserAssumption DEF Frame
  <2>3. a \in Seq(Bytes) /\ Len(a) = HeaderSize
    <3>1. \A k \in 1..HeaderSize : <<i, "header", k>> \in Bytes
      BY <2>1 DEF Bytes
    <3>2. a \in [1..HeaderSize -> Bytes]
      BY <3>1, Zenon
    <3> HIDE DEF a
    <3> QED
      BY <2>1, <3>2
  <2>4. b \in Seq(Bytes) /\ Len(b) = fs[i].size
    <3>1. \A k \in 1..fs[i].size : <<i, "body", k>> \in Bytes
      BY <2>1, <2>2 DEF Bytes
    <3>2. b \in [1..fs[i].size -> Bytes]
      BY <3>1, Zenon
    <3> HIDE DEF b
    <3> QED
      BY <2>2, <3>2
  <2>5. /\ \A k \in 1..HeaderSize : a[k] = <<i, "header", k>>
        /\ \A k \in 1..fs[i].size : b[k] = <<i, "body", k>>
    OBVIOUS
  <2> HIDE DEF a, b
  <2>6. /\ a \o b \in Seq(Bytes)
        /\ Len(a \o b) = Len(a) + Len(b)
        /\ \A k \in 1..Len(a) : (a \o b)[k] = a[k]
        /\ \A k \in 1..Len(b) : (a \o b)[Len(a) + k] = b[k]
    <3>1. a \in Seq(Bytes) /\ b \in Seq(Bytes)
      BY <2>3, <2>4
    <3> QED
      BY <3>1, Joined
  <2>7. /\ a \o b \in Seq(Bytes)
        /\ Len(a \o b) = HeaderSize + fs[i].size
        /\ \A k \in 1..HeaderSize : (a \o b)[k] = <<i, "header", k>>
        /\ \A k \in 1..fs[i].size : (a \o b)[HeaderSize + k] = <<i, "body", k>>
    BY <2>3, <2>4, <2>5, <2>6, Zenon
  <2> QED
    BY <2>7, Zenon DEF a, b
<1> DEFINE part(i) == [k \in 1..HeaderSize |-> <<i, "header", k>>]
                      \o [k \in 1..fs[i].size |-> <<i, "body", k>>]
<1>2. \A i \in 1..Len(fs) : /\ part(i) \in Seq(Bytes)
                            /\ Len(part(i)) = HeaderSize + fs[i].size
                            /\ \A k \in 1..HeaderSize : part(i)[k] = <<i, "header", k>>
                            /\ \A k \in 1..fs[i].size : part(i)[HeaderSize + k] = <<i, "body", k>>
  BY <1>1, Zenon
<1>3. Laid(fs) = [i \in 1..Len(fs) |-> part(i)]
  BY DEF Laid
<1> HIDE DEF part
<1>4. Laid(fs) \in [1..Len(fs) -> Seq(Bytes)] /\ \A i \in 1..Len(fs) : Laid(fs)[i] = part(i)
  BY <1>2, <1>3, Zenon
<1>5. Len(fs) \in Nat
  OBVIOUS
<1>6. Laid(fs) \in Seq(Seq(Bytes)) /\ Len(Laid(fs)) = Len(fs)
  BY <1>4, <1>5
<1> QED
  BY <1>2, <1>4, <1>6, Zenon

\* The stream, and where its frames end.
LEMMA StreamEnds ==
    ASSUME frames \in Seq(Frame)
    PROVE  /\ Stream = FlattenSeq(Laid(frames))
           /\ Stream \in Seq(Bytes)
           /\ Ends(EndOf(frames), Laid(frames), Stream)
<1>1. Stream = FlattenSeq(Laid(frames))
  BY DEF Stream, Laid, HeaderBytes, Body
<1>2. /\ FlattenSeq(Laid(frames)) \in Seq(Bytes)
      /\ \E at : Ends(at, Laid(frames), FlattenSeq(Laid(frames)))
  BY LaidType, FlattenParts
<1>3. Ends(EndOf(frames), Laid(frames), FlattenSeq(Laid(frames)))
  BY <1>2, Zenon DEF EndOf
<1> QED
  BY <1>1, <1>2, <1>3

\* The bytes of each frame, at their places.
LEMMA StreamFacts ==
    ASSUME frames \in Seq(Frame)
    PROVE  /\ Stream \in Seq(Bytes)
           /\ Len(Stream) \in Nat
           /\ EndOf(frames) \in [0..Len(frames) -> Nat]
           /\ EndOf(frames)[0] = 0
           /\ EndOf(frames)[Len(frames)] = Len(Stream)
           /\ \A i \in 1..Len(frames) :
                 /\ EndOf(frames)[i] = EndOf(frames)[i - 1] + (HeaderSize + frames[i].size)
                 /\ \A k \in 1..HeaderSize :
                       Stream[EndOf(frames)[i - 1] + k] = <<i, "header", k>>
                 /\ \A k \in 1..frames[i].size :
                       Stream[EndOf(frames)[i - 1] + (HeaderSize + k)] = <<i, "body", k>>
<1> DEFINE at == EndOf(frames)
           parts == Laid(frames)
<1>1. Stream \in Seq(Bytes) /\ Ends(at, parts, Stream)
  BY StreamEnds
<1>2. /\ Len(parts) = Len(frames)
      /\ \A i \in 1..Len(frames) :
            /\ Len(parts[i]) = HeaderSize + frames[i].size
            /\ \A k \in 1..HeaderSize : parts[i][k] = <<i, "header", k>>
            /\ \A k \in 1..frames[i].size : parts[i][HeaderSize + k] = <<i, "body", k>>
  BY LaidType
<1> HIDE DEF at, parts
<1>3. Len(Stream) \in Nat /\ Len(frames) \in Nat
  BY <1>1
<1>4. /\ at \in [0..Len(frames) -> Nat]
      /\ at[0] = 0
      /\ at[Len(frames)] = Len(Stream)
      /\ \A i \in 1..Len(frames) :
            /\ at[i] = at[i - 1] + Len(parts[i])
            /\ \A k \in 1..Len(parts[i]) : Stream[at[i - 1] + k] = parts[i][k]
  BY <1>1, <1>2, Zenon DEF Ends
<1>5. ASSUME NEW i \in 1..Len(frames)
      PROVE  /\ at[i] = at[i - 1] + (HeaderSize + frames[i].size)
             /\ \A k \in 1..HeaderSize : Stream[at[i - 1] + k] = <<i, "header", k>>
             /\ \A k \in 1..frames[i].size :
                   Stream[at[i - 1] + (HeaderSize + k)] = <<i, "body", k>>
  <2>1. HeaderSize \in Nat /\ frames[i].size \in Nat
    <3>1. frames[i] \in Frame
      OBVIOUS
    <3> QED
      BY <3>1, ScgiParserAssumption DEF Frame
  <2>2. \A k \in 1..(HeaderSize + frames[i].size) : Stream[at[i - 1] + k] = parts[i][k]
    BY <1>2, <1>4, Zenon
  <2>3. /\ \A k \in 1..HeaderSize : k \in 1..(HeaderSize + frames[i].size)
        /\ \A k \in 1..frames[i].size : HeaderSize + k \in 1..(HeaderSize + frames[i].size)
    BY <2>1
  <2> QED
    BY <1>2, <1>4, <2>2, <2>3, Zenon
<1> QED
  BY <1>1, <1>3, <1>4, <1>5, Zenon DEF at

\* The place process() is at, in frame i or behind the last one.
LEMMA InStream ==
    ASSUME frames \in Seq(Frame), NEW i \in 1..(Len(frames) + 1), NEW n \in Nat,
           EndOf(frames)[i - 1] + n < Len(Stream)
    PROVE  i \in 1..Len(frames)
<1>1. Len(frames) \in Nat
  OBVIOUS
<1>2. CASE i = Len(frames) + 1
  <2>1. i - 1 = Len(frames)
    BY <1>1, <1>2
  <2>2. EndOf(frames)[Len(frames)] = Len(Stream) /\ Len(Stream) \in Nat
    BY StreamFacts, Zenon
  <2> DEFINE l == Len(Stream)
  <2>3. l \in Nat /\ l + n < l
    BY <2>1, <2>2
  <2> HIDE DEF l
  <2> QED
    BY <2>3
<1> QED
  BY <1>1, <1>2

\* What the bytes of a whole header say.
LEMMA Decoded ==
    ASSUME frames \in Seq(Frame), NEW i \in 1..Len(frames),
           header = [k \in 1..HeaderSize |-> <<i, "header", k>>]
    PROVE  Decode(header) = frames[i]
<1>1. header = HeaderBytes(i)
  BY Zenon DEF HeaderBytes
<1>2. ASSUME NEW j \in 1..Len(frames), header = HeaderBytes(j) PROVE j = i
  <2>1. 1 \in 1..HeaderSize
    BY ScgiParserAssumption
  <2>2. header[1] = <<j, "header", 1>>
    BY <1>2, <2>1, Zenon DEF HeaderBytes
  <2>3. header[1] = <<i, "header", 1>>
    BY <2>1, Zenon
  <2> QED
    BY <2>2, <2>3
<1>3. (CHOOSE j \in 1..Len(frames) : header = HeaderBytes(j)) = i
  BY <1>1, <1>2, Zenon
<1> QED
  BY <1>1, <1>3, Zenon DEF Decode

-----------------------------------------------------------------------------
(* The messages that are wanted.                                           *)

\* The frames up to i that are wanted, and those up to the one before.
LEMMA WantedUpto ==
    ASSUME frames \in Seq(Frame), NEW i \in 1..Len(frames)
    PROVE  /\ Wanted \subseteq 1..Len(frames)
           /\ IsFiniteSet(Wanted)
           /\ i \in Wanted => Wanted \cap 1..i = (Wanted \cap 1..(i - 1)) \cup {i}
           /\ i \notin Wanted => Wanted \cap 1..i = Wanted \cap 1..(i - 1)
<1>1. Wanted \subseteq 1..Len(frames)
  BY DEF Wanted
<1>2. Len(frames) \in Nat
  OBVIOUS
<1>3. IsFiniteSet(Wanted)
  <2>1. IsFiniteSet(1..Len(frames))
    BY <1>2, FS_Interval
  <2> QED
    BY <1>1, <2>1, FS_Subset
<1> HIDE DEF Wanted
<1>4. 1..i = 1..(i - 1) \cup {i}
  BY <1>2
<1> QED
  BY <1>1, <1>3, <1>4

\* How many there are of a set of numbers up to each of them.
LEMMA CountGrows ==
    ASSUME NEW S, IsFiniteSet(S), S \subseteq Nat, NEW i \in Nat, NEW j \in S, i < j
    PROVE  Cardinality(S \cap 1..i) < Cardinality(S \cap 1..j) \/ j = 0
<1> SUFFICES ASSUME j # 0 PROVE Cardinality(S \cap 1..i) < Cardinality(S \cap 1..j)
  OBVIOUS
<1>1. IsFiniteSet(S \cap 1..j)
  BY FS_Subset
<1>2. S \cap 1..i \subseteq S \cap 1..j
  OBVIOUS
<1>3. j \in S \cap 1..j /\ j \notin S \cap 1..i
  OBVIOUS
<1>4. S \cap 1..i # S \cap 1..j
  BY <1>3
<1>5. /\ Cardinality(S \cap 1..i) <= Cardinality(S \cap 1..j)
      /\ Cardinality(S \cap 1..i) = Cardinality(S \cap 1..j) => S \cap 1..i = S \cap 1..j
  BY <1>1, <1>2, FS_Subset
<1>6. Cardinality(S \cap 1..j) \in Nat /\ Cardinality(S \cap 1..i) \in Nat
  BY <1>1, <1>2, FS_Subset, FS_CardinalityType
<1> QED
  BY <1>4, <1>5, <1>6

\* The element of S that has k - 1 before it is the k-th.
LEMMA NthIs ==
    ASSUME NEW S, IsFiniteSet(S), S \subseteq Nat \ {0}, NEW i \in S
    PROVE  Nth(S, Cardinality(S \cap 1..i)) = i
<1> DEFINE n == Cardinality(S \cap 1..i)
<1>1. ASSUME NEW j \in S, Cardinality(S \cap 1..j) = n PROVE j = i
  <2>1. ~(j < i)
    <3>1. SUFFICES ASSUME j < i PROVE FALSE
      OBVIOUS
    <3>2. Cardinality(S \cap 1..j) < Cardinality(S \cap 1..i)
      BY <3>1, CountGrows
    <3>3. Cardinality(S \cap 1..i) \in Nat
      BY FS_Subset, FS_CardinalityType
    <3> QED
      BY <1>1, <3>2, <3>3
  <2>2. ~(i < j)
    <3>1. SUFFICES ASSUME i < j PROVE FALSE
      OBVIOUS
    <3>2. Cardinality(S \cap 1..i) < Cardinality(S \cap 1..j)
      BY <3>1, CountGrows
    <3>3. Cardinality(S \cap 1..i) \in Nat
      BY FS_Subset, FS_CardinalityType
    <3> QED
      BY <1>1, <3>2, <3>3
  <2> QED
    BY <2>1, <2>2
<1> HIDE DEF n
<1>2. Cardinality(S \cap 1..i) = n
  BY DEF n
<1>3. (CHOOSE j \in S : Cardinality(S \cap 1..j) = n) = i
  BY <1>1, <1>2, Zenon
<1>4. Nth(S, n) = i
  BY <1>3, Zenon DEF Nth
<1> QED
  BY <1>2, <1>4, Zenon

\* After a frame that is wanted there is one message more.
LEMMA NextMessage ==
    ASSUME frames \in Seq(Frame), NEW i \in 1..Len(frames)
    PROVE  /\ i \in Wanted => Messages(i) = Append(Messages(i - 1), Body(i))
           /\ i \notin Wanted => Messages(i) = Messages(i - 1)
<1>1. /\ Wanted \subseteq 1..Len(frames)
      /\ IsFiniteSet(Wanted)
      /\ i \in Wanted => Wanted \cap 1..i = (Wanted \cap 1..(i - 1)) \cup {i}
      /\ i \notin Wanted => Wanted \cap 1..i = Wanted \cap 1..(i - 1)
  BY WantedUpto
<1> DEFINE n == Cardinality(Wanted \cap 1..(i - 1))
           b(k) == Body(Nth(Wanted, k))
<1>2. n \in Nat /\ IsFiniteSet(Wanted \cap 1..(i - 1))
  BY <1>1, FS_Subset, FS_CardinalityType
<1>3. Messages(i - 1) = [k \in 1..n |-> b(k)]
  BY Zenon DEF Messages
<1>4. CASE i \in Wanted
  <2>1. i \notin Wanted \cap 1..(i - 1)
    OBVIOUS
  <2>2. Cardinality((Wanted \cap 1..(i - 1)) \cup {i}) = n + 1
    BY <1>2, <2>1, FS_AddElement
  <2>3. Cardinality(Wanted \cap 1..i) = n + 1
    BY <1>1, <1>4, <2>2
  <2>4. Nth(Wanted, n + 1) = i
    <3>1. Wanted \subseteq Nat \ {0}
      BY <1>1
    <3>2. Nth(Wanted, Cardinality(Wanted \cap 1..i)) = i
      BY <1>1, <1>4, <3>1, NthIs
    <3> QED
      BY <2>3, <3>2
  <2>5. b(n + 1) = Body(i)
    BY <2>4, Zenon
  <2>6. Messages(i) = [k \in 1..(n + 1) |-> b(k)]
    BY <2>3, Zenon DEF Messages
  <2> HIDE DEF n, b
  <2>7. [k \in 1..(n + 1) |-> b(k)] = Append([k \in 1..n |-> b(k)], b(n + 1))
    BY <1>2
  <2> QED
    BY <1>3, <1>4, <2>5, <2>6, <2>7, Zenon
<1>5. CASE i \notin Wanted
  BY <1>1, <1>5, Zenon DEF Messages
<1> QED
  BY <1>4, <1>5

\* The messages of some of the frames are the first ones of all.
LEMMA MessagesPrefix ==
    ASSUME frames \in Seq(Frame), NEW i \in 0..Len(frames)
    PROVE  IsPrefix(Messages(i), Expected)
<1>1. Wanted \subseteq 1..Len(frames) /\ Len(frames) \in Nat
  BY DEF Wanted
<1>2. IsFiniteSet(Wanted)
  <2>1. IsFiniteSet(1..Len(frames))
    BY <1>1, FS_Interval
  <2> QED
    BY <1>1, <2>1, FS_Subset
<1> DEFINE m == Cardinality(Wanted)
           n == Cardinality(Wanted \cap 1..i)
           b(k) == Body(Nth(Wanted, k))
<1>3. m \in Nat /\ n \in Nat /\ n <= m
  BY <1>2, FS_Subset, FS_CardinalityType
<1>4. Messages(i) = [k \in 1..n |-> b(k)]
  BY Zenon DEF Messages
<1>5. Expected = [k \in 1..m |-> b(k)]
  BY Zenon DEF Expected
<1> HIDE DEF m, n, b
<1> DEFINE s == [k \in 1..n |-> b(k)]
           t == [k \in 1..m |-> b(k)]
<1>6. Len(s) = n /\ Len(t) = m
  BY <1>3
<1>7. SubSeq(s, 1, n) = [k \in 1..n |-> s[k]] /\ SubSeq(t, 1, n) = [k \in 1..n |-> t[k]]
  BY <1>3
<1>8. \A k \in 1..n : s[k] = t[k]
  BY <1>3
<1> HIDE DEF s, t
<1>9. SubSeq(s, 1, n) = SubSeq(t, 1, n)
  BY <1>7, <1>8, Zenon
<1>10. IsPrefix(s, t)
  BY <1>3, <1>6, <1>9 DEF IsPrefix
<1> QED
  BY <1>4, <1>5, <1>10 DEF s, t

-----------------------------------------------------------------------------
(* The steps.                                                              *)

\* The peer sends what it sends.
LEMMA SameFrames ==
    ASSUME UNCHANGED frames
    PROVE  /\ Stream' = Stream
           /\ \A i : Body(i)' = Body(i)
           /\ \A i : Messages(i)' = Messages(i)
           /\ \A i : Passed(i)' = Passed(i)
<1>1. \A i : Body(i)' = Body(i)
  BY DEF Body
<1>2. Stream' = Stream
  BY DEF Stream, HeaderBytes, Body
<1>3. Wanted' = Wanted
  BY DEF Wanted
<1>4. \A i : Messages(i)' = Messages(i)
  BY <1>1, <1>3 DEF Messages
<1>5. \A i : Passed(i)' = Passed(i)
  BY DEF Passed
<1> QED
  BY <1>1, <1>2, <1>4, <1>5

\* The bytes of the chunk that process() has not gone past.
LEMMA NextBytes ==
    ASSUME ParserInv, More, NEW i \in 1..(Len(frames) + 1), InFrame(i)
    PROVE  /\ i \in 1..Len(frames)
           /\ EndOf(frames)[i - 1] \in Nat
           /\ \A k \in 1..((Len(buf) - pos) + 1) :
                 buf[(pos + k) - 1] = Stream[EndOf(frames)[i - 1] + (nread + k)]
<1>1. /\ frames \in Seq(Frame) /\ buf \in Seq(Bytes) /\ nread \in Nat
      /\ pos \in 1..(Len(buf) + 1) /\ pos <= Len(buf)
      /\ sent \in 0..Len(Stream) /\ Len(buf) <= sent
  BY DEF ParserInv, PTypeOK, More, Chunk
<1>2. Len(frames) \in Nat /\ Len(buf) \in Nat /\ Len(Stream) \in Nat
  BY <1>1, StreamFacts
<1> DEFINE at == EndOf(frames)[i - 1]
           l == Len(buf)
           s == Len(Stream)
<1>3. at \in Nat
  <2>1. i - 1 \in 0..Len(frames)
    BY <1>2
  <2>2. EndOf(frames) \in [0..Len(frames) -> Nat]
    BY <1>1, StreamFacts, Zenon
  <2> QED
    BY <2>1, <2>2
<1>4. (sent - l) + (pos - 1) = at + nread
  BY DEF InFrame, Consumed
<1> HIDE DEF at
<1>5. at + nread < s
  <2> HIDE DEF l, s
  <2>1. l \in Nat /\ s \in Nat /\ pos \in 1..l /\ sent \in 0..s /\ l <= sent
    BY <1>1, <1>2 DEF l, s
  <2> QED
    BY <1>1, <1>3, <1>4, <2>1
<1>6. i \in 1..Len(frames)
  BY <1>1, <1>5, InStream DEF at
<1>7. ASSUME NEW k \in 1..((l - pos) + 1) PROVE buf[(pos + k) - 1] = Stream[at + (nread + k)]
  <2>1. (pos + k) - 1 \in 1..l
    BY <1>1, <1>2
  <2>2. buf[(pos + k) - 1] = Stream[(sent - l) + ((pos + k) - 1)]
    BY <2>1, Zenon DEF ParserInv, Chunk
  <2>3. (sent - l) + ((pos + k) - 1) = at + (nread + k)
    <3> HIDE DEF l
    <3>1. l \in Nat /\ pos \in 1..l /\ sent \in Nat /\ k \in Nat
      BY <1>1, <1>2 DEF l
    <3> QED
      BY <1>1, <1>3, <1>4, <3>1
  <2> QED
    BY <2>2, <2>3
<1> QED
  BY <1>3, <1>6, <1>7 DEF at

\* The read that completes brings the next piece of the stream.
LEMMA ReadCompleteInv == ParserInv /\ ReadComplete => ParserInv'
<1> SUFFICES ASSUME ParserInv, ReadComplete PROVE ParserInv'
  OBVIOUS
<1>1. /\ frames \in Seq(Frame) /\ buf \in Seq(Bytes)
      /\ Stream \in Seq(Bytes) /\ Len(Stream) \in Nat /\ sent \in Nat
      /\ pos = Len(buf) + 1 /\ Len(buf) \in Nat
  BY StreamFacts DEF ParserInv, PTypeOK, ReadComplete, Chunk
<1>2. PICK n \in 1..ChunkSize : /\ sent + n <= Len(Stream)
                                /\ buf' = SubSeq(Stream, sent + 1, sent + n)
                                /\ sent' = sent + n
  BY DEF ReadComplete
<1>3. n \in Nat /\ n >= 1
  BY ScgiParserAssumption
<1>4. /\ buf' \in Seq(Bytes)
      /\ Len(buf') = n
      /\ \A k \in 1..n : buf'[k] = Stream[sent + k]
  <2> DEFINE t == Stream
  <2>1. t \in Seq(Bytes) /\ sent + n <= Len(t)
    BY <1>1, <1>2
  <2> HIDE DEF t
  <2>2. /\ SubSeq(t, sent + 1, sent + n) \in Seq(Bytes)
        /\ Len(SubSeq(t, sent + 1, sent + n)) = n
        /\ \A k \in 1..n : SubSeq(t, sent + 1, sent + n)[k] = t[sent + k]
    BY <1>1, <1>3, <2>1
  <2> QED
    BY <1>2, <2>2 DEF t
<1>5. UNCHANGED <<frames, parser, delivered, ended, closed>> /\ pos' = 1 /\ pending' = FALSE
  BY DEF ReadComplete
<1>6. Stream' = Stream /\ \A i : Messages(i)' = Messages(i) /\ Passed(i)' = Passed(i)
  BY <1>5, SameFrames
<1>7. PTypeOK'
  <2>1. sent' \in 0..Len(Stream)'
    BY <1>1, <1>2, <1>3, <1>6
  <2>2. pos' \in 1..(Len(buf)' + 1)
    BY <1>3, <1>4, <1>5
  <2> QED
    BY <1>5, <2>1, <2>2 DEF ParserInv, PTypeOK, parser
<1>8. Chunk'
  <2>1. Len(buf') <= sent' /\ sent' - Len(buf') = sent
    BY <1>1, <1>2, <1>3, <1>4
  <2> QED
    BY <1>2, <1>4, <1>5, <1>6, <2>1, Zenon DEF Chunk
<1>9. Consumed' = Consumed
  <2>1. Consumed' = ((sent + n) - n) + (1 - 1)
    BY <1>2, <1>4, <1>5 DEF Consumed
  <2>2. Consumed = (sent - Len(buf)) + ((Len(buf) + 1) - 1)
    BY <1>1 DEF Consumed
  <2> QED
    BY <1>1, <1>3, <2>1, <2>2
<1>10. ASSUME NEW i, InFrame(i) PROVE InFrame(i)'
  BY <1>5, <1>6, <1>9, <1>10 DEF InFrame, InHeader, InBody, parser
<1> QED
  BY <1>1, <1>4, <1>5, <1>6, <1>7, <1>8, <1>10 DEF ParserInv, parser

\* A read that fails leaves what has come as it is.
LEMMA ReadFailsInv == ParserInv /\ ReadFails => ParserInv'
<1> SUFFICES ASSUME ParserInv, ReadFails PROVE ParserInv'
  OBVIOUS
<1>1. /\ UNCHANGED <<frames, sent, buf, pos, closed, parser, delivered>>
      /\ pending' = FALSE /\ ended' = TRUE
  BY DEF ReadFails
<1>2. Stream' = Stream /\ \A i : Messages(i)' = Messages(i) /\ Passed(i)' = Passed(i)
  BY <1>1, SameFrames
<1>3. PTypeOK'
  BY <1>1, <1>2 DEF ParserInv, PTypeOK, parser
<1>4. Chunk'
  BY <1>1, <1>2 DEF ParserInv, Chunk
<1>5. ASSUME NEW i, InFrame(i) PROVE InFrame(i)'
  BY <1>1, <1>2, <1>5 DEF InFrame, Consumed, InHeader, InBody, parser
<1> QED
  BY <1>1, <1>2, <1>3, <1>4, <1>5 DEF ParserInv, parser

\* A read that starts changes nothing of what has come.
LEMMA ReadAgainInv == ParserInv /\ ReadAgain => ParserInv'
<1> SUFFICES ASSUME ParserInv, ReadAgain PROVE ParserInv'
  OBVIOUS
<1>1. /\ UNCHANGED <<frames, sent, buf, pos, ended, closed, parser, delivered>>
      /\ pending' = TRUE
  BY DEF ReadAgain
<1>2. Stream' = Stream /\ \A i : Messages(i)' = Messages(i) /\ Passed(i)' = Passed(i)
  BY <1>1, SameFrames
<1>3. PTypeOK'
  BY <1>1, <1>2 DEF ParserInv, PTypeOK, parser
<1>4. pos = Len(buf) + 1
  BY DEF ParserInv, PTypeOK, ReadAgain
<1>5. Chunk'
  BY <1>1, <1>2, <1>4 DEF ParserInv, Chunk
<1>6. ASSUME NEW i, InFrame(i) PROVE InFrame(i)'
  BY <1>1, <1>2, <1>6 DEF InFrame, Consumed, InHeader, InBody, parser
<1> QED
  BY <1>1, <1>2, <1>3, <1>5, <1>6 DEF ParserInv, parser

\* The frame the parser is in.
LEMMA Current ==
    ASSUME ParserInv, More
    PROVE  \E i \in 1..(Len(frames) + 1) : InFrame(i)
BY DEF ParserInv, More

\* One more byte of the header.
LEMMA HeaderByteInv == ParserInv /\ HeaderByte => ParserInv'
<1> SUFFICES ASSUME ParserInv, HeaderByte PROVE ParserInv'
  OBVIOUS
<1>1. More /\ nread < HeaderSize
  BY DEF HeaderByte
<1>2. PICK i \in 1..(Len(frames) + 1) : InFrame(i)
  BY <1>1, Current
<1>3. /\ frames \in Seq(Frame) /\ buf \in Seq(Bytes) /\ nread \in Nat
      /\ pos \in 1..Len(buf) /\ sent \in Nat /\ HeaderSize \in Nat /\ Len(buf) \in Nat
  BY <1>1, ScgiParserAssumption DEF ParserInv, PTypeOK, More
<1>4. /\ i \in 1..Len(frames)
      /\ EndOf(frames)[i - 1] \in Nat
      /\ buf[pos] = <<i, "header", nread + 1>>
  <2>1. /\ i \in 1..Len(frames)
        /\ EndOf(frames)[i - 1] \in Nat
        /\ \A k \in 1..((Len(buf) - pos) + 1) :
              buf[(pos + k) - 1] = Stream[EndOf(frames)[i - 1] + (nread + k)]
    BY <1>1, <1>2, NextBytes
  <2>2. 1 \in 1..((Len(buf) - pos) + 1) /\ (pos + 1) - 1 = pos /\ nread + 1 \in 1..HeaderSize
    BY <1>1, <1>3
  <2>3. Stream[EndOf(frames)[i - 1] + (nread + 1)] = <<i, "header", nread + 1>>
    BY <1>3, <2>1, <2>2, StreamFacts, Zenon
  <2>4. buf[(pos + 1) - 1] = Stream[EndOf(frames)[i - 1] + (nread + 1)]
    BY <2>1, <2>2, Zenon
  <2> QED
    BY <2>1, <2>2, <2>3, <2>4
<1>5. /\ header' = Append(header, <<i, "header", nread + 1>>)
      /\ nread' = nread + 1
      /\ pos' = pos + 1
      /\ UNCHANGED <<frames, sent, buf, pending, ended, closed, delivered>>
      /\ UNCHANGED <<msgbuf, size, msgsize, skipmsg, failed>>
  BY <1>4 DEF HeaderByte
<1>6. Stream' = Stream /\ \A j : Messages(j)' = Messages(j) /\ Passed(j)' = Passed(j)
  BY <1>5, SameFrames
<1>7. InHeader(i)
  BY <1>1, <1>2, <1>3 DEF InFrame, InBody
<1>8. header' = [k \in 1..(nread + 1) |-> <<i, "header", k>>]
  BY <1>3, <1>5, <1>7 DEF InHeader
<1>9. Len(header') = nread + 1
  BY <1>3, <1>8
<1>10. PTypeOK'
  BY <1>1, <1>3, <1>5, <1>6, <1>9 DEF ParserInv, PTypeOK
<1>11. Chunk'
  <2>1. ~pending
    BY <1>1 DEF More
  <2> QED
    BY <1>5, <1>6, <2>1 DEF ParserInv, Chunk
<1>12. Consumed' = Consumed + 1
  BY <1>3, <1>5 DEF Consumed
<1>13. InHeader(i)'
  BY <1>1, <1>3, <1>5, <1>7, <1>8 DEF InHeader
<1>14. InFrame(i)'
  <2>1. Consumed = EndOf(frames)[i - 1] + nread
    BY <1>2 DEF InFrame
  <2>2. Consumed' = EndOf(frames)[i - 1] + (nread + 1)
    <3> DEFINE at == EndOf(frames)[i - 1]
    <3>1. at \in Nat /\ nread \in Nat /\ Consumed' = (at + nread) + 1
      BY <1>3, <1>4, <1>12, <2>1, Zenon
    <3> HIDE DEF at
    <3>2. Consumed' = at + (nread + 1)
      BY <3>1
    <3> QED
      BY <3>2 DEF at
  <2> QED
    BY <1>2, <1>5, <1>6, <1>13, <2>2 DEF InFrame
<1> QED
  BY <1>3, <1>5, <1>6, <1>10, <1>11, <1>14 DEF ParserInv

\* The whole header of a frame.
LEMMA WholeHeader ==
    ASSUME ParserInv, More, nread = HeaderSize
    PROVE  \E i \in 1..Len(frames) : /\ InFrame(i)
                                     /\ InHeader(i)
                                     /\ Decode(header) = frames[i]
<1>1. PICK i \in 1..(Len(frames) + 1) : InFrame(i)
  BY Current
<1>2. i \in 1..Len(frames)
  BY <1>1, NextBytes
<1>3. InHeader(i)
  <2>1. HeaderSize \in Nat
    BY ScgiParserAssumption
  <2> QED
    BY <1>1, <2>1 DEF InFrame, InBody
<1>4. Decode(header) = frames[i]
  <2>1. header = [k \in 1..HeaderSize |-> <<i, "header", k>>]
    BY <1>3 DEF InHeader
  <2> QED
    BY <1>2, <2>1, Decoded DEF ParserInv
<1> QED
  BY <1>1, <1>2, <1>3, <1>4

\* A bad marker is the end.
LEMMA BadHeaderInv == ParserInv /\ BadHeader => ParserInv'
<1> SUFFICES ASSUME ParserInv, BadHeader PROVE ParserInv'
  OBVIOUS
<1>1. /\ closed' = TRUE /\ failed' = TRUE
      /\ UNCHANGED <<frames, sent, buf, pos, pending, ended, delivered>>
      /\ UNCHANGED <<header, nread, msgbuf, size, msgsize, skipmsg>>
  BY DEF BadHeader, Fail
<1>2. Stream' = Stream /\ \A i : Messages(i)' = Messages(i) /\ Passed(i)' = Passed(i)
  BY <1>1, SameFrames
<1>3. PTypeOK' /\ Chunk'
  BY <1>1, <1>2 DEF ParserInv, PTypeOK, Chunk
<1> QED
  BY <1>1, <1>2, <1>3 DEF ParserInv

\* Behind frame i, with nothing of the next one yet.
LEMMA NextFrame ==
    ASSUME frames \in Seq(Frame), NEW i \in 1..Len(frames),
           Passed(i), frames[i].valid, NEW c, NEW d,
           c = EndOf(frames)[i - 1] + (HeaderSize + frames[i].size),
           d = IF i \in Wanted THEN Append(Messages(i - 1), Body(i)) ELSE Messages(i - 1)
    PROVE  /\ i + 1 \in 1..(Len(frames) + 1)
           /\ c = EndOf(frames)[(i + 1) - 1] + 0
           /\ Passed(i + 1)
           /\ d = Messages(i)
           /\ d = Messages((i + 1) - 1)
<1>1. Len(frames) \in Nat /\ (i + 1) - 1 = i /\ i \in Nat
  OBVIOUS
<1>2. d = Messages(i)
  BY NextMessage, Zenon
<1>3. Passed(i + 1)
  BY <1>1 DEF Passed
<1>4. c = EndOf(frames)[i] /\ EndOf(frames)[i] \in Nat
  <2>1. i \in 0..Len(frames)
    BY <1>1
  <2> QED
    BY <2>1, StreamFacts, Zenon
<1>5. c = EndOf(frames)[(i + 1) - 1]
  BY <1>1, <1>4, Zenon
<1>6. c = EndOf(frames)[(i + 1) - 1] + 0
  <2>1. c \in Nat
    BY <1>4, Zenon
  <2> QED
    BY <1>5, <2>1
<1>7. d = Messages((i + 1) - 1)
  BY <1>1, <1>2, Zenon
<1>8. i + 1 \in 1..(Len(frames) + 1)
  BY <1>1
<1> QED
  BY <1>2, <1>3, <1>6, <1>7, <1>8, Zenon

\* An empty message is a frame of its own.
LEMMA EmptyMessageInv == ParserInv /\ EmptyMessage => ParserInv'
<1> SUFFICES ASSUME ParserInv, EmptyMessage PROVE ParserInv'
  OBVIOUS
<1>1. More /\ nread = HeaderSize /\ Decode(header).valid /\ Decode(header).size = 0
  BY DEF EmptyMessage
<1>2. PICK i \in 1..Len(frames) : InFrame(i) /\ InHeader(i) /\ Decode(header) = frames[i]
  BY <1>1, WholeHeader
<1>3. /\ skipmsg' = FALSE /\ msgsize' = 0 /\ msgbuf' = <<>> /\ size' = 0
      /\ header' = <<>> /\ nread' = 0
      /\ UNCHANGED <<frames, sent, buf, pos, pending, ended, closed, failed, delivered>>
  BY DEF EmptyMessage
<1>4. Stream' = Stream /\ \A j : Messages(j)' = Messages(j) /\ Passed(j)' = Passed(j)
  BY <1>3, SameFrames
<1>5. frames \in Seq(Frame) /\ frames[i].size = 0 /\ frames[i].valid
  BY <1>1, <1>2 DEF ParserInv
<1>6. i \notin Wanted
  BY <1>5 DEF Wanted
<1>7. HeaderSize \in Nat
  BY ScgiParserAssumption
<1>8. /\ i + 1 \in 1..(Len(frames) + 1)
      /\ Consumed = EndOf(frames)[(i + 1) - 1] + 0
      /\ Passed(i + 1)
      /\ delivered = Messages((i + 1) - 1)
  <2>1. Consumed = EndOf(frames)[i - 1] + (HeaderSize + frames[i].size)
    BY <1>1, <1>2, <1>5, <1>7 DEF InFrame
  <2>2. delivered = IF i \in Wanted THEN Append(Messages(i - 1), Body(i)) ELSE Messages(i - 1)
    BY <1>2, <1>6 DEF InFrame
  <2> QED
    BY <1>2, <1>5, <2>1, <2>2, NextFrame DEF InFrame
<1>9. Consumed' = Consumed
  BY <1>3 DEF Consumed
<1>10. InHeader(i + 1)'
  BY <1>3, <1>7 DEF InHeader
<1>11. InFrame(i + 1)'
  BY <1>3, <1>4, <1>8, <1>9, <1>10 DEF InFrame
<1>12. PTypeOK'
  <2>1. sent' \in 0..Len(Stream') /\ pos' \in 1..(Len(buf') + 1)
    BY <1>3, <1>4 DEF ParserInv, PTypeOK
  <2>2. /\ Len(header') = 0 /\ Len(msgbuf') = 0 /\ 0 <= HeaderSize /\ 0 <= MaxMsgSize
        /\ 0 \in 0..LargestSize
    BY <1>3, <1>7, ScgiParserAssumption
  <2>3. nread' \in Nat /\ msgsize' \in Nat /\ size' \in 0..LargestSize
    BY <1>3, <2>2
  <2>4. {pending, ended, closed, skipmsg, failed}' \subseteq BOOLEAN
    BY <1>3 DEF ParserInv, PTypeOK
  <2> QED
    BY <2>1, <2>2, <2>3, <2>4 DEF PTypeOK
<1>13. Chunk'
  BY <1>3, <1>4 DEF ParserInv, Chunk
<1> QED
  BY <1>3, <1>4, <1>8, <1>11, <1>12, <1>13 DEF ParserInv

\* The parser is at the body of frame i, n bytes long, of which it has taken m:
\* those it keeps are in old, unless it skips them all.
AtBody(i, n, m, old, skip) ==
    /\ i \in 1..Len(frames)
    /\ frames[i].valid
    /\ n = frames[i].size
    /\ m \in 0..(n - 1)
    /\ nread = HeaderSize + m
    /\ skip \in BOOLEAN
    /\ skip <=> n > MaxMsgSize
    /\ old = IF skip THEN <<>> ELSE Part(i, m)
    /\ InFrame(i)

\* More bytes behind those that were kept.
LEMMA Longer ==
    ASSUME NEW m \in Nat, NEW n \in Nat, NEW i, NEW s \in Seq(Bytes), Len(s) = n,
           \A k \in 1..n : s[k] = <<i, "body", m + k>>
    PROVE  Part(i, m) \o s = Part(i, m + n)
<1> DEFINE a == [k \in 1..m |-> <<i, "body", k>>]
           b == [k \in 1..(m + n) |-> <<i, "body", k>>]
<1>1. Len(a) = m /\ Len(b) = m + n
  OBVIOUS
<1>2. ASSUME NEW k \in 1..(m + n) PROVE (a \o s)[k] = b[k]
  <2>1. CASE k <= m
    BY <2>1
  <2>2. CASE ~(k <= m)
    <3>1. k - m \in 1..n /\ m + (k - m) = k
      BY <2>2
    <3>2. s[k - m] = <<i, "body", k>>
      BY <3>1
    <3> QED
      BY <1>1, <2>2, <3>1, <3>2
  <2> QED
    BY <2>1, <2>2
<1>3. a \o s = [k \in 1..(m + n) |-> (a \o s)[k]]
  BY <1>1
<1>4. a \o s = b
  BY <1>2, <1>3
<1> QED
  BY <1>4 DEF Part

\* However much of a body a chunk holds, it is taken as it is.
LEMMA TakeInv ==
    ASSUME ParserInv, More, NEW i, NEW n, NEW m, NEW old, NEW skip,
           AtBody(i, n, m, old, skip), Take(n, m, old, skip),
           UNCHANGED <<frames, sent, buf, pending, ended>>
    PROVE  ParserInv'
<1> DEFINE needs == Needs(n, m)
           bytes == IF skip THEN old ELSE old \o SubSeq(buf, pos, pos + needs - 1)
           at == EndOf(frames)[i - 1]
<1>1. /\ frames \in Seq(Frame) /\ buf \in Seq(Bytes) /\ Len(buf) \in Nat
      /\ pos \in 1..Len(buf) /\ sent \in Nat /\ ~pending /\ ~failed
      /\ HeaderSize \in Nat \ {0} /\ MaxMsgSize \in Nat
  BY ScgiParserAssumption DEF ParserInv, PTypeOK, More
<1>2. /\ i \in 1..Len(frames) /\ i \in 1..(Len(frames) + 1) /\ i \in Nat
      /\ n \in 1..LargestSize /\ m \in Nat /\ m < n /\ n = frames[i].size
  <2>1. i \in 1..Len(frames) /\ m \in 0..(n - 1) /\ n = frames[i].size
    BY DEF AtBody
  <2>2. frames[i] \in Frame
    BY <1>1, <2>1
  <2>3. n \in 0..LargestSize
    BY <2>1, <2>2 DEF Frame
  <2> QED
    BY <1>1, <2>1, <2>3, ScgiParserAssumption
<1>3. /\ needs \in Nat /\ needs >= 1 /\ needs <= n - m /\ needs <= (Len(buf) - pos) + 1
  BY <1>1, <1>2 DEF Needs
<1>4. /\ InFrame(i) /\ frames[i].valid /\ nread = HeaderSize + m
      /\ skip \in BOOLEAN /\ (skip <=> n > MaxMsgSize)
      /\ old = IF skip THEN <<>> ELSE Part(i, m)
  BY DEF AtBody
<1>5. at \in Nat /\ Consumed = at + (HeaderSize + m) /\ Passed(i) /\ delivered = Messages(i - 1)
  BY <1>2, <1>4, NextBytes DEF InFrame
<1>6. Stream' = Stream /\ \A j : Messages(j)' = Messages(j) /\ Passed(j)' = Passed(j)
  BY SameFrames
<1> HIDE DEF needs, at
<1>7. ~skip => bytes = Part(i, m + needs)
  <2> SUFFICES ASSUME ~skip PROVE bytes = Part(i, m + needs)
    OBVIOUS
  <2> DEFINE s == SubSeq(buf, pos, pos + needs - 1)
  <2>1. s \in Seq(Bytes) /\ Len(s) = needs /\ \A k \in 1..needs : s[k] = buf[(pos + k) - 1]
    BY <1>1, <1>3
  <2>2. ASSUME NEW k \in 1..needs PROVE s[k] = <<i, "body", m + k>>
    <3>1. k \in 1..((Len(buf) - pos) + 1) /\ m + k \in 1..n
      BY <1>1, <1>2, <1>3
    <3>2. buf[(pos + k) - 1] = Stream[EndOf(frames)[i - 1] + (nread + k)]
      BY <1>2, <1>4, <3>1, NextBytes
    <3>3. nread + k = HeaderSize + (m + k)
      BY <1>1, <1>2, <1>4
    <3>4. Stream[EndOf(frames)[i - 1] + (HeaderSize + (m + k))] = <<i, "body", m + k>>
      BY <1>1, <1>2, <3>1, StreamFacts, Zenon
    <3> HIDE DEF s
    <3> QED
      BY <2>1, <3>2, <3>3, <3>4
  <2> HIDE DEF s
  <2>3. Part(i, m) \o s = Part(i, m + needs)
    <3>1. m \in Nat /\ needs \in Nat /\ s \in Seq(Bytes) /\ Len(s) = needs
      BY <1>2, <1>3, <2>1, Zenon
    <3>2. \A k \in 1..needs : s[k] = <<i, "body", m + k>>
      BY <2>2
    <3> QED
      BY <3>1, <3>2, Longer
  <2>4. bytes = old \o s
    BY DEF s
  <2> QED
    BY <1>4, <2>3, <2>4
<1>8. skip => bytes = <<>>
  BY <1>4
<1> HIDE DEF bytes
<1>9. Chunk'
  BY <1>1, <1>6 DEF ParserInv, Chunk
<1>10. /\ size' = n
       /\ UNCHANGED <<frames, sent, buf, pending, ended>>
  BY DEF Take
<1>11. frames' \in Seq(Frame) /\ buf' \in Seq(Bytes)
  BY <1>1
<1>12. ASSUME pos' = pos + needs PROVE Consumed' = at + (HeaderSize + (m + needs))
  <2> DEFINE l == Len(buf)
  <2>1. Consumed' = (sent - l) + ((pos + needs) - 1)
    BY <1>10, <1>12, Zenon DEF Consumed
  <2>2. (sent - l) + (pos - 1) = at + (HeaderSize + m)
    BY <1>5, Zenon DEF Consumed
  <2>3. l \in Nat /\ pos \in Nat /\ sent \in Nat /\ needs \in Nat /\ at \in Nat
        /\ HeaderSize \in Nat /\ m \in Nat
    BY <1>1, <1>2, <1>3, <1>5
  <2> HIDE DEF l
  <2> QED
    BY <2>1, <2>2, <2>3
<1>13. ASSUME pos' = pos + needs PROVE pos' \in 1..(Len(buf') + 1)
  <2> DEFINE l == Len(buf)
  <2>1. l \in Nat /\ pos \in 1..l /\ needs \in Nat /\ needs <= (l - pos) + 1
    BY <1>1, <1>3, Zenon
  <2> HIDE DEF l
  <2>2. pos + needs \in 1..(l + 1)
    BY <2>1
  <2> QED
    BY <1>10, <1>13, <2>2 DEF l
<1>14. /\ sent' \in 0..Len(Stream') /\ size' \in 0..LargestSize /\ Len(header) <= HeaderSize
       /\ pos \in 1..(Len(buf') + 1) /\ nread \in Nat
       /\ {pending', ended', TRUE, FALSE, closed, failed, skip} \subseteq BOOLEAN
  <2>1. sent' \in 0..Len(Stream')
    BY <1>6, <1>10 DEF ParserInv, PTypeOK
  <2>2. size' \in 0..LargestSize
    BY <1>2, <1>10
  <2>3. pos \in 1..(Len(buf') + 1) /\ Len(header) <= HeaderSize /\ nread \in Nat
    BY <1>10 DEF ParserInv, PTypeOK
  <2>4. {pending', ended', TRUE, FALSE, closed, failed, skip} \subseteq BOOLEAN
    BY <1>4, <1>10 DEF ParserInv, PTypeOK
  <2> QED
    BY <2>1, <2>2, <2>3, <2>4
<1>15. CASE /\ m + needs < n
            /\ pos' = pos + needs
            /\ msgsize' = m + needs
            /\ nread' = nread + needs
            /\ msgbuf' = bytes
            /\ skipmsg' = skip
            /\ UNCHANGED <<header, closed, failed, delivered>>
  <2>1. Consumed' = at + (HeaderSize + (m + needs))
    BY <1>15, <1>12
  <2>2. InBody(i)'
    <3>1. i \in 1..Len(frames') /\ frames'[i].valid /\ size' = frames'[i].size
      BY <1>2, <1>4, <1>10
    <3>2. m + needs \in 1..(n - 1)
      <4>1. n \in Nat
        BY <1>2
      <4> QED
        BY <1>2, <1>3, <1>15, <4>1
    <3>3. msgsize' \in 1..(size' - 1)
      BY <1>10, <1>15, <3>2
    <3>4. nread' = HeaderSize + msgsize'
      BY <1>1, <1>2, <1>3, <1>4, <1>15
    <3>5. skipmsg' <=> size' > MaxMsgSize
      BY <1>4, <1>10, <1>15
    <3>6. msgbuf' = IF skipmsg' THEN <<>> ELSE Part(i, msgsize')
      BY <1>7, <1>8, <1>15, Zenon
    <3> QED
      BY <3>1, <3>3, <3>4, <3>5, <3>6 DEF InBody
  <2>3. InFrame(i)'
    <3>1. Consumed' = EndOf(frames')[i - 1] + nread'
      BY <1>1, <1>2, <1>3, <1>4, <1>5, <1>10, <1>15, <2>1 DEF at
    <3> QED
      BY <1>5, <1>6, <1>15, <2>2, <3>1 DEF InFrame
  <2>4. Len(msgbuf') <= MaxMsgSize
    <3>1. CASE skip
      BY <1>1, <1>8, <1>15, <3>1
    <3>2. CASE ~skip
      <4>1. Len(msgbuf') = m + needs
        BY <1>2, <1>3, <1>7, <1>15, <3>2 DEF Part
      <4>2. n \in Nat /\ needs \in Nat /\ m + needs < n /\ ~(n > MaxMsgSize)
        BY <1>2, <1>3, <1>4, <1>15, <3>2
      <4>3. m + needs <= MaxMsgSize
        BY <1>1, <1>2, <4>2
      <4> QED
        BY <4>1, <4>3
    <3> QED
      BY <3>1, <3>2
  <2>5. PTypeOK'
    <3>1. /\ nread' = nread + needs /\ msgsize' = m + needs
          /\ nread \in Nat /\ needs \in Nat /\ m \in Nat
      BY <1>2, <1>3, <1>14, <1>15, Zenon
    <3>2. nread' \in Nat /\ msgsize' \in Nat
      BY <3>1
    <3> QED
      BY <1>15, <1>13, <1>14, <2>4, <3>1 DEF PTypeOK
  <2> QED
    BY <1>2, <1>6, <1>9, <1>10, <1>11, <1>15, <2>3, <2>5 DEF ParserInv
<1>16. ASSUME m + needs = n,
              delivered' = IF skip THEN delivered ELSE Append(delivered, bytes)
       PROVE  delivered' = IF i \in Wanted THEN Append(Messages(i - 1), Body(i))
                                           ELSE Messages(i - 1)
  <2>1. i \in Wanted <=> ~skip
    <3>1. \A j \in 1..i : frames[j].valid
      BY <1>2, <1>4, <1>5 DEF Passed
    <3> QED
      BY <1>1, <1>2, <1>4, <3>1 DEF Wanted
  <2>2. ~skip => bytes = Body(i)
    BY <1>2, <1>7, <1>16 DEF Body, Part
  <2> QED
    BY <1>5, <1>16, <2>1, <2>2
<1>17. CASE /\ m + needs = n
            /\ pos' = pos + needs
            /\ msgsize' = 0
            /\ nread' = 0
            /\ header' = <<>>
            /\ msgbuf' = IF skip THEN old ELSE <<>>
            /\ skipmsg' = FALSE
            /\ delivered' = IF skip THEN delivered ELSE Append(delivered, bytes)
            /\ UNCHANGED <<closed, failed>>
  <2>1. Consumed' = at + (HeaderSize + n)
    BY <1>17, <1>12
  <2>2. /\ i + 1 \in 1..(Len(frames) + 1)
        /\ Consumed' = EndOf(frames)[(i + 1) - 1] + 0
        /\ Passed(i + 1)
        /\ delivered' = Messages(i)
        /\ delivered' = Messages((i + 1) - 1)
    <3>1. Consumed' = EndOf(frames)[i - 1] + (HeaderSize + frames[i].size)
      BY <1>2, <2>1 DEF at
    <3>2. delivered' = IF i \in Wanted THEN Append(Messages(i - 1), Body(i))
                                       ELSE Messages(i - 1)
      BY <1>16, <1>17
    <3> QED
      BY <1>1, <1>2, <1>4, <1>5, <3>1, <3>2, NextFrame
  <2>3. InHeader(i + 1)'
    BY <1>1, <1>4, <1>17 DEF InHeader
  <2>4. InFrame(i + 1)'
    BY <1>6, <1>10, <1>17, <2>2, <2>3 DEF InFrame
  <2>5. PTypeOK'
    <3>1. msgbuf' = <<>> /\ Len(msgbuf') = 0
      BY <1>4, <1>17
    <3>2. Len(msgbuf') <= MaxMsgSize /\ Len(header') <= HeaderSize
      BY <1>1, <1>17, <3>1
    <3> QED
      BY <1>17, <1>13, <1>14, <3>2 DEF PTypeOK
  <2>6. i \in 0..Len(frames')
    BY <1>2, <1>10
  <2> QED
    BY <1>6, <1>9, <1>10, <1>11, <1>17, <2>2, <2>4, <2>5, <2>6 DEF ParserInv
<1>18. CASE /\ m + needs = n
            /\ ~skip
            /\ msgsize' = n
            /\ msgbuf' = <<>>
            /\ skipmsg' = skip
            /\ delivered' = Append(delivered, bytes)
            /\ Fail
            /\ UNCHANGED <<pos, nread, header>>
  <2>1. delivered' = Messages(i)
    <3>1. delivered' = IF i \in Wanted THEN Append(Messages(i - 1), Body(i))
                                       ELSE Messages(i - 1)
      BY <1>16, <1>18
    <3> QED
      BY <1>1, <1>2, <3>1, NextMessage
  <2>2. PTypeOK'
    <3>1. Len(msgbuf') <= MaxMsgSize /\ msgsize' \in Nat
      BY <1>1, <1>2, <1>18
    <3> QED
      BY <1>18, <1>14, <3>1 DEF PTypeOK, Fail
  <2>3. i \in 0..Len(frames')
    BY <1>2, <1>10
  <2> QED
    BY <1>6, <1>9, <1>10, <1>11, <1>18, <2>1, <2>2, <2>3 DEF ParserInv, Fail
<1> QED
  BY <1>15, <1>17, <1>18, Zenon DEF Take, needs, bytes

\* The first bytes of a body.
LEMMA BodyStartInv == ParserInv /\ BodyStart => ParserInv'
<1> SUFFICES ASSUME ParserInv, BodyStart PROVE ParserInv'
  OBVIOUS
<1>1. More /\ nread = HeaderSize /\ UNCHANGED <<frames, sent, buf, pending, ended>>
  BY DEF BodyStart
<1>2. PICK i \in 1..Len(frames) : InFrame(i) /\ InHeader(i) /\ Decode(header) = frames[i]
  BY <1>1, WholeHeader
<1> DEFINE n == frames[i].size
<1>3. /\ frames[i].valid
      /\ n # 0
      /\ IF n > MaxMsgSize THEN Take(n, msgsize, msgbuf, TRUE) ELSE Take(n, 0, <<>>, FALSE)
  BY <1>2 DEF BodyStart
<1>4. n \in Nat /\ n >= 1 /\ HeaderSize \in Nat /\ MaxMsgSize \in Nat
  <2>1. frames[i] \in Frame
    BY DEF ParserInv
  <2> QED
    BY <1>3, <2>1, ScgiParserAssumption DEF Frame
<1>5. CASE n > MaxMsgSize
  <2>1. Take(n, 0, <<>>, TRUE)
    BY <1>2, <1>3, <1>5 DEF InHeader
  <2>2. AtBody(i, n, 0, <<>>, TRUE)
    BY <1>1, <1>2, <1>3, <1>4, <1>5 DEF AtBody
  <2> QED
    BY <1>1, <2>1, <2>2, TakeInv
<1>6. CASE ~(n > MaxMsgSize)
  <2>1. Take(n, 0, <<>>, FALSE)
    BY <1>3, <1>6
  <2>2. AtBody(i, n, 0, <<>>, FALSE)
    BY <1>1, <1>2, <1>3, <1>4, <1>6 DEF AtBody, Part
  <2> QED
    BY <1>1, <2>1, <2>2, TakeInv
<1> QED
  BY <1>5, <1>6

\* More bytes of a body.
LEMMA BodyMoreInv == ParserInv /\ BodyMore => ParserInv'
<1> SUFFICES ASSUME ParserInv, BodyMore PROVE ParserInv'
  OBVIOUS
<1>1. /\ More /\ nread > HeaderSize /\ UNCHANGED <<frames, sent, buf, pending, ended>>
      /\ Take(size, msgsize, msgbuf, skipmsg)
  BY DEF BodyMore
<1>2. PICK i \in 1..(Len(frames) + 1) : InFrame(i)
  BY <1>1, Current
<1>3. InBody(i) /\ nread \in Nat /\ HeaderSize \in Nat /\ size \in Nat /\ skipmsg \in BOOLEAN
  BY <1>1, <1>2, ScgiParserAssumption DEF InFrame, InHeader, ParserInv, PTypeOK
<1>4. AtBody(i, size, msgsize, msgbuf, skipmsg)
  BY <1>2, <1>3 DEF AtBody, InBody
<1> QED
  BY <1>1, <1>4, TakeInv

LEMMA ParserInit == PInit => ParserInv
<1> SUFFICES ASSUME PInit PROVE ParserInv
  OBVIOUS
<1>1. frames \in Seq(Frame)
  BY ScgiParserAssumption DEF PInit, SeqOf
<1>2. /\ EndOf(frames)[0] = 0 /\ Len(Stream) \in Nat /\ Len(frames) \in Nat
  BY <1>1, StreamFacts
<1>3. Messages(0) = <<>>
  <2>1. Wanted \cap 1..0 = {}
    OBVIOUS
  <2>2. Cardinality(Wanted \cap 1..0) = 0
    BY <2>1, FS_EmptySet
  <2> QED
    BY <2>2 DEF Messages
<1>4. PTypeOK
  <2>1. /\ sent = 0 /\ pos = 1 /\ Len(buf) = 0 /\ Len(header) = 0 /\ Len(msgbuf) = 0
        /\ nread = 0 /\ msgsize = 0 /\ size = 0
        /\ pending = TRUE /\ ended = FALSE /\ closed = FALSE /\ skipmsg = FALSE /\ failed = FALSE
    BY DEF PInit
  <2>2. {pending, ended, closed, skipmsg, failed} \subseteq BOOLEAN
    BY <2>1
  <2>3. /\ sent \in 0..Len(Stream) /\ pos \in 1..(Len(buf) + 1) /\ size \in 0..LargestSize
        /\ Len(header) <= HeaderSize /\ Len(msgbuf) <= MaxMsgSize
        /\ nread \in Nat /\ msgsize \in Nat
    BY <1>2, <2>1, ScgiParserAssumption
  <2> QED
    BY <2>2, <2>3 DEF PTypeOK
<1>5. Chunk
  BY DEF PInit, Chunk
<1>6. InFrame(1)
  <2>1. Consumed = 0 + 0
    <3>1. sent = 0 /\ pos = 1 /\ Len(buf) = 0
      BY DEF PInit
    <3> QED
      BY <3>1 DEF Consumed
  <2>2. InHeader(1)
    BY ScgiParserAssumption DEF PInit, InHeader
  <2>3. Passed(1)
    BY DEF Passed
  <2>4. 1 - 1 = 0
    OBVIOUS
  <2> QED
    BY <1>2, <1>3, <2>1, <2>2, <2>3, <2>4 DEF PInit, InFrame
<1>7. 1 \in 1..(Len(frames) + 1) /\ 0 \in 0..Len(frames)
  BY <1>2
<1>8. buf \in Seq(Bytes) /\ delivered = <<>>
  BY DEF PInit
<1> QED
  BY <1>1, <1>3, <1>4, <1>5, <1>6, <1>7, <1>8 DEF ParserInv

LEMMA ParserStep == ParserInv /\ [PNext]_pvars => ParserInv'
<1> SUFFICES ASSUME ParserInv, [PNext]_pvars PROVE ParserInv'
  OBVIOUS
<1>1. CASE ReadComplete
  BY <1>1, ReadCompleteInv
<1>9. CASE ReadFails
  BY <1>9, ReadFailsInv
<1>2. CASE ReadAgain
  BY <1>2, ReadAgainInv
<1>3. CASE HeaderByte
  BY <1>3, HeaderByteInv
<1>4. CASE BadHeader
  BY <1>4, BadHeaderInv
<1>5. CASE EmptyMessage
  BY <1>5, EmptyMessageInv
<1>6. CASE BodyStart
  BY <1>6, BodyStartInv
<1>7. CASE BodyMore
  BY <1>7, BodyMoreInv
<1>8. CASE UNCHANGED pvars
  <2>1. UNCHANGED <<frames, sent, buf, pos, pending, ended, closed, parser, delivered>>
    BY <1>8 DEF pvars
  <2>2. Stream' = Stream /\ \A i : Messages(i)' = Messages(i) /\ Passed(i)' = Passed(i)
    BY <2>1, SameFrames
  <2>3. PTypeOK' /\ Chunk'
    BY <2>1, <2>2 DEF ParserInv, PTypeOK, Chunk, parser
  <2>4. ASSUME NEW i, InFrame(i) PROVE InFrame(i)'
    BY <2>1, <2>2, <2>4 DEF InFrame, Consumed, InHeader, InBody, parser
  <2> QED
    BY <2>1, <2>2, <2>3, <2>4 DEF ParserInv, parser
<1> QED
  BY <1>1, <1>2, <1>3, <1>4, <1>5, <1>6, <1>7, <1>8, <1>9 DEF PNext, Process

\* parser.cpp:40-161.  However TCP cuts the stream, what the dispatcher gets is
\* the messages of the frames up to one of them, whole and in order, and an
\* announced size beyond the limit never makes the buffer grow beyond it.
THEOREM MessagesAreFramesHolds == PSpec => []MessagesAreFrames
<1>1. ParserInv => MessagesAreFrames
  <2> SUFFICES ASSUME ParserInv PROVE MessagesAreFrames
    OBVIOUS
  <2>1. PICK i \in 0..Len(frames) : delivered = Messages(i)
    BY DEF ParserInv
  <2>2. IsPrefix(Messages(i), Expected)
    BY MessagesPrefix DEF ParserInv
  <2> QED
    BY <2>1, <2>2 DEF ParserInv, MessagesAreFrames
<1> QED
  BY <1>1, ParserInit, ParserStep, PTL DEF PSpec
=============================================================================
