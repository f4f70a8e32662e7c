----------------------- MODULE SocketConnectionProofs -----------------------
(***************************************************************************)
(* The safety of the write queue for every set of messages and every       *)
(* transport: the inductive invariant, the properties that follow from it  *)
(* and the refinement of OrderedDelivery.  A whole connection uses its     *)
(* queue as WriteQueue says, so all of this holds of every connection; and *)
(* the callback of a recv() is told the sender of its own datagram, for    *)
(* every number of reads and every set of senders.                         *)
(***************************************************************************)
EXTENDS SocketConnection, SequenceTheorems, WellFoundedInduction, TLAPS

-----------------------------------------------------------------------------
(* The write queue.                                                        *)


\* Appending to the last of two pieces appends to the whole.
LEMMA AppendConcat ==
    \A s, t \in Seq(Msg), m \in Msg : Append(s \o t, m) = s \o Append(t, m)
<1> TAKE s, t \in Seq(Msg), m \in Msg
<1>1. s \o t \in Seq(Msg) /\ Append(t, m) = t \o <<m>>
  BY AppendIsConcat, ConcatProperties
<1>2. Append(s \o t, m) = (s \o t) \o <<m>>
  BY <1>1, AppendIsConcat
<1>3. <<m>> \in Seq(Msg)
  OBVIOUS
<1> QED
  BY <1>1, <1>2, <1>3, ConcatAssociative

\* Moving the first element of the right piece to the end of the left one
\* leaves the whole as it was.
LEMMA MoveHead ==
    ASSUME NEW S, NEW s \in Seq(S), NEW t \in Seq(S), t # <<>>
    PROVE  s \o t = Append(s, Head(t)) \o Tail(t)
<1>1. Head(t) \in S /\ Tail(t) \in Seq(S) /\ t = <<Head(t)>> \o Tail(t)
  BY HeadTailProperties
<1>2. <<Head(t)>> \in Seq(S) /\ Append(s, Head(t)) = s \o <<Head(t)>>
  BY <1>1, AppendIsConcat
<1> QED
  BY <1>1, <1>2, ConcatAssociative

\* The facts about sequences the steps below use, for sequences of messages.
LEMMA MsgSeq ==
    /\ \A s, t \in Seq(Msg) : s \o t \in Seq(Msg)
    /\ \A s, t, u \in Seq(Msg) : (s \o t) \o u = s \o (t \o u)
    /\ \A s, t \in Seq(Msg), m \in Msg : Append(s \o t, m) = s \o Append(t, m)
    /\ \A s, t \in Seq(Msg) : t # <<>> => s \o t = Append(s, Head(t)) \o Tail(t)
<1>1. \A s, t \in Seq(Msg) : s \o t \in Seq(Msg)
  BY ConcatProperties
<1>2. \A s, t, u \in Seq(Msg) : (s \o t) \o u = s \o (t \o u)
  BY ConcatAssociative
<1>3. \A s, t \in Seq(Msg) : t # <<>> => s \o t = Append(s, Head(t)) \o Tail(t)
  BY MoveHead
<1> QED
  BY <1>1, <1>2, <1>3, AppendConcat

-----------------------------------------------------------------------------
(* The inductive invariant.                                                *)

\* After a failure nothing is in flight and the message that failed blocks
\* the queue; on a websocket the queue is empty between two handlers.
Stuck ==
    /\ failed => op = Idle /\ queue # <<>>
    /\ transport = "web" => op = Idle /\ queue = <<>>

\* How far the wire is ahead of, or behind, the completions.
WireLength ==
    IF transport = "web"
    THEN Len(wire) <= Len(completed) /\ (open => Len(wire) = Len(completed))
    ELSE Len(wire) = Len(completed) + (IF op.st = "ok" THEN 1 ELSE 0)

IInv ==
    /\ TypeOK
    /\ BufferAlive
    /\ NoLostWakeup
    /\ Conservation
    /\ Stuck
    /\ WireLength
    /\ WireInOrder

\* The operation record is exactly one of the four forms.
LEMMA OpForms ==
    ASSUME NEW m \in Msg
    PROVE  /\ Idle \in Ops /\ Idle.st = "idle"
           /\ Pending(m) \in Ops /\ Pending(m).st = "pending" /\ Pending(m).msg = m
           /\ Good(m) \in Ops /\ Good(m).st = "ok" /\ Good(m).msg = m
           /\ Bad(m) \in Ops /\ Bad(m).st = "err" /\ Bad(m).msg = m
           /\ Pending(m) # Idle /\ Good(m) # Idle /\ Bad(m) # Idle
           /\ \A o \in Ops : o # Idle => o.msg \in Msg /\ o.st \in {"pending", "ok", "err"}
  BY DEF Ops, Idle, Pending, Good, Bad

\* The initial state satisfies the invariant.
LEMMA InitInv == Init => IInv
<1> SUFFICES ASSUME Init PROVE IInv
  OBVIOUS
<1>1. TypeOK
  BY EmptySeq DEF Init, TypeOK, Ops
<1>2. <<>> = <<>> \o <<>> \o <<>>
  BY ConcatEmptySeq, EmptySeq
<1> QED
  BY <1>1, <1>2 DEF Init, IInv, BufferAlive, NoLostWakeup, Conservation, Stuck,
                    WireLength, WireInOrder, Idle

\* Where the front of the queue sits in the history of posted messages.
LEMMA FrontOfQueue ==
    ASSUME TypeOK, Conservation
    PROVE  /\ Len(posted) = Len(completed) + Len(queue) + Len(strand)
           /\ queue # <<>> => posted[Len(completed) + 1] = Head(queue)
           /\ queue = <<>> /\ strand # <<>> => posted[Len(completed) + 1] = Head(strand)
           /\ \A i \in 1..Len(completed) : posted[i] = completed[i]
<1> DEFINE cq == completed \o queue
<1> USE DEF TypeOK
<1>1. /\ cq \in Seq(Msg)
      /\ Len(cq) = Len(completed) + Len(queue)
      /\ \A i \in 1..Len(completed) + Len(queue) :
            cq[i] = IF i <= Len(completed) THEN completed[i] ELSE queue[i - Len(completed)]
  BY ConcatProperties
<1> HIDE DEF cq
<1>2. /\ Len(posted) = Len(cq) + Len(strand)
      /\ \A i \in 1..Len(cq) + Len(strand) :
            posted[i] = IF i <= Len(cq) THEN cq[i] ELSE strand[i - Len(cq)]
  <2>1. posted = cq \o strand
    BY DEF Conservation, cq
  <2>2. \A c \in Seq(Msg) :
           /\ Len(c \o strand) = Len(c) + Len(strand)
           /\ \A i \in 1..Len(c) + Len(strand) :
                 (c \o strand)[i] = IF i <= Len(c) THEN c[i] ELSE strand[i - Len(c)]
    BY ConcatProperties
  <2> QED
    BY <1>1, <2>1, <2>2, Zenon
<1>3. /\ Len(completed) \in Nat /\ Len(queue) \in Nat /\ Len(strand) \in Nat
      /\ queue # <<>> => Len(queue) > 0 /\ Head(queue) = queue[1]
      /\ strand # <<>> => Len(strand) > 0 /\ Head(strand) = strand[1]
      /\ queue = <<>> => Len(queue) = 0
  OBVIOUS
<1>4. Len(posted) = Len(completed) + Len(queue) + Len(strand)
  BY <1>1, <1>2
<1>5. ASSUME queue # <<>> PROVE posted[Len(completed) + 1] = Head(queue)
  <2> DEFINE i == Len(completed) + 1
  <2>1. /\ i \in 1..Len(completed) + Len(queue) /\ i \in 1..Len(cq) + Len(strand)
        /\ ~(i <= Len(completed)) /\ i <= Len(cq) /\ i - Len(completed) = 1
    BY <1>1, <1>3, <1>5
  <2>2. posted[i] = cq[i] /\ cq[i] = queue[i - Len(completed)]
    BY <1>1, <1>2, <2>1, Zenon
  <2> QED
    BY <1>3, <1>5, <2>1, <2>2
<1>6. ASSUME queue = <<>>, strand # <<>> PROVE posted[Len(completed) + 1] = Head(strand)
  <2> DEFINE i == Len(completed) + 1
  <2>1. i \in 1..Len(cq) + Len(strand) /\ ~(i <= Len(cq)) /\ i - Len(cq) = 1
    BY <1>1, <1>3, <1>6
  <2>2. posted[i] = strand[i - Len(cq)]
    BY <1>2, <2>1, Zenon
  <2> QED
    BY <1>3, <1>6, <2>1, <2>2
<1>7. ASSUME NEW i \in 1..Len(completed) PROVE posted[i] = completed[i]
  <2>1. /\ i \in 1..Len(completed) + Len(queue) /\ i \in 1..Len(cq) + Len(strand)
        /\ i <= Len(completed) /\ i <= Len(cq)
    BY <1>1, <1>3
  <2> QED
    BY <1>1, <1>2, <2>1, Zenon
<1> QED
  BY <1>4, <1>5, <1>6, <1>7

-----------------------------------------------------------------------------
(* Every step preserves the invariant.                                     *)

\* Starting a send on a non-empty queue keeps the parts of the invariant that
\* speak of the operation in flight.
LEMMA SendStarts ==
    ASSUME NEW q, q # <<>>, Head(q) \in Msg, op \in Ops, failed = FALSE,
           Send(Head(q))
    PROVE  /\ op' \in Ops
           /\ failed' \in BOOLEAN
           /\ op'.st # "ok"
           /\ op' # Idle => op'.msg = Head(q)
           /\ failed' <=> op' = Idle
           /\ transport # "web"
<1>1. /\ transport # "web"
      /\ \/ op' = Pending(Head(q)) /\ failed' = FALSE
         \/ op' = Idle /\ failed' = TRUE
  BY DEF Send, SendTcp, SendUdp
<1> QED
  BY <1>1, OpForms

\* A wire in order stays in order when the next message written is sent.
LEMMA WireExtends ==
    ASSUME IInv, NEW m \in Msg, NEW k \in Nat,
           wire' = Append(wire, <<m, k>>), posted' = posted,
           posted[Len(wire) + 1] = m, Len(posted) >= Len(wire) + 1
    PROVE  WireInOrder'
<1>1. /\ wire \in Seq(Msg \X Nat) /\ Len(wire) \in Nat
      /\ <<m, k>> \in Msg \X Nat /\ <<m, k>>[1] = m
      /\ \A i \in 1..Len(wire) : wire[i][1] = posted[i]
  BY LenProperties DEF IInv, TypeOK, WireInOrder
<1>2. /\ Len(wire') = Len(wire) + 1
      /\ \A i \in 1..Len(wire) : wire'[i] = wire[i]
      /\ wire'[Len(wire) + 1] = <<m, k>>
  BY <1>1, AppendProperties
<1>3. \A i \in 1..Len(wire') : wire'[i][1] = posted'[i]
  <2> TAKE i \in 1..Len(wire')
  <2>1. CASE i = Len(wire) + 1
    BY <1>1, <1>2, <2>1
  <2>2. CASE i \in 1..Len(wire)
    BY <1>1, <1>2, <2>2
  <2> QED
    BY <1>1, <1>2, <2>1, <2>2
<1>4. Len(wire') <= Len(posted')
  BY <1>2
<1> QED
  BY <1>3, <1>4 DEF WireInOrder

\* Write(m) posts to the strand.
LEMMA WriteInv == ASSUME IInv, NEW m \in Msg, Write(m) PROVE IInv'
<1> USE DEF IInv, TypeOK, Write
<1>1. TypeOK'
  BY AppendProperties
<1>2. Conservation'
  <2>1. completed \o queue \in Seq(Msg)
    BY ConcatProperties
  <2>2. Append(completed \o queue \o strand, m) = completed \o queue \o Append(strand, m)
    <3>1. strand \in Seq(Msg)
      OBVIOUS
    <3> QED
      BY <2>1, <3>1, MsgSeq, ZenonT(30)
  <2> QED
    BY <2>2 DEF Conservation
<1>3. /\ Len(posted') = Len(posted) + 1
      /\ \A i \in 1..Len(posted) : posted'[i] = posted[i]
  BY AppendProperties
<1>4. WireInOrder'
  BY <1>3, LenProperties DEF WireInOrder
<1> QED
  BY <1>1, <1>2, <1>4 DEF BufferAlive, NoLostWakeup, Stuck, WireLength

\* The lambda of write(msg), tcp and udp.
LEMMA RunWriteInv == ASSUME IInv, RunWrite PROVE IInv'
<1> DEFINE m == Head(strand)
<1>1. /\ m \in Msg /\ strand' \in Seq(Msg)
      /\ queue' \in Seq(Msg) /\ queue' # <<>> /\ Head(queue') \in Msg
      /\ queue # <<>> => Head(queue') = Head(queue) /\ Len(queue') > 1
      /\ queue = <<>> => Len(queue') = 1
  <2>1. /\ strand \in Seq(Msg) /\ queue \in Seq(Msg) /\ strand # <<>>
        /\ strand' = Tail(strand) /\ queue' = Append(queue, m)
    BY DEF RunWrite, IInv, TypeOK
  <2> QED
    BY <2>1
<1>2. Conservation'
  <2>1. queue \o strand = queue' \o strand'
    BY MoveHead DEF RunWrite, IInv, TypeOK
  <2>2. posted = completed \o (queue \o strand)
    <3>1. /\ completed \in Seq(Msg) /\ queue \in Seq(Msg) /\ strand \in Seq(Msg)
          /\ posted = (completed \o queue) \o strand
      BY DEF IInv, TypeOK, Conservation
    <3> QED
      BY <3>1, MsgSeq, Zenon
  <2>3. completed \o (queue' \o strand') = completed \o queue' \o strand'
    <3>1. completed \in Seq(Msg) /\ queue' \in Seq(Msg) /\ strand' \in Seq(Msg)
      BY <1>1 DEF IInv, TypeOK
    <3> QED
      BY <3>1, MsgSeq, Zenon
  <2> QED
    BY <2>1, <2>2, <2>3 DEF RunWrite, Conservation
<1>3. WireInOrder'
  BY DEF IInv, RunWrite, WireInOrder
<1>4. CASE queue # <<>>
  <2>1. UNCHANGED <<op, failed>>
    BY <1>1, <1>4 DEF RunWrite
  <2> QED
    BY <1>1, <1>2, <1>3, <1>4, <2>1
    DEF RunWrite, IInv, TypeOK, BufferAlive, NoLostWakeup, Stuck, WireLength
<1>5. CASE queue = <<>>
  <2>1. op = Idle /\ failed = FALSE
    BY <1>5 DEF IInv, TypeOK, BufferAlive, Stuck
  <2>2. Send(Head(queue'))
    BY <1>1, <1>5 DEF RunWrite
  <2>3. /\ op' \in Ops
        /\ failed' \in BOOLEAN
        /\ op'.st # "ok"
        /\ op' # Idle => op'.msg = Head(queue')
        /\ failed' <=> op' = Idle
    BY <1>1, <2>1, <2>2, SendStarts DEF IInv, TypeOK
  <2>4. op.st # "ok"
    BY <2>1 DEF Idle
  <2>5. TypeOK' /\ BufferAlive' /\ NoLostWakeup' /\ Stuck'
    BY <1>1, <2>3 DEF RunWrite, IInv, TypeOK, BufferAlive, NoLostWakeup, Stuck
  <2>6. WireLength'
    BY <2>3, <2>4 DEF RunWrite, IInv, WireLength
  <2> QED
    BY <1>2, <1>3, <2>5, <2>6 DEF IInv
<1> QED
  BY <1>4, <1>5

\* The lambda of write(msg) on a websocket.
LEMMA RunWriteWebInv == ASSUME IInv, RunWriteWeb PROVE IInv'
<1> DEFINE m == Head(strand)
<1>1. /\ transport = "web" /\ op = Idle /\ queue = <<>>
      /\ UNCHANGED <<posted, queue, op, failed, transport>>
      /\ strand # <<>>
  BY DEF IInv, Stuck, RunWriteWeb
<1>2. /\ m \in Msg /\ strand' \in Seq(Msg)
      /\ completed' \in Seq(Msg) /\ Len(completed') = Len(completed) + 1
  BY <1>1, HeadTailProperties, AppendProperties DEF RunWriteWeb, IInv, TypeOK
<1>3. Conservation'
  <2>1. completed \o queue = completed /\ completed' \o queue' = completed'
    BY <1>1, <1>2, ConcatEmptySeq DEF IInv, TypeOK
  <2>2. completed \o strand = completed' \o strand'
    BY <1>1, MsgSeq DEF RunWriteWeb, IInv, TypeOK
  <2> QED
    BY <1>1, <2>1, <2>2 DEF IInv, Conservation
<1>4. /\ posted[Len(completed) + 1] = m
      /\ Len(posted) >= Len(completed) + 1
  BY <1>1, <1>2, FrontOfQueue DEF IInv, TypeOK
<1>5. \/ /\ open = TRUE
         /\ open' \in BOOLEAN
         /\ \E k \in Nat : wire' = Append(wire, <<m, k>>)
      \/ open = FALSE /\ open' = FALSE /\ wire' = wire
  <2>1. Units[m] \in Nat
    BY <1>2, WriteQueueAssumption
  <2>2. 1..(Units[m] - 1) \subseteq Nat
    BY <2>1
  <2>3. \/ open = TRUE /\ open' = open /\ wire' = Append(wire, <<m, Units[m]>>)
        \/ /\ open = TRUE /\ open' = FALSE
           /\ \E k \in 1..(Units[m] - 1) : wire' = Append(wire, <<m, k>>)
        \/ open = FALSE /\ open' = open /\ wire' = wire
    BY DEF RunWriteWeb, IInv, TypeOK
  <2> QED
    BY <2>1, <2>2, <2>3, Zenon
<1>6. CASE open = FALSE /\ open' = FALSE /\ wire' = wire
  <2>1. TypeOK'
    BY <1>1, <1>2, <1>6 DEF IInv, TypeOK
  <2>2. WireLength'
    BY <1>1, <1>2, <1>6, LenProperties DEF IInv, TypeOK, WireLength
  <2>3. WireInOrder'
    BY <1>1, <1>6 DEF IInv, WireInOrder
  <2> QED
    BY <1>1, <1>3, <2>1, <2>2, <2>3 DEF IInv, BufferAlive, NoLostWakeup, Stuck
<1>7. CASE open = TRUE /\ open' \in BOOLEAN /\ \E k \in Nat : wire' = Append(wire, <<m, k>>)
  <2>1. PICK k \in Nat : wire' = Append(wire, <<m, k>>)
    BY <1>7
  <2>2. /\ wire' \in Seq(Msg \X Nat)
        /\ Len(wire') = Len(wire) + 1
        /\ \A i \in 1..Len(wire) : wire'[i] = wire[i]
        /\ wire'[Len(wire) + 1] = <<m, k>>
        /\ Len(wire) \in Nat
    BY <1>2, <2>1, AppendProperties, LenProperties DEF IInv, TypeOK
  <2>3. Len(wire) = Len(completed)
    BY <1>1, <1>7 DEF IInv, WireLength
  <2>4. TypeOK' /\ WireLength'
    BY <1>1, <1>2, <1>7, <2>2, <2>3 DEF IInv, TypeOK, WireLength
  <2>5. WireInOrder'
    BY <1>1, <1>2, <1>4, <2>1, <2>3, WireExtends
  <2> QED
    BY <1>1, <1>3, <2>4, <2>5 DEF IInv, BufferAlive, NoLostWakeup, Stuck
<1> QED
  BY <1>5, <1>6, <1>7

\* The completion handler without an error.
LEMMA HandleOkInv == ASSUME IInv, HandleOk PROVE IInv'
<1>1. /\ op # Idle /\ op.st = "ok"
      /\ queue # <<>> /\ failed = FALSE /\ transport # "web"
      /\ transport' = transport
  BY DEF HandleOk, Idle, IInv, TypeOK, BufferAlive, Stuck
<1>2. /\ Head(queue) \in Msg /\ queue' \in Seq(Msg)
      /\ completed' \in Seq(Msg) /\ Len(completed') = Len(completed) + 1
  BY <1>1, HeadTailProperties, AppendProperties DEF HandleOk, IInv, TypeOK
<1>3. Conservation'
  BY <1>1, MsgSeq DEF HandleOk, IInv, TypeOK, Conservation
<1>4. WireInOrder'
  BY DEF IInv, HandleOk, WireInOrder
<1>5. /\ op' \in Ops
      /\ failed' \in BOOLEAN
      /\ op'.st # "ok"
      /\ op' # Idle => queue' # <<>> /\ op'.msg = Head(queue')
      /\ queue' # <<>> => (failed' <=> op' = Idle)
      /\ queue' = <<>> => failed' = FALSE
  <2>1. CASE queue' = <<>>
    BY <1>1, <1>2, <2>1, OpForms DEF HandleOk
  <2>2. CASE queue' # <<>>
    <3>1. Send(Head(queue')) /\ Head(queue') \in Msg
      BY <1>2, <2>2, HeadTailProperties DEF HandleOk
    <3> QED
      BY <1>1, <2>2, <3>1, SendStarts DEF IInv, TypeOK
  <2> QED
    BY <2>1, <2>2
<1>6. TypeOK'
  BY <1>2, <1>5 DEF HandleOk, IInv, TypeOK
<1>7. BufferAlive' /\ NoLostWakeup' /\ Stuck'
  BY <1>1, <1>5, <1>6 DEF BufferAlive, NoLostWakeup, Stuck
<1>8. WireLength'
  BY <1>1, <1>2, <1>5, LenProperties DEF HandleOk, IInv, TypeOK, WireLength
<1> QED
  BY <1>3, <1>4, <1>6, <1>7, <1>8 DEF IInv

\* The completion handler with an error.
LEMMA HandleErrorInv == ASSUME IInv, HandleError PROVE IInv'
<1>1. /\ op # Idle /\ queue # <<>> /\ transport # "web" /\ Idle.st = "idle"
      /\ op' = Idle /\ failed' = TRUE /\ op.st = "err"
      /\ UNCHANGED <<posted, strand, queue, wire, completed, open, transport>>
  BY DEF HandleError, Idle, IInv, BufferAlive, Stuck
<1> QED
  BY <1>1 DEF IInv, TypeOK, Ops, BufferAlive, NoLostWakeup, Conservation, Stuck,
              WireLength, WireInOrder

\* A send that succeeds puts the front of the queue on the wire.
LEMMA TransmitOkInv == ASSUME IInv, TransmitOk PROVE IInv'
<1> DEFINE m == op.msg
<1>1. /\ op # Idle /\ m \in Msg /\ op' = Good(m) /\ op.st # "ok"
      /\ queue # <<>> /\ m = Head(queue) /\ failed = FALSE /\ transport # "web"
      /\ UNCHANGED <<posted, strand, queue, completed, failed, open, transport>>
  BY OpForms DEF TransmitOk, Idle, IInv, TypeOK, BufferAlive, Stuck
<1>2. op' \in Ops /\ op' # Idle /\ op'.msg = m /\ op'.st = "ok"
  BY <1>1, OpForms
<1>3. PICK n \in Nat : wire' = Append(wire, <<m, n>>)
  <2>1. Units[m] \in Nat
    BY <1>1, WriteQueueAssumption
  <2> QED
    BY <2>1 DEF TransmitOk, Sent
<1>4. /\ wire' \in Seq(Msg \X Nat)
      /\ Len(wire') = Len(wire) + 1
      /\ \A i \in 1..Len(wire) : wire'[i] = wire[i]
      /\ wire'[Len(wire) + 1] = <<m, n>>
      /\ Len(wire) \in Nat
  BY <1>1, <1>3, AppendProperties, LenProperties DEF IInv, TypeOK
<1>5. Len(wire) = Len(completed)
  BY <1>1, LenProperties DEF IInv, TypeOK, WireLength
<1>6. posted[Len(completed) + 1] = m /\ Len(posted) >= Len(completed) + 1
  BY <1>1, FrontOfQueue DEF IInv, TypeOK
<1>7. WireLength'
  BY <1>1, <1>2, <1>4, <1>5 DEF WireLength
<1>8. WireInOrder'
  BY <1>1, <1>3, <1>5, <1>6, WireExtends
<1>9. TypeOK' /\ BufferAlive' /\ NoLostWakeup' /\ Conservation' /\ Stuck'
  BY <1>1, <1>2, <1>4 DEF IInv, TypeOK, BufferAlive, NoLostWakeup, Conservation, Stuck
<1> QED
  BY <1>7, <1>8, <1>9 DEF IInv

\* A send that fails leaves the wire alone.
LEMMA TransmitErrorInv == ASSUME IInv, TransmitError PROVE IInv'
<1>1. /\ op # Idle /\ op.msg \in Msg /\ op' = Bad(op.msg) /\ op.st # "ok"
      /\ queue # <<>> /\ op.msg = Head(queue) /\ failed = FALSE /\ transport # "web"
      /\ UNCHANGED <<posted, strand, queue, wire, completed, failed, open, transport>>
  BY OpForms DEF TransmitError, Idle, IInv, TypeOK, BufferAlive, Stuck
<1>2. op' \in Ops /\ op' # Idle /\ op'.msg = op.msg /\ op'.st # "ok"
  BY <1>1, OpForms
<1> QED
  BY <1>1, <1>2 DEF IInv, TypeOK, BufferAlive, NoLostWakeup, Conservation, Stuck,
                    WireLength, WireInOrder

\* Every step of the specification preserves the invariant.
LEMMA NextInv == IInv /\ [Next]_vars => IInv'
<1> SUFFICES ASSUME IInv, [Next]_vars PROVE IInv'
  OBVIOUS
<1>1. ASSUME NEW m \in Msg, Write(m) PROVE IInv'
  BY <1>1, WriteInv
<1>2. CASE Close
  BY <1>2 DEF Close, IInv, TypeOK, BufferAlive, NoLostWakeup, Conservation, Stuck,
              WireLength, WireInOrder
<1>3. CASE Strand
  BY <1>3, RunWriteInv, RunWriteWebInv, HandleOkInv, HandleErrorInv DEF Strand
<1>4. CASE TransmitOk
  BY <1>4, TransmitOkInv
<1>5. CASE TransmitError
  BY <1>5, TransmitErrorInv
<1>6. CASE UNCHANGED vars
  BY <1>6 DEF vars, IInv, TypeOK, BufferAlive, NoLostWakeup, Conservation, Stuck,
              WireLength, WireInOrder
<1> QED
  BY <1>1, <1>2, <1>3, <1>4, <1>5, <1>6 DEF Next

\* The invariant holds in every reachable state.
THEOREM Invariance == Spec => []IInv
  BY InitInv, NextInv, PTL DEF Spec

-----------------------------------------------------------------------------
(* What callers rely on.                                                   *)

\* No message written is lost, duplicated or reordered between write() and
\* its completion.
THEOREM ConservationHolds == Spec => []Conservation
<1>1. IInv => Conservation
  BY DEF IInv
<1> QED
  BY <1>1, Invariance, PTL

\* The send in flight reads the buffers of the message at the front of
\* queue_, which keeps them alive.
THEOREM BufferAliveHolds == Spec => []BufferAlive
<1>1. IInv => BufferAlive
  BY DEF IInv
<1> QED
  BY <1>1, Invariance, PTL

\* A backlog never sits in queue_ without a send in flight, until a failure, and
\* the message that failed stays in queue_.
THEOREM NoLostWakeupHolds == Spec => []NoLostWakeup
<1>1. IInv => NoLostWakeup
  BY DEF IInv
<1> QED
  BY <1>1, Invariance, PTL

\* The wire carries the messages in the order of write(), without gaps.
THEOREM WireInOrderHolds == Spec => []WireInOrder
<1>1. IInv => WireInOrder
  BY DEF IInv
<1> QED
  BY <1>1, Invariance, PTL

\* Every variable keeps its type.
THEOREM TypeCorrect == Spec => []TypeOK
<1>1. IInv => TypeOK
  BY DEF IInv
<1> QED
  BY <1>1, Invariance, PTL

\* Once a send has failed the connection sends and completes nothing more.
THEOREM Silence == Spec => SilentAfterFailure
<1>1. IInv /\ [Next]_vars => [failed => wire' = wire /\ completed' = completed]_vars
  <2> SUFFICES ASSUME IInv, Next, failed PROVE wire' = wire /\ completed' = completed
    BY DEF vars
  <2>1. op = Idle /\ Idle.st = "idle" /\ transport # "web"
    BY DEF IInv, Stuck, Idle
  <2> QED
    BY <2>1 DEF Next, Strand, Write, Close, RunWrite, RunWriteWeb, HandleOk,
                HandleError, TransmitOk, TransmitError
<1> QED
  BY <1>1, Invariance, PTL DEF Spec, SilentAfterFailure

\* The write queue implements the promise of OrderedDelivery.
THEOREM Refinement == Spec => ImplementsDelivery
<1>1. Init => Delivery!Init
  BY DEF Init, Delivery!Init
<1>2. IInv /\ [Next]_vars => [Delivery!Next]_<<posted, completed, failed>>
  <2> SUFFICES ASSUME IInv, [Next]_vars
               PROVE  Delivery!Next \/ UNCHANGED <<posted, completed, failed>>
    OBVIOUS
  <2> USE DEF Delivery!Next
  <2>1. ASSUME NEW m \in Msg, Write(m) PROVE Delivery!Next
    BY <2>1 DEF Write, Delivery!Accept
  <2>2. CASE Close \/ TransmitOk \/ TransmitError \/ UNCHANGED vars
    BY <2>2 DEF Close, TransmitOk, TransmitError, vars
  <2>3. CASE RunWrite
    <3>1. \/ failed' = failed
          \/ failed = FALSE /\ failed' = TRUE
      BY <2>3 DEF RunWrite, Send, SendTcp, SendUdp, IInv, TypeOK
    <3> QED
      BY <2>3, <3>1 DEF RunWrite, Delivery!Fail
  <2>4. CASE RunWriteWeb
    <3>1. failed = FALSE /\ failed' = FALSE /\ posted' = posted /\ queue = <<>> /\ strand # <<>>
      BY <2>4 DEF RunWriteWeb, IInv, TypeOK, Stuck
    <3>2. /\ completed' = Append(completed, posted[Len(completed) + 1])
          /\ Len(completed) < Len(posted)
      BY <2>4, <3>1, FrontOfQueue DEF RunWriteWeb, IInv, TypeOK
    <3> QED
      BY <3>1, <3>2 DEF Delivery!Deliver
  <2>5. CASE HandleOk
    <3>1. failed = FALSE /\ queue # <<>> /\ posted' = posted
      BY <2>5 DEF HandleOk, Idle, IInv, TypeOK, BufferAlive, Stuck
    <3>2. failed' \in BOOLEAN
      BY <2>5, HandleOkInv DEF IInv, TypeOK
    <3>3. /\ completed' = Append(completed, posted[Len(completed) + 1])
          /\ Len(completed) < Len(posted)
      BY <2>5, <3>1, FrontOfQueue DEF HandleOk, IInv, TypeOK
    <3> QED
      BY <3>1, <3>2, <3>3 DEF Delivery!Deliver
  <2>6. CASE HandleError
    <3>1. failed = FALSE
      BY <2>6 DEF HandleError, Idle, IInv, TypeOK, Stuck
    <3> QED
      BY <2>6, <3>1 DEF HandleError, Delivery!Fail
  <2> QED
    BY <2>1, <2>2, <2>3, <2>4, <2>5, <2>6 DEF Next, Strand
<1> QED
  BY <1>1, <1>2, Invariance, PTL
  DEF Spec, ImplementsDelivery, Delivery!Spec, Delivery!avars


-----------------------------------------------------------------------------
(* The write queue of a connection.                                        *)

\* Every step of a connection is a step of its write queue, or leaves it alone.
LEMMA QueueStep == [CNext]_cvars => [Next]_vars
BY DEF CNext, cvars, Connect, Read, Drop, OnConnect, OnRead, OnEnd, Connected, Arrive,
       ReadFails, PeerGone, Next

\* The queue of a connection, of which reading, connecting and closing are
\* other parts, behaves as WriteQueue says (tcp, udp and web connection.cpp).
THEOREM ConnectionImplementsQueue == CSpec => Spec
<1>1. CInit => Init
  BY DEF CInit
<1> QED
  BY <1>1, QueueStep, PTL DEF CSpec, Spec

\* So a connection delivers its messages as OrderedDelivery promises, whatever
\* else is done with it.
THEOREM ConnectionDelivers == CSpec => ImplementsDelivery
BY ConnectionImplementsQueue, Refinement, PTL

-----------------------------------------------------------------------------
(* The sender of a datagram.                                               *)

ReadStates == {"free", "pending", "ready", "told", "threw", "replaced", "late"}

ReadCall ==
    [st : ReadStates, kind : {"read", "recv"}, from : Sender \cup {None},
     told : Sender \cup {None}, clobbered : BOOLEAN]

\* The calls of read() and recv(), and what they share.
ReadTypes ==
    /\ reads \in [Reads -> ReadCall]
    /\ remote \in Sender \cup {None}
    /\ onread \in Reads \cup {None}
    /\ connecting \in {"no", "pending", "ready", "told"}

\* Only a recv() of a udp connection whose datagram has arrived has a sender.
\* Until its handler runs the sender is in recvremote_, unless another datagram
\* has overwritten it; afterwards the callback was told it.
Senders ==
    \A r \in Reads : reads[r].from # None =>
        /\ transport # "web"
        /\ reads[r].kind = "recv"
        /\ \/ reads[r].st = "ready" /\ (reads[r].clobbered \/ remote = reads[r].from)
           \/ reads[r].st = "told" /\ (reads[r].clobbered \/ reads[r].told = reads[r].from)

ReadInv == ReadTypes /\ Senders

\* A set of calls that is not empty has a first one.
LEMMA FirstOf ==
    ASSUME NEW S \in SUBSET Reads, S # {}
    PROVE  First(S) \in S
<1>1. S \subseteq Nat
  BY SocketConnectionAssumption DEF Reads
<1>2. PICK x \in S : \A y \in S : ~(<<y, x>> \in OpToRel(<, Nat))
  BY <1>1, WFMin, NatLessThanWellFounded
<1>3. \A y \in S : ~(y < x)
  <2> SUFFICES ASSUME NEW y \in S, y < x PROVE FALSE
    OBVIOUS
  <2>1. <<y, x>> \in Nat \X Nat /\ <<y, x>>[1] = y /\ <<y, x>>[2] = x
    BY <1>1
  <2>2. <<y, x>>[1] < <<y, x>>[2]
    BY <2>1
  <2>3. <<y, x>> \in OpToRel(<, Nat)
    BY <2>1, <2>2, Zenon DEF OpToRel
  <2> QED
    BY <1>2, <2>3
<1>4. \A y \in S : x <= y
  BY <1>1, <1>3
<1> QED
  BY <1>4 DEF First

\* Initially nothing was read.
LEMMA ReadInit == CInit => ReadInv
BY DEF CInit, ReadInv, ReadTypes, Senders, Free, ReadCall, ReadStates

\* A step of a caller, a handler or the kernel keeps the invariant.
LEMMA ReadNext == ReadInv /\ [CNext]_cvars => ReadInv'
<1> SUFFICES ASSUME ReadInv, [CNext]_cvars PROVE ReadInv'
  OBVIOUS
<1> USE DEF ReadInv
<1>0. \A st \in ReadStates : Outstanding(st) # {} =>
        First(Outstanding(st)) \in Reads /\ reads[First(Outstanding(st))].st = st
  BY FirstOf DEF Outstanding
<1>1. UNCHANGED transport
  BY DEF CNext, cvars, vars, Write, Close, Strand, RunWrite, RunWriteWeb, HandleOk,
         HandleError, TransmitOk, TransmitError, Connect, Read, Drop, OnConnect, OnRead,
         OnEnd, Connected, Arrive, ReadFails, PeerGone
<1>2. CASE UNCHANGED <<reads, remote, onread, connecting>>
  BY <1>1, <1>2 DEF ReadTypes, ReadCall, Senders
<1>3. CASE Connect \/ OnConnect \/ Connected
  BY <1>1, <1>3 DEF Connect, OnConnect, Connected, ReadTypes, Senders
<1>4. ASSUME Read PROVE ReadInv'
  <2> DEFINE r == First(Outstanding("free"))
  <2>1. r \in Reads /\ reads[r].st = "free" /\ reads[r].from = None
    BY <1>0, <1>4 DEF Read, ReadStates, Senders
  <2> HIDE DEF r
  <2>2. CASE ReadSocket(r)
    BY <1>1, <1>4, <2>1, <2>2
    DEF Read, ReadSocket, ReadTypes, Senders, ReadCall, ReadStates
  <2>3. CASE ReadWeb(r)
    BY <1>1, <1>4, <2>1, <2>3
    DEF Read, ReadWeb, ReadTypes, Senders, ReadCall, ReadStates
  <2>4. CASE RecvUdp(r)
    BY <1>1, <1>4, <2>1, <2>4
    DEF Read, RecvUdp, ReadTypes, Senders, ReadCall, ReadStates
  <2>5. CASE RecvBase(r)
    BY <1>1, <1>4, <2>1, <2>5
    DEF Read, RecvBase, ReadTypes, Senders, ReadCall, ReadStates
  <2> QED
    BY <1>4, <2>2, <2>3, <2>4, <2>5 DEF Read, r
<1>5. ASSUME NEW r \in Reads, OnRead(r) PROVE ReadInv'
  <2> DEFINE t == IF reads[r].kind = "recv" THEN remote ELSE None
  <2>1. reads' = [reads EXCEPT ![r].st = "told", ![r].told = t]
    BY <1>5 DEF OnRead
  <2>2. t \in Sender \cup {None} /\ (reads[r].kind = "recv" => t = remote)
    BY DEF ReadTypes
  <2>3. UNCHANGED <<remote, onread, connecting>> /\ reads[r].st = "ready"
    BY <1>5 DEF OnRead
  <2> HIDE DEF t
  <2>4. ReadTypes'
    BY <2>1, <2>2, <2>3 DEF ReadTypes, ReadCall, ReadStates
  <2>5. Senders'
    BY <1>1, <2>1, <2>2, <2>3 DEF ReadTypes, ReadCall, Senders
  <2> QED
    BY <2>4, <2>5
<1>6. ASSUME OnEnd PROVE ReadInv'
  BY <1>1, <1>6 DEF OnEnd, ResetHandlers, ReadTypes, Senders, ReadCall, ReadStates
<1>7. ASSUME Arrive PROVE ReadInv'
  <2> DEFINE r == First(Outstanding("pending"))
  <2>1. r \in Reads /\ reads[r].st = "pending" /\ reads[r].from = None
    BY <1>0, <1>7 DEF Arrive, ReadStates, Senders
  <2> HIDE DEF r
  <2>2. UNCHANGED <<onread, connecting>> /\ transport # "web"
    BY <1>7 DEF Arrive
  <2>3. CASE reads[r].kind = "recv"
    <3>1. PICK s \in Sender :
            /\ remote' = s
            /\ reads' = [q \in Reads |->
                 IF q = r THEN [reads[q] EXCEPT !.st = "ready", !.from = s]
                 ELSE IF reads[q].st = "ready" THEN [reads[q] EXCEPT !.clobbered = TRUE]
                 ELSE reads[q]]
      BY <1>7, <2>3 DEF Arrive, r
    <3>2. ReadTypes'
      <4>1. ASSUME NEW q \in Reads PROVE reads'[q] \in ReadCall
        <5>1. [reads[q] EXCEPT !.st = "ready", !.from = s] \in ReadCall
          BY DEF ReadTypes, ReadCall, ReadStates
        <5>2. [reads[q] EXCEPT !.clobbered = TRUE] \in ReadCall
          BY DEF ReadTypes, ReadCall
        <5> QED
          BY <3>1, <5>1, <5>2, Zenon DEF ReadTypes
      <4> QED
        BY <2>2, <3>1, <4>1 DEF ReadTypes
    <3>3. Senders'
      BY <1>1, <2>1, <2>3, <2>2, <3>1 DEF ReadTypes, ReadCall, Senders
    <3> QED
      BY <3>2, <3>3
  <2>4. CASE reads[r].kind # "recv"
    <3>1. reads' = [reads EXCEPT ![r].st = "ready"] /\ UNCHANGED remote
      BY <1>7, <2>4 DEF Arrive, r
    <3>2. ReadTypes'
      BY <2>1, <2>2, <3>1 DEF ReadTypes, ReadCall, ReadStates
    <3>3. Senders'
      BY <1>1, <2>1, <2>2, <3>1 DEF ReadTypes, ReadCall, Senders
    <3> QED
      BY <3>2, <3>3
  <2> QED
    BY <2>3, <2>4
<1>8. ASSUME ReadFails PROVE ReadInv'
  <2> DEFINE r == First(Outstanding("pending"))
  <2>1. r \in Reads /\ reads[r].st = "pending" /\ reads[r].from = None
    BY <1>0, <1>8 DEF ReadFails, ReadStates, Senders
  <2>2. reads' = [reads EXCEPT ![r].st = "ready"]
    BY <1>8 DEF ReadFails
  <2> HIDE DEF r
  <2> QED
    BY <1>1, <1>8, <2>1, <2>2 DEF ReadFails, ReadTypes, Senders, ReadCall, ReadStates
<1> HIDE DEF ReadInv
<1> QED
  BY <1>2, <1>3, <1>4, <1>5, <1>6, <1>7, <1>8 DEF CNext, cvars, side, Drop, PeerGone

\* All recv operations share recvremote_: the callback is told the sender of its
\* own datagram, except when another datagram arrived before its handler ran
\* (udp/connection.cpp:154-177).
THEOREM SenderIsToldHolds == CSpec => []SenderIsTold
<1>1. ReadInv => SenderIsTold
  BY DEF ReadInv, ReadTypes, Senders, SenderIsTold, STypeOK, ReadCall, ReadStates
<1> QED
  BY <1>1, ReadInit, ReadNext, PTL DEF CSpec
=============================================================================
