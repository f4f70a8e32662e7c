----------------------------- MODULE WriteQueue -----------------------------
(***************************************************************************)
(* The outgoing half of a connection: BaseConnection::write and the send() *)
(* of its three subclasses (tcp, udp and websocket connections).           *)
(*                                                                         *)
(* write(msg) may be called from any thread: it posts a lambda to the      *)
(* connection's strand.  The strand runs the lambdas one at a time in the  *)
(* order they were posted; the completion handler of a send is wrapped in  *)
(* the same strand.  So every action below that touches queue_ is atomic.  *)
(***************************************************************************)
EXTENDS Naturals, Sequences, Functions

CONSTANTS
    Msg,         \* the messages callers may write, each at most once
    Units,       \* Units[m]: what m takes on the wire (bytes; for websockets, buffers)
    HasDest      \* the messages given a destination() by writeto()

ASSUME WriteQueueAssumption ==
    /\ Units \in [Msg -> Nat \ {0}]
    /\ HasDest \subseteq Msg

Transport == {"tcp", "udp", "web"}

VARIABLES
    transport,   \* which subclass implements send(); never changes
    posted,      \* history: every message, in the order of strand_.post()
    strand,      \* posted lambdas that have not run yet
    queue,       \* queue_
    op,          \* the outstanding asynchronous send, see Ops
    wire,        \* what left the socket: <<message, units sent>>
    completed,   \* history: messages popped from queue_ after a good send
    failed,      \* a send has failed (onWriteError ran, or send() threw)
    open         \* the socket has not been closed

vars == <<transport, posted, strand, queue, op, wire, completed, failed, open>>

Idle == [st |-> "idle"]

Pending(m) == [st |-> "pending", msg |-> m]
Good(m) == [st |-> "ok", msg |-> m]
Bad(m) == [st |-> "err", msg |-> m]

Ops == {Idle} \cup [st : {"pending", "ok", "err"}, msg : Msg]

Init ==
    /\ transport \in Transport
    /\ posted = <<>>
    /\ strand = <<>>
    /\ queue = <<>>
    /\ op = Idle
    /\ wire = <<>>
    /\ completed = <<>>
    /\ failed = FALSE
    /\ open = TRUE

-----------------------------------------------------------------------------
(* Callers.                                                                *)

\* BaseConnection::write(msg): post the lambda to the strand.
Write(m) ==
    /\ m \notin Range(posted)
    /\ posted' = Append(posted, m)
    /\ strand' = Append(strand, m)
    /\ UNCHANGED <<queue, op, wire, completed, failed, open, transport>>

\* close() of any subclass.  The kernel side of it shows in Transmit.
Close ==
    /\ open
    /\ open' = FALSE
    /\ UNCHANGED <<posted, strand, queue, op, wire, completed, failed, transport>>

-----------------------------------------------------------------------------
(* The strand.                                                             *)

\* Message::port_ has no initializer: a message without a destination holds an
\* arbitrary port, of which only 0 selects async_send on the connected socket.
\* With any other, as with a destination, the address is parsed, and
\* ip::address::from_string throws on "" and on what is no address.
Dest(m) == IF m \in HasDest THEN {"address", "no address"} ELSE {"none", "no address"}

\* send() of a tcp connection: start the asynchronous operation.
SendTcp(m) ==
    /\ op' = Pending(m)
    /\ UNCHANGED failed

\* send() of a udp connection: start the operation, or throw (the exception
\* leaves the strand's handler; queue_ keeps m).
SendUdp(m) ==
    \E dest \in Dest(m) : IF dest = "no address"
                          THEN op' = Idle /\ failed' = TRUE
                          ELSE op' = Pending(m) /\ UNCHANGED failed

Send(m) ==
    \/ transport = "tcp" /\ SendTcp(m)
    \/ transport = "udp" /\ SendUdp(m)

\* Seeded fault: send the new message at once, whatever is in flight.
BugRunWriteNoBacklog ==
    /\ transport # "web"
    /\ strand # <<>>
    /\ strand' = Tail(strand)
    /\ queue' = Append(queue, Head(strand))
    /\ Send(Head(strand))
    /\ UNCHANGED <<posted, wire, completed, open, transport>>

\* The lambda of write(msg), tcp and udp.
RunWrite ==
    /\ transport # "web"
    /\ strand # <<>>
    /\ strand' = Tail(strand)
    /\ queue' = Append(queue, Head(strand))
    /\ IF Len(queue') > 1
       THEN UNCHANGED <<op, failed>>
       ELSE Send(Head(queue'))
    /\ UNCHANGED <<posted, wire, completed, open, transport>>

\* The lambda of write(msg) on a websocket.  send() hands the buffers to
\* websocketpp one by one and ignores the error code that says the connection
\* is no longer open; then it calls the wrapped handler, which runs at once
\* because the caller is already in the strand.  So the message is popped
\* again before the lambda returns, whether or not all of it went out.
RunWriteWeb ==
    /\ transport = "web"
    /\ strand # <<>>
    /\ strand' = Tail(strand)
    /\ LET m == Head(strand)
       IN /\ \/ /\ open
                /\ wire' = Append(wire, <<m, Units[m]>>)
                /\ UNCHANGED open
             \/ /\ open               \* the peer goes away between two buffers
                /\ \E k \in 1..(Units[m] - 1) : wire' = Append(wire, <<m, k>>)
                /\ open' = FALSE
             \/ /\ ~open
                /\ UNCHANGED <<wire, open>>
          /\ completed' = Append(completed, m)
    /\ UNCHANGED <<posted, queue, op, failed, transport>>

\* Seeded fault: the handler pops the message and forgets the backlog.
BugHandleOkForgets ==
    /\ op.st = "ok"
    /\ queue' = Tail(queue)
    /\ completed' = Append(completed, Head(queue))
    /\ op' = Idle
    /\ UNCHANGED <<posted, strand, wire, failed, open, transport>>

\* The completion handler without an error.
HandleOk ==
    /\ op.st = "ok"
    /\ queue' = Tail(queue)
    /\ completed' = Append(completed, Head(queue))
    /\ IF queue' = <<>>
       THEN op' = Idle /\ UNCHANGED failed
       ELSE Send(Head(queue'))
    /\ UNCHANGED <<posted, strand, wire, open, transport>>

\* Seeded fault: the message that failed is dropped.
BugHandleErrorDrops ==
    /\ op.st = "err"
    /\ op' = Idle
    /\ failed' = TRUE
    /\ queue' = Tail(queue)
    /\ UNCHANGED <<posted, strand, wire, completed, open, transport>>

\* Seeded fault: after an error the same message is sent again.
BugHandleErrorRetries ==
    /\ op.st = "err"
    /\ op' = Pending(Head(queue))
    /\ failed' = TRUE
    /\ UNCHANGED <<posted, strand, queue, wire, completed, open, transport>>

\* The completion handler with an error: onWriteError only logs, so the
\* message stays at the front of queue_ and nothing starts another send.
HandleError ==
    /\ op.st = "err"
    /\ op' = Idle
    /\ failed' = TRUE
    /\ UNCHANGED <<posted, strand, queue, wire, completed, open, transport>>

-----------------------------------------------------------------------------
(* The operating system (external).                                        *)

\* How much of m an operation that succeeds has sent: async_send on a TCP
\* socket may send a part of the buffers, a datagram goes out whole.
Sent(m) == IF transport = "tcp" THEN 1..Units[m] ELSE {Units[m]}

TransmitOk ==
    /\ op.st = "pending"
    /\ open
    /\ \E n \in Sent(op.msg) : wire' = Append(wire, <<op.msg, n>>)
    /\ op' = Good(op.msg)
    /\ UNCHANGED <<posted, strand, queue, completed, failed, open, transport>>

TransmitError ==
    /\ op.st = "pending"
    /\ op' = Bad(op.msg)
    /\ UNCHANGED <<posted, strand, queue, wire, completed, failed, open, transport>>

-----------------------------------------------------------------------------
Strand == RunWrite \/ RunWriteWeb \/ HandleOk \/ HandleError

Next ==
    \/ \E m \in Msg : Write(m)
    \/ Close
    \/ Strand
    \/ TransmitOk
    \/ TransmitError

Spec == Init /\ [][Next]_vars

-----------------------------------------------------------------------------
(* Properties.                                                             *)

TypeOK ==
    /\ transport \in Transport
    /\ posted \in Seq(Msg)
    /\ strand \in Seq(Msg)
    /\ queue \in Seq(Msg)
    /\ op \in Ops
    /\ wire \in Seq(Msg \X Nat)
    /\ completed \in Seq(Msg)
    /\ failed \in BOOLEAN
    /\ open \in BOOLEAN

\* connection.cpp:44-81.  The buffers of an outstanding send belong to the
\* message at the front of queue_: it is not popped, replaced or overtaken
\* while the operation that reads it is in flight.
BufferAlive == op # Idle => queue # <<>> /\ op.msg = Head(queue)

\* connection.cpp:52-72.  No message waits in queue_ with nobody to send it: a
\* backlog always has a send in flight, until a send has failed; and a send that
\* failed or threw leaves its message there.
NoLostWakeup ==
    /\ TypeOK
    /\ queue # <<>> /\ ~failed => op # Idle
    /\ failed => queue # <<>>

\* connection.cpp:44-72.  No message is lost, duplicated or reordered on its
\* way from write() through the strand and queue_ to its completion.
Conservation == posted = completed \o queue \o strand

\* connection.cpp:74-77.  A failed send is the last thing this connection
\* sends: later messages pile up in queue_, but none goes out after the gap.
SilentAfterFailure == [][failed => wire' = wire /\ completed' = completed]_vars

\* connection.cpp:44-81.  On the wire there is no gap, no repetition and no
\* reordering: the i-th thing sent is (a part of) the i-th message written.
WireInOrder ==
    /\ Len(wire) <= Len(posted)
    /\ \A i \in 1..Len(wire) : wire[i][1] = posted[i]

\* A send waits for a peer that does not read.  There is no timeout.
PeerStalls == transport = "tcp" /\ open /\ op.st = "pending"

\* connection.cpp:44-81.  Unless a send waits for its peer for ever, every
\* message that was written is completed, or the connection fails.
Drains ==
    \A m \in Msg :
        []<>~PeerStalls => (m \in Range(posted) ~> m \in Range(completed) \/ failed)

\* The promise made to callers (OrderedDelivery) is kept.
Delivery == INSTANCE OrderedDelivery
                WITH accepted <- posted, delivered <- completed, dead <- failed

ImplementsDelivery == Delivery!Spec
=============================================================================
