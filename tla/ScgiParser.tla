------------------------------ MODULE ScgiParser ------------------------------
(***************************************************************************)
(* scgi::Parser: cutting the byte stream of one connection into messages.  *)
(*                                                                         *)
(* The peer sends frames: a header of HeaderSize bytes and a body of size  *)
(* bytes.  The bytes arrive in chunks of any length, one chunk for each    *)
(* read; process() is a loop over the bytes of a chunk, and one iteration  *)
(* of the loop is one action.  A byte is <<frame, part, offset>>: the      *)
(* parser can tell nothing from it but what Decode says of a whole header. *)
(***************************************************************************)
EXTENDS Naturals, Sequences, SequencesExt, FiniteSets

CONSTANTS
    HeaderSize,    \* sizeof(Header), 8 in the code
    MaxMsgSize,    \* Header::kMAX_MSG_SIZE
    MaxFrames,     \* bound: frames sent by the peer
    LargestSize,   \* bound: the largest size a header announces
    ChunkSize      \* the size of rdbuf_

ASSUME ScgiParserAssumption ==
    /\ HeaderSize \in Nat \ {0}
    /\ MaxMsgSize \in Nat \ {0}
    /\ ChunkSize \in Nat \ {0}
    /\ MaxFrames \in Nat
    /\ LargestSize \in Nat

VARIABLES
    frames,      \* what the peer sends: the decoded headers, in order
    sent,        \* bytes of the stream that have been read from the socket
    buf,         \* the bytes process() was called with
    pos,         \* i, counted from 1: the next byte of buf
    pending,     \* a read is outstanding
    ended,       \* a read has failed: the read loop is over
    closed,      \* the connection was closed by the parser
    header,      \* header_, the bytes stored so far
    nread,       \* nread_
    msgbuf,      \* msgbuf_, the bytes copied so far
    size,        \* header_.size, as far as the header was decoded
    msgsize,     \* msgsize_
    skipmsg,     \* skipmsg_
    failed,      \* failed_
    delivered    \* the messages given to Dispatcher::onMessage

parser == <<header, nread, msgbuf, size, msgsize, skipmsg, failed>>
pvars == <<frames, sent, buf, pos, pending, ended, closed, parser, delivered>>

-----------------------------------------------------------------------------
(* The stream.                                                             *)

\* A header with or without the marker, and the size it announces.
Frame == [valid : BOOLEAN, size : 0..LargestSize]

HeaderBytes(i) == [k \in 1..HeaderSize |-> <<i, "header", k>>]
Body(i) == [k \in 1..frames[i].size |-> <<i, "body", k>>]
Stream == FlattenSeq([i \in 1..Len(frames) |-> HeaderBytes(i) \o Body(i)])

\* What the bytes of a header say; bytes that are no header carry no marker.
Decode(h) ==
    IF \E i \in 1..Len(frames) : h = HeaderBytes(i)
    THEN frames[CHOOSE i \in 1..Len(frames) : h = HeaderBytes(i)]
    ELSE [valid |-> FALSE, size |-> 0]

PInit ==
    /\ frames \in SeqOf(Frame, MaxFrames)
    /\ sent = 0
    /\ buf = <<>>
    /\ pos = 1
    /\ pending = TRUE
    /\ ended = FALSE
    /\ closed = FALSE
    /\ header = <<>>
    /\ nread = 0
    /\ msgbuf = <<>>
    /\ size = 0
    /\ msgsize = 0
    /\ skipmsg = FALSE
    /\ failed = FALSE
    /\ delivered = <<>>

-----------------------------------------------------------------------------
(* Parser::read.                                                           *)

\* The read completes with n bytes and the handler calls process().
ReadComplete ==
    /\ pending
    /\ ~failed
    /\ \E n \in 1..ChunkSize :
          /\ sent + n <= Len(Stream)
          /\ buf' = SubSeq(Stream, sent + 1, sent + n)
          /\ sent' = sent + n
    /\ pos' = 1
    /\ pending' = FALSE
    /\ UNCHANGED <<frames, ended, closed, parser, delivered>>

\* The read fails: the peer is gone, however much it has sent, or the socket was
\* closed here, by the shutdown of the pool.  The handler does not read again.
ReadFails ==
    /\ pending
    /\ pending' = FALSE
    /\ ended' = TRUE
    /\ UNCHANGED <<frames, sent, buf, pos, closed, parser, delivered>>

\* Seeded fault: no read after a chunk that ends inside a header.
BugReadAgainNotInHeader ==
    /\ ~pending /\ ~ended
    /\ ~failed
    /\ pos > Len(buf)
    /\ nread = 0 \/ nread > HeaderSize
    /\ pending' = TRUE
    /\ UNCHANGED <<frames, sent, buf, pos, ended, closed, parser, delivered>>

\* process() has returned true: read the next chunk.
ReadAgain ==
    /\ ~pending /\ ~ended
    /\ ~failed
    /\ pos > Len(buf)
    /\ pending' = TRUE
    /\ UNCHANGED <<frames, sent, buf, pos, ended, closed, parser, delivered>>

-----------------------------------------------------------------------------
(* The iterations of process().                                            *)

More == ~pending /\ ~failed /\ pos <= Len(buf)

\* Store one more byte of the header.
HeaderByte ==
    /\ More
    /\ nread < HeaderSize
    /\ header' = Append(header, buf[pos])
    /\ nread' = nread + 1
    /\ pos' = pos + 1
    /\ UNCHANGED <<frames, sent, buf, pending, ended, closed, delivered>>
    /\ UNCHANGED <<msgbuf, size, msgsize, skipmsg, failed>>

\* Close the connection and fail for good.
Fail ==
    /\ closed' = TRUE
    /\ failed' = TRUE

\* The header has the wrong marker.
BadHeader ==
    /\ More
    /\ nread = HeaderSize
    /\ ~Decode(header).valid
    /\ Fail
    /\ UNCHANGED <<frames, sent, buf, pos, pending, ended, delivered>>
    /\ UNCHANGED <<header, nread, msgbuf, size, msgsize, skipmsg>>

\* The header announces an empty message: start over without taking a byte.
EmptyMessage ==
    /\ More
    /\ nread = HeaderSize
    /\ Decode(header).valid
    /\ Decode(header).size = 0
    /\ skipmsg' = FALSE
    /\ msgsize' = 0
    /\ msgbuf' = <<>>
    /\ size' = 0
    /\ header' = <<>>
    /\ nread' = 0
    /\ UNCHANGED <<frames, sent, buf, pos, pending, ended, closed, failed, delivered>>

\* The bytes of buf that belong to the body of n bytes, m of which are there.
Needs(n, m) == IF n - m > Len(buf) - pos + 1 THEN Len(buf) - pos + 1 ELSE n - m

\* The rest of an iteration, for a body of n bytes of which m were taken
\* before, skip telling whether it is thrown away: more of the body is to
\* come; or it is complete; or it is complete and onMessage refused it (or
\* threw), so that the connection is closed.
Take(n, m, old, skip) ==
    LET needs == Needs(n, m)
        bytes == IF skip THEN old ELSE old \o SubSeq(buf, pos, pos + needs - 1)
    IN  /\ size' = n
        /\ \/ /\ m + needs < n
              /\ pos' = pos + needs
              /\ msgsize' = m + needs
              /\ nread' = nread + needs
              /\ msgbuf' = bytes
              /\ skipmsg' = skip
              /\ UNCHANGED <<header, closed, failed, delivered>>
           \/ /\ m + needs = n
              /\ pos' = pos + needs
              /\ msgsize' = 0
              /\ nread' = 0
              /\ header' = <<>>
              /\ msgbuf' = IF skip THEN old ELSE <<>>
              /\ skipmsg' = FALSE
              /\ delivered' = IF skip THEN delivered ELSE Append(delivered, bytes)
              /\ UNCHANGED <<closed, failed>>
           \/ /\ m + needs = n
              /\ ~skip
              /\ msgsize' = n
              /\ msgbuf' = <<>>
              /\ skipmsg' = skip
              /\ delivered' = Append(delivered, bytes)
              /\ Fail
              /\ UNCHANGED <<pos, nread, header>>

\* The first bytes of a body, right after the header.
BodyStart ==
    /\ More
    /\ nread = HeaderSize
    /\ LET h == Decode(header)
       IN  /\ h.valid
           /\ h.size # 0
           /\ IF h.size > MaxMsgSize
              THEN Take(h.size, msgsize, msgbuf, TRUE)
              ELSE Take(h.size, 0, <<>>, FALSE)
    /\ UNCHANGED <<frames, sent, buf, pending, ended>>

\* Seeded fault: the bytes of earlier chunks are lost.
BugBodyMoreRestarts ==
    /\ More
    /\ nread > HeaderSize
    /\ Take(size, msgsize, <<>>, skipmsg)
    /\ UNCHANGED <<frames, sent, buf, pending, ended>>

\* More bytes of a body.
BodyMore ==
    /\ More
    /\ nread > HeaderSize
    /\ Take(size, msgsize, msgbuf, skipmsg)
    /\ UNCHANGED <<frames, sent, buf, pending, ended>>

Process == HeaderByte \/ BadHeader \/ EmptyMessage \/ BodyStart \/ BodyMore

PNext == ReadComplete \/ ReadFails \/ ReadAgain \/ Process

PSpec == PInit /\ [][PNext]_pvars

\* A handler that runs goes on to its end.  Nothing makes the peer send.
FairPSpec == PSpec /\ WF_pvars(ReadAgain) /\ WF_pvars(Process)

-----------------------------------------------------------------------------
(* Properties.                                                             *)

\* Among the types: an announced size beyond the limit never makes msgbuf_ grow
\* beyond it (parser.cpp:75-90).
PTypeOK ==
    /\ sent \in 0..Len(Stream)
    /\ pos \in 1..(Len(buf) + 1)
    /\ Len(header) <= HeaderSize
    /\ nread \in Nat /\ msgsize \in Nat /\ size \in 0..LargestSize
    /\ {pending, ended, closed, skipmsg, failed} \subseteq BOOLEAN
    /\ Len(msgbuf) <= MaxMsgSize

\* The frames whose messages are wanted: not empty, not too large, and no bad
\* marker before them.
Wanted ==
    {i \in 1..Len(frames) : /\ frames[i].size \in 1..MaxMsgSize
                            /\ \A j \in 1..i : frames[j].valid}

\* The k-th smallest number of S.
Nth(S, k) == CHOOSE i \in S : Cardinality(S \cap 1..i) = k

\* The messages those frames carry, in order.
Expected == [k \in 1..Cardinality(Wanted) |-> Body(Nth(Wanted, k))]

\* parser.cpp:40-161.  However the stream is cut into chunks, what is given
\* to the dispatcher is the bodies of the frames, whole and in order.
MessagesAreFrames == PTypeOK /\ IsPrefix(delivered, Expected)

\* The dispatcher refused a message (a bad marker leaves msgsize_ at 0).
Refused == failed /\ msgsize # 0

\* The frames of which every byte has been read.
Arrived == {i \in 1..Len(frames) :
                Len(FlattenSeq([j \in 1..i |-> HeaderBytes(j) \o Body(j)])) <= sent}

\* parser.cpp:24-38,49-160.  A message that has been read to its last byte
\* reaches the dispatcher, unless one was refused; and the parser comes back to
\* reading, at whatever byte a chunk was cut, until a read or a message fails.
EventuallyDelivered ==
    /\ \A i \in 1..MaxFrames :
         i \in Arrived \cap Wanted ~> Len(delivered) >= Cardinality(Wanted \cap 1..i) \/ Refused
    /\ []<>(pending \/ ended \/ failed)
=============================================================================
