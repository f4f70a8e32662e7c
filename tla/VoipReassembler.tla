--------------------------- MODULE VoipReassembler ---------------------------
(***************************************************************************)
(* VoIP::Reassembler puts blocks of captured packets together from the     *)
(* segments of a TCP stream, as TCPReassembler hands them out.             *)
(*                                                                         *)
(* A byte of the stream is a pair <<b, i>>: the i-th cell of the b-th      *)
(* block.  A block has HdrSize cells of header (the first is the title),   *)
(* a cell for each offset and then its data.  Offsets and sizes count      *)
(* cells.  Reading a header that is not all there reads past the end of    *)
(* the segment: what comes out of that is left open.                       *)
(***************************************************************************)
EXTENDS PacketParsers

CONSTANTS
    Streams,      \* sequences of blocks a probe may send
    MaxSegment,   \* cells a captured packet completes
    MaxHeld       \* of which a piece that had waited has so many

HdrSize == 2      \* sizeof(pcap_block_store_header), in cells
PlusSize == 1     \* sizeof(pcap_pkthdr_plus), in cells

\* A block: count, size and size_compress of its header, the offsets, whether
\* the compressed data is intact, and per offset the record found there.
DataSize(b) == IF b.zip > 0 THEN b.zip ELSE b.size
BlockSize(b) == HdrSize + b.count + DataSize(b)

ASSUME VoipAssumption ==
    /\ MaxSegment \in Nat \ {0} /\ MaxHeld \in Nat
    /\ \A s \in Streams :
         /\ s \in Seq(Range(s))
         /\ \A b \in Range(s) : /\ {b.count, b.size, b.zip} \subseteq Nat
                                /\ b.count = Len(b.offsets) /\ b.count = Len(b.items)

VARIABLES
    stream,     \* the blocks, in the order the probe sends them
    sent,       \* how many cells of the stream have arrived
    rstate,     \* state_
    buffer,     \* buffer_
    dataSize,   \* dataSize_
    out,        \* the packets parsed so far, in order
    excuse      \* history: what may have cost a packet

rvars == <<stream, sent, rstate, buffer, dataSize, out, excuse>>

\* All cells of the stream.
Cells ==
    FlattenSeq([b \in DOMAIN stream |-> [i \in 1..BlockSize(stream[b]) |-> <<b, i>>]])

ReassemblerInit ==
    /\ sent = 0
    /\ rstate = "WAIT_HEADER"
    /\ buffer = <<>>
    /\ dataSize = 0
    /\ excuse = {}

-----------------------------------------------------------------------------
(* The packets of a complete block.                                        *)

PacketSize(b, i) ==
    (IF i = b.count THEN b.size ELSE b.offsets[i + 1]) - b.offsets[i]

\* Reassembler::payload: the record's header gives the captured length and
\* where the IP header is; Smart finds the payload behind it.
RecordPayload(r, size) ==
    IF /\ PlusSize < size
       /\ r.caplen < size
       /\ r.ipOffset < size
       /\ size - r.caplen + r.ipOffset < size
    THEN PacketsFrom(SmartPayload(r.ip), r.ip)
    ELSE <<>>

\* Reassembler::packets
BlockPackets(k) ==
    LET b == stream[k]
        Found(i) == IF b.offsets[i] + PacketSize(b, i) <= b.size
                    THEN RecordPayload(b.items[i], PacketSize(b, i)) ELSE <<>>
    IN  FlattenSeq([i \in 1..b.count |-> [j \in DOMAIN Found(i) |-> <<k, i>>]])

\* The tests of the header, of the offsets and of the uncompressed data.
HeaderOK(b) == b.count > 0 /\ DataSize(b) > 0 /\ b.zip <= b.size

OffsetsOK(b) ==
    /\ \A i \in 1..b.count-1 : b.offsets[i] <= b.offsets[i + 1]
    /\ b.offsets[b.count] < b.size

Decompresses(b) == DataSize(b) < b.size => b.intact

-----------------------------------------------------------------------------
(* Reassembler::parse, as the set of its outcomes: the exception, or the   *)
(* new state, buffer_ and dataSize_ with the packets found.                *)

Throw == [threw |-> TRUE, st |-> "", buf |-> <<>>, need |-> 0, pk |-> <<>>]
Result(st, buf, need, pk) ==
    [threw |-> FALSE, st |-> st, buf |-> buf, need |-> need, pk |-> pk]

Junk == <<0, 0>>    \* a packet nobody sent

\* The header lies in c as it was sent.
HeaderRead(c) == Len(c) >= HdrSize /\ c[2] = <<c[1][1], 2>>

\* The block lies in c as it was sent.
Intact(c, k) ==
    \A i \in 1..BlockSize(stream[k]) : c[i] = <<k, i>>

\* Parse c from its beginning.  A header that is cut off, or an overwritten
\* block, may pass the tests: a body of any size, packets that were not sent.
ParseHeader(c, buf, need) ==
    IF c = <<>> \/ c[1][2] # 1 THEN {Throw}
    ELSE IF ~HeaderRead(c)
    THEN {Throw} \cup {Result("READ_BODY", buf \o c, n, <<>>) :
                          n \in HdrSize + 2 .. HdrSize + 3}
    ELSE LET k == c[1][1]
             b == stream[k]
         IN  IF ~HeaderOK(b) THEN {Throw}
             ELSE IF BlockSize(b) > Len(c)
             THEN {Result("READ_BODY", buf \o c, BlockSize(b), <<>>)}
             ELSE IF ~Intact(c, k)
             THEN {Throw, Result("READ_HEADER", buf, need, <<Junk>>)}
             ELSE IF ~OffsetsOK(b) \/ ~Decompresses(b) THEN {Throw}
             ELSE {Result("READ_HEADER", buf, need, BlockPackets(k))}

Parse(c) ==
    CASE rstate = "WAIT_HEADER" /\ Len(c) < HdrSize ->
            {Result("WAIT_HEADER", buffer, dataSize, <<>>)}
      [] rstate = "READ_BODY" /\ Len(buffer) + Len(c) < dataSize ->
            {Result("READ_BODY", buffer \o c, dataSize, <<>>)}
      [] rstate = "READ_BODY" /\ Len(buffer) + Len(c) >= dataSize ->
            ParseHeader(buffer \o c, buffer \o c, dataSize)
      [] OTHER -> ParseHeader(c, buffer, dataSize)

\* Seeded fault: reset() leaves buffer_ as it is.
BugAfterKeepsBuffer(r) ==
    IF r.threw \/ r.pk # <<>>
    THEN Result("READ_HEADER", IF r.threw THEN buffer ELSE r.buf, 0, r.pk)
    ELSE r

\* Reassembler::process: reset() after an exception and after packets.
After(r) ==
    IF r.threw \/ r.pk # <<>> THEN Result("READ_HEADER", <<>>, 0, r.pk) ELSE r

-----------------------------------------------------------------------------
(* TCPReassembler::packets.  A captured packet may complete one piece of   *)
(* the stream, or two when it fills a gap: the callback overwrites data_,  *)
(* and only the last piece is handed on.                                   *)

\* The reasons for which a packet may be lost, by what segment c is like and
\* by what parsing it came to.
Excuses(m, c, r) ==
    (IF m > 0 THEN {"merged"} ELSE {})
    \cup (IF \E i \in DOMAIN c : c[i][2] = 1 /\ (i > 1 \/ Len(c) < HdrSize)
          THEN {"misaligned"} ELSE {})
    \cup (IF rstate = "READ_HEADER" /\ Len(c) < HdrSize /\ c[1][2] = 1
          THEN {"overread"} ELSE {})
    \cup (IF rstate = "READ_BODY" /\ ~r.threw /\ r.st = "READ_HEADER" /\ r.pk = <<>>
          THEN {"stale"} ELSE {})

\* What is handed on of the next n cells of the stream, the first m of which
\* are a piece that is overwritten.
Piece(m, n) == SubSeq(Cells, sent + m + 1, sent + n)

\* VoIP::packets
Feed(m, n) ==
    /\ m < n
    /\ sent + n <= Len(Cells)
    /\ LET c == Piece(m, n)
       IN  \E r \in Parse(c) :
             LET a == After(r)
             IN  /\ rstate' = a.st
                 /\ buffer' = a.buf
                 /\ dataSize' = a.need
                 /\ out' = out \o a.pk
                 /\ excuse' = excuse \cup Excuses(m, c, r)
    /\ sent' = sent + n
    /\ UNCHANGED stream
=============================================================================
