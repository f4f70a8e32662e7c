------------------------------- MODULE Sniffer -------------------------------
(***************************************************************************)
(* A capture from the device to the clients: Grabber::sniffer shares one   *)
(* Sniffer among the connections of a capture, Device opens the interface  *)
(* or the file, Capture waits and reads, the parser finds the packets, and *)
(* notify() posts each of them to every connection.  The file of an        *)
(* offline capture is written by tools::OStream.                           *)
(*                                                                         *)
(* The io_service has several threads.  The handlers of Capture hold a raw *)
(* pointer: one that is queued when the sniffer is destroyed runs all the  *)
(* same ("stray").  What it does with the memory is not modelled.          *)
(***************************************************************************)
EXTENDS VoipReassembler, FiniteSets

CONSTANTS
    Conn,         \* the clients; each of them connects once
    Filter,       \* [Conn -> {"empty", "all", "text"}]: filter_
    Scenarios,    \* [entry, mode, parser, link, clients, packets]: what is
                  \* captured, by whom, and how many packets there are at most
    LivePackets,  \* the packets that may arrive on a live interface
    Sizes,        \* sizes of the datagrams in a file
    Addrs,        \* the words of a pair of IPv4 addresses
    MaxSniffers   \* how often a sniffer is created

ASSUME SnifferAssumption ==
    /\ IsFiniteSet(Conn)
    /\ Filter \in [Conn -> {"empty", "all", "text"}]
    /\ Sizes \subseteq Nat
    /\ Addrs \in Seq(Nat) /\ Len(Addrs) = 4 /\ \A i \in 1..4 : Addrs[i] = U16(Addrs[i])
    /\ MaxSniffers \in Nat

VARIABLES
    params,     \* the scenario
    file,       \* offline: the records of the file
    fstate,     \* the stream of OStream: "good", or "bad" after a failed write
    total,      \* OStream::total_
    source,     \* what the device has still to give
    arrived,    \* how many packets have arrived on the interface
    sniffer,    \* "none", "live", or where its constructor is
    creator,    \* the client for which it is constructed
    gen,        \* sniffers created
    held,       \* resources of libpcap: "handle", "bpf"
    wait,       \* the wait of Capture::read: "none", "armed", "ready" or
                \* "error" (handler queued), "processing"
    stray,      \* handlers of destroyed captures, <<gen, kind>>
    told,       \* how many of the parsed packets have been notified
    cut,        \* history: packets whose notification was interrupted
    ended,      \* how this sniffer's reading ended: "", what fail() was called
                \* with ("eof", "error"), or "silent"
    conn,       \* [Conn -> state of the connection]
    slots,      \* the connections to notify(), in order of connection
    posted,     \* [Conn -> packets in a posted handler]
    written,    \* [Conn -> packets written to the client]
    span        \* [Conn -> <<first, last>> packet of the subscription]

fvars == <<params, file, fstate, total>>
dvars == <<source, arrived>>
svars == <<sniffer, creator, gen, held>>
wvars == <<wait, stray>>
nvars == <<told, cut, ended>>
cvars == <<conn, slots, posted, written, span>>
vars  == <<rvars, fvars, dvars, svars, wvars, nvars, cvars>>

StreamParser == params.parser \in {"tcpstream", "voip"}

Init ==
    /\ params \in Scenarios
    /\ stream \in IF StreamParser THEN Streams ELSE {<<>>}
    /\ ReassemblerInit
    /\ out = <<>>
    /\ file = <<>> /\ fstate = "good" /\ total = SizeFileHeader
    /\ source = <<>> /\ arrived = 0
    /\ sniffer = "none" /\ creator = {} /\ gen = 0 /\ held = {}
    /\ wait = "none" /\ stray = {}
    /\ told = 0 /\ cut = {} /\ ended = ""
    /\ conn = [c \in Conn |-> "none"]
    /\ slots = <<>>
    /\ posted = [c \in Conn |-> {}]
    /\ written = [c \in Conn |-> {}]
    /\ span = [c \in Conn |-> <<1, 0>>]

-----------------------------------------------------------------------------
(* OStream::write.  Before the capture the file is written.                *)

Writing == params.mode = "offline" /\ gen = 0 /\ sniffer = "none" /\ fstate = "good"

WritePacket(ver, n) ==
    /\ Writing
    /\ params.link \in Writable
    /\ Len(file) < params.packets
    /\ LET p == IPPacket(params.link, ver, n, Len(file), Addrs)
       IN  /\ file' = Append(file, [pkt |-> p, size |-> n, hdr |-> TRUE, whole |-> TRUE])
           /\ total' = total + SizeRecord + p.len
    /\ UNCHANGED <<params, fstate, rvars, dvars, svars, wvars, nvars, cvars>>

\* The write of the record's header fails, with nothing or a part of it in the
\* file; or the write of the data after it.
WriteFails(ver, n) ==
    /\ Writing
    /\ params.link \in Writable
    /\ Len(file) < params.packets
    /\ fstate' = "bad"
    /\ LET Cut(hdr) == [pkt  |-> IPPacket(params.link, ver, n, Len(file), Addrs),
                        size |-> n, hdr |-> hdr, whole |-> FALSE]
       IN  \/ /\ file' \in {file, Append(file, Cut(FALSE))}
              /\ total' = total
           \/ /\ file' = Append(file, Cut(TRUE))
              /\ total' = total + SizeRecord
    /\ UNCHANGED <<params, rvars, dvars, svars, wvars, nvars, cvars>>

-----------------------------------------------------------------------------
(* Grabber::sniffer and the construction of a Sniffer, under mtxsniffers_. *)

Opening == {"lookup", "open", "compile", "setfilter", "nonblock"}   \* what is next

\* Connection's constructor: connect to notify().
Subscribe(c) ==
    /\ conn' = [conn EXCEPT ![c] = "on"]
    /\ slots' = Append(slots, c)
    /\ span' = [span EXCEPT ![c] = <<told + 1, 0>>]

\* The weak reference is still good: share the sniffer.
Join(c) ==
    /\ conn[c] = "none" /\ c \in params.clients
    /\ sniffer = "live"
    /\ Subscribe(c)
    /\ UNCHANGED <<rvars, fvars, dvars, svars, wvars, nvars, posted, written>>

\* createSniffer: nothing is configured under this name, or it is disabled.
NotConfigured(c) ==
    /\ conn[c] = "none" /\ c \in params.clients
    /\ sniffer = "none"
    /\ params.entry # "enabled"
    /\ conn' = [conn EXCEPT ![c] = "refused"]
    /\ UNCHANGED <<rvars, fvars, dvars, svars, wvars, nvars, slots, posted, written, span>>

CreateSniffer(c) ==
    /\ conn[c] = "none" /\ c \in params.clients
    /\ sniffer = "none"
    /\ params.entry = "enabled"
    /\ gen < MaxSniffers
    /\ gen' = gen + 1
    /\ creator' = {c}
    /\ sniffer' = IF params.mode = "live" THEN "lookup" ELSE "open"
    /\ conn' = [conn EXCEPT ![c] = "waiting"]
    /\ UNCHANGED <<rvars, fvars, dvars, held, wvars, nvars, slots, posted, written, span>>

\* A step fails: its error path gives back the resources in released, and the
\* exception goes up to the accept handler.
Fails(step, released) ==
    /\ sniffer = step
    /\ sniffer' = "none"
    /\ held' = held \ released
    /\ creator' = {}
    /\ conn' = [c \in Conn |-> IF c \in creator THEN "refused" ELSE conn[c]]
    /\ UNCHANGED <<rvars, fvars, dvars, gen, wvars, nvars, slots, posted, written, span>>

\* Seeded fault: pcap_setfilter fails and the program is not freed.
BugOpenFailsKeeps ==
    \/ Fails("lookup", {})
    \/ Fails("open", {})
    \/ Fails("compile", {"handle"})
    \/ Fails("setfilter", {"handle"})
    \/ Fails("nonblock", {"handle"})

\* The error paths of Device::open and load; when setnonblock() throws in the
\* constructor of Capture, ~Device closes the handle.
OpenFails ==
    \/ Fails("lookup", {})
    \/ Fails("open", {})
    \/ Fails("compile", {"handle"})
    \/ Fails("setfilter", {"bpf", "handle"})
    \/ Fails("nonblock", {"handle"})

\* A step succeeds, which acquires and gives back resources.
Stage(from, to, acquired, released) ==
    /\ sniffer = from
    /\ sniffer' = to
    /\ held' = (held \ released) \cup acquired
    /\ UNCHANGED <<rvars, fvars, dvars, creator, gen, wvars, nvars, cvars>>

\* Device::open: pcap_lookupnet, pcap_open_live, pcap_compile, pcap_setfilter
Open ==
    /\ params.mode = "live"
    /\ \/ Stage("lookup", "open", {}, {})
       \/ Stage("open", "compile", {"handle"}, {})
       \/ Stage("compile", "setfilter", {"bpf"}, {})
       \/ Stage("setfilter", "nonblock", {}, {"bpf"})

\* Device::load: pcap_open_offline, pcap_compile, pcap_setfilter
Load ==
    /\ params.mode = "offline"
    /\ params.link \in Writable
    /\ \/ Stage("open", "compile", {"handle"}, {})
       \/ Stage("compile", "setfilter", {"bpf"}, {})
       \/ Stage("setfilter", "opened", {}, {"bpf"})

\* Device::setnonblock
SetNonblock == Stage("nonblock", "opened", {}, {})

\* The constructors of Capture and Sniffer end: the first read(), with a parser
\* that has no past.  The client's Connection connects to the sniffer.
Started ==
    /\ sniffer = "opened"
    /\ sniffer' = "live"
    /\ creator' = {}
    /\ wait' = "armed"
    /\ ended' = ""
    /\ source' = IF params.mode = "live" THEN <<>> ELSE file
    /\ rstate' = "WAIT_HEADER" /\ buffer' = <<>> /\ dataSize' = 0
    /\ excuse' = IF gen > 1 THEN excuse \cup {"restarted"} ELSE excuse
    /\ \E c \in creator : Subscribe(c)
    /\ UNCHANGED <<stream, sent, out, fvars, arrived, gen, held, stray, told, cut, posted, written>>

-----------------------------------------------------------------------------
(* Capture::read and process.                                              *)

Arrive(p) ==
    /\ params.mode = "live" /\ ~StreamParser
    /\ sniffer = "live"
    /\ arrived < params.packets
    /\ source' = Append(source, [pkt |-> [p EXCEPT !.link = params.link],
                                 size |-> p.len, whole |-> TRUE])
    /\ arrived' = arrived + 1
    /\ UNCHANGED <<rvars, fvars, svars, wvars, nvars, cvars>>

\* The descriptor is readable, or the timer of an offline capture expires.
WaitEnds ==
    /\ wait = "armed"
    /\ \/ params.mode = "offline"
       \/ source # <<>>
       \/ StreamParser /\ sent < Len(Cells) /\ arrived < params.packets
    /\ wait' = "ready"
    /\ UNCHANGED <<rvars, fvars, dvars, svars, stray, nvars, cvars>>

\* The wait of a live capture fails, and fail() is called.
WaitFails ==
    /\ wait = "armed" /\ params.mode = "live"
    /\ wait' = "error"
    /\ UNCHANGED <<rvars, fvars, dvars, svars, stray, nvars, cvars>>

ReportError ==
    /\ wait = "error"
    /\ wait' = "none"
    /\ ended' = "error"
    /\ UNCHANGED <<rvars, fvars, dvars, svars, stray, told, cut, cvars>>

Begin ==
    /\ wait = "ready"
    /\ wait' = "processing"
    /\ UNCHANGED <<rvars, fvars, dvars, svars, stray, nvars, cvars>>

\* The loop of process(), when all packets found so far have been notified.
Looping == wait = "processing" /\ told = Len(out)

\* pcap_next_ex gives a packet to a parser without state.  TCPReassembler finds
\* nothing in a datagram of a file.
NextPacket ==
    /\ Looping
    /\ source # <<>> /\ Head(source).whole
    /\ source' = Tail(source)
    /\ out' = IF StreamParser THEN out
              ELSE out \o Packets(params.parser, Snapped(Head(source).pkt))
    /\ UNCHANGED <<stream, sent, rstate, buffer, dataSize, excuse>>
    /\ UNCHANGED <<fvars, arrived, svars, wvars, nvars, cvars>>

\* It gives a packet with the next n cells of a stream, behind m cells of a
\* piece that was waiting for them.
NextSegment(m, n) ==
    /\ Looping /\ params.parser = "voip"
    /\ arrived < params.packets
    /\ arrived' = arrived + 1
    /\ Feed(m, n)
    /\ UNCHANGED <<fvars, source, svars, wvars, nvars, cvars>>

\* The parser "tcpstream" hands the piece on as it is.
NextPiece(m, n) ==
    /\ Looping /\ params.parser = "tcpstream"
    /\ arrived < params.packets
    /\ arrived' = arrived + 1
    /\ m < n /\ sent + n <= Len(Cells)
    /\ out' = Append(out, Piece(m, n))
    /\ sent' = sent + n
    /\ excuse' = IF m > 0 THEN excuse \cup {"merged"} ELSE excuse
    /\ UNCHANGED <<stream, rstate, buffer, dataSize>>
    /\ UNCHANGED <<fvars, source, svars, wvars, nvars, cvars>>

\* pcap_next_ex has no packet on a live interface: read() again.
NoMore ==
    /\ Looping /\ params.mode = "live" /\ source = <<>>
    /\ wait' = "armed"
    /\ UNCHANGED <<rvars, fvars, dvars, svars, stray, nvars, cvars>>

\* Seeded fault: the wait is armed again at the end of the file, and dropped
\* with the timer.
BugEofRearms ==
    /\ Looping /\ params.mode = "offline" /\ source = <<>>
    /\ wait' = "none"
    /\ UNCHANGED <<rvars, fvars, dvars, svars, stray, nvars, cvars>>

\* The end of the file.  The handler does not read again, and the wait's
\* callback drops the timer.
Eof ==
    /\ Looping /\ params.mode = "offline" /\ source = <<>>
    /\ wait' = "none"
    /\ ended' = "eof"
    /\ UNCHANGED <<rvars, fvars, dvars, svars, stray, told, cut, cvars>>

\* pcap_next_ex fails: on a record that is cut off, or on the interface.
\* Without a packet header nobody is told.
ReadError ==
    /\ Looping
    /\ params.mode = "live" \/ (source # <<>> /\ ~Head(source).whole)
    /\ wait' = "none"
    /\ ended' \in {"error", "silent"}
    /\ UNCHANGED <<rvars, fvars, dvars, svars, stray, told, cut, cvars>>

\* The connections whose slots are called before one is reached that is in
\* its destructor: shared_from_this() throws there.
Reached ==
    {slots[i] : i \in {j \in DOMAIN slots : \A k \in 1..j : conn[slots[k]] # "dying"}}

\* Seeded fault: the exception of a slot ends the loop over the packets.
BugNotifyOneTry ==
    /\ wait = "processing" /\ told < Len(out)
    /\ posted' = [c \in Conn |-> IF c \in Reached THEN posted[c] \cup {told + 1}
                                                  ELSE posted[c]]
    /\ cut' = IF Reached = Range(slots) THEN cut ELSE cut \cup {told + 1}
    /\ told' = IF Reached = Range(slots) THEN told + 1 ELSE Len(out)
    /\ UNCHANGED <<rvars, fvars, dvars, svars, wvars, ended, conn, slots, written, span>>

\* Sniffer::process: notify() with the next packet.
Notify ==
    /\ wait = "processing" /\ told < Len(out)
    /\ posted' = [c \in Conn |-> IF c \in Reached THEN posted[c] \cup {told + 1}
                                                  ELSE posted[c]]
    /\ cut' = IF Reached = Range(slots) THEN cut ELSE cut \cup {told + 1}
    /\ told' = told + 1
    /\ UNCHANGED <<rvars, fvars, dvars, svars, wvars, ended, conn, slots, written, span>>

-----------------------------------------------------------------------------
(* The connections.                                                        *)

\* Connection::filter
Passes(c, i) ==
    CASE Filter[c] = "empty" -> FALSE
      [] Filter[c] = "all"   -> TRUE
      [] Filter[c] = "text"  -> StreamParser \/ out[i].size % 2 = 1

\* A handler posted by Connection::post runs; several of them, in any order.
RunPosted(c, i) ==
    /\ i \in posted[c]
    /\ posted' = [posted EXCEPT ![c] = @ \ {i}]
    /\ written' = IF Passes(c, i) THEN [written EXCEPT ![c] = @ \cup {i}] ELSE written
    /\ UNCHANGED <<rvars, fvars, dvars, svars, wvars, nvars, conn, slots, span>>

\* The client goes, the capture timer expires, or the server ends: the read
\* loop and the timer let go of the connection.
Leave(c) ==
    /\ conn[c] = "on"
    /\ conn' = [conn EXCEPT ![c] = "closing"]
    /\ UNCHANGED <<rvars, fvars, dvars, svars, wvars, nvars, slots, posted, written, span>>

\* The last reference is dropped: ~Connection starts.
Expire(c) ==
    /\ conn[c] = "closing" /\ posted[c] = {}
    /\ conn' = [conn EXCEPT ![c] = "dying"]
    /\ UNCHANGED <<rvars, fvars, dvars, svars, wvars, nvars, slots, posted, written, span>>

Holds(c) == conn[c] \in {"on", "closing", "dying"}

\* ~Sniffer with its Capture and ~Device: a wait that is under way, or a handler that is
\* queued or running, is left behind.  The timer's callback ignores an aborted
\* wait.
DestroySniffer ==
    /\ sniffer' = "none"
    /\ held' = held \ {"handle"}
    /\ wait' = "none"
    /\ stray' = IF wait = "none" \/ (wait = "armed" /\ params.mode = "offline")
                THEN stray ELSE stray \cup {<<gen, wait>>}
    /\ told' = Len(out)
    /\ source' = <<>>

\* ~Connection disconnects its slot; then sniffer_ is released.
Disconnect(c) ==
    /\ conn[c] = "dying"
    /\ conn' = [conn EXCEPT ![c] = "gone"]
    /\ \E i \in DOMAIN slots : slots[i] = c /\ slots' = RemoveAt(slots, i)
    /\ span' = [span EXCEPT ![c] = <<span[c][1], told>>]
    /\ IF \E d \in Conn \ {c} : Holds(d)
       THEN UNCHANGED <<source, sniffer, held, wait, stray, told>>
       ELSE DestroySniffer
    /\ UNCHANGED <<rvars, fvars, arrived, creator, gen, cut, ended, posted, written>>

\* A handler of a destroyed capture runs.
StrayRuns(h) ==
    /\ h \in stray
    /\ stray' = stray \ {h}
    /\ UNCHANGED <<rvars, fvars, dvars, svars, wait, nvars, cvars>>

-----------------------------------------------------------------------------
Construct == Open \/ Load \/ SetNonblock \/ Started \/ OpenFails

\* One step of the handler of Capture::read.
Process ==
    \/ Begin \/ ReportError \/ NextPacket \/ NoMore \/ Eof \/ ReadError \/ Notify
    \/ \E n \in 1..MaxSegment, m \in 0..MaxHeld : NextSegment(m, n) \/ NextPiece(m, n)

ConnStep(c) ==
    \/ \E i \in posted[c] : RunPosted(c, i)
    \/ Expire(c) \/ Disconnect(c)

Next ==
    \/ \E n \in Sizes, v \in {4, 6} : WritePacket(v, n) \/ WriteFails(v, n)
    \/ \E c \in Conn : Join(c) \/ NotConfigured(c) \/ CreateSniffer(c) \/ Leave(c)
    \/ Construct
    \/ \E p \in LivePackets : Arrive(p)
    \/ WaitEnds \/ WaitFails
    \/ Process
    \/ \E c \in Conn : ConnStep(c)
    \/ \E h \in stray : StrayRuns(h)

Spec == Init /\ [][Next]_vars

\* A constructor goes on, timers expire, queued handlers run.  Nothing makes
\* packets arrive or clients connect or leave.
FairSpec ==
    /\ Spec
    /\ WF_vars(Construct)
    /\ WF_vars(WaitEnds)
    /\ WF_vars(Process)
    /\ \A c \in Conn : WF_vars(ConnStep(c))

-----------------------------------------------------------------------------
(* Properties.                                                             *)

TypeOK ==
    /\ sniffer \in Opening \cup {"none", "opened", "live"}
    /\ wait \in {"none", "armed", "ready", "error", "processing"}
    /\ rstate \in {"WAIT_HEADER", "READ_HEADER", "READ_BODY"}
    /\ fstate \in {"good", "bad"}
    /\ told \in 0..Len(out)
    /\ held \subseteq {"handle", "bpf"}
    /\ cut \subseteq 1..Len(out)
    /\ ended \in {"", "eof", "error", "silent"}
    /\ conn \in [Conn -> {"none", "waiting", "refused", "on", "closing", "dying", "gone"}]

\* device.cpp:24-88, capture.cpp:23-108, grabber.cpp:85-115.  Whatever step of
\* opening fails, nothing of libpcap is left; a sniffer has its handle as long
\* as a client holds it; and one that has stopped to read either said so or
\* could not.
DeviceMatchesClients ==
    /\ TypeOK
    /\ sniffer = "none" => held = {}
    /\ sniffer = "live" => held = {"handle"} /\ (wait = "none" => ended # "")
    /\ sniffer = "live" <=> \E c \in Conn : Holds(c)

\* voip.cpp:104-234, tcpreassembler.cpp:50-77.  When every block begins a
\* segment that has its header, and neither of the known cases cost a packet,
\* the packets found are those of the blocks that have arrived, wherever TCP
\* has cut them; "tcpstream" hands on the stream itself.  Whatever happened, no
\* packet is found twice, out of order or without having been sent, unless a
\* header was read past the end or a piece of the stream was overwritten.
BlocksReassembled ==
    /\ params.parser = "tcpstream" /\ excuse = {} => FlattenSeq(out) = SubSeq(Cells, 1, sent)
    /\ params.parser = "voip" =>
        /\ excuse = {} =>
              out = FlattenSeq([k \in DOMAIN stream |->
                       IF /\ \E i \in 1..sent : Cells[i] = <<k, BlockSize(stream[k])>>
                          /\ HeaderOK(stream[k]) /\ OffsetsOK(stream[k])
                          /\ Decompresses(stream[k])
                       THEN BlockPackets(k) ELSE <<>>])
        /\ excuse \cap {"overread", "merged"} = {} =>
              /\ Junk \notin Range(out)
              /\ \A i, j \in DOMAIN out :
                    i < j => \/ out[i][1] < out[j][1]
                             \/ out[i][1] = out[j][1] /\ out[i][2] < out[j][2]

\* The size of what a parser finds in a record that was written: all of it, what
\* is behind the IP header, or behind UDP's too.  No more is captured than the
\* snapshot length; UDP looks whether its length, which has 16 bits, goes beyond
\* what is captured.
FoundIn(parser, r) ==
    LET udp      == r.pkt.len - r.size - SizeUdp
        head     == CASE parser = "raw" -> 0 [] parser = "ip" -> udp [] OTHER -> udp + SizeUdp
        captured == IF r.pkt.len <= SnapLen THEN r.pkt.len ELSE SnapLen
        fits     == parser = "udp" => udp + U16(SizeUdp + r.size) <= captured
    IN  IF r.whole /\ head < captured /\ fits THEN <<captured - head>> ELSE <<>>

\* What is counted of a record.
BytesOf(r) ==
    (IF r.hdr THEN SizeRecord ELSE 0) + (IF r.whole THEN r.pkt.len ELSE 0)

\* ippacket.cpp:52-66, ostream.cpp:46-80, parsers/ip.cpp:9-46, udp.cpp:8-24,
\* raw.h:17.  A capture of a file finds in it the records that were written, or
\* the datagrams in them, in their order and with their sizes, except empty
\* ones; those that are longer than the snapshot length are cut or skipped, and
\* cost no other.  It ends at the end of the file unless a write has left a part
\* of a record there.  total_ counts the headers and the data whose writes have
\* succeeded, and IPv4's checksums are right.
FileReadsBack ==
    params.mode = "offline" /\ params.parser \in {"ip", "udp", "raw"} /\ gen <= 1 =>
        /\ ended # "" => [i \in DOMAIN out |-> out[i].size]
                           = FlattenSeq([i \in DOMAIN file |-> FoundIn(params.parser, file[i])])
        /\ ended # "" => (ended = "eof" <=> \A i \in 1..Len(file) : file[i].whole)
        /\ ended # "" /\ fstate = "good" => ended = "eof"
        /\ total = SizeFileHeader + SumOver([i \in DOMAIN file |-> BytesOf(file[i])])
        /\ \A r \in Range(file) : r.pkt.ver = 4 => CalcCheckSumm(r.pkt.words) = 0

\* sniffer.cpp:69-94, livecapture/connection.cpp:28-38,110-138.  A client is
\* posted every packet from its subscription to its end, and is written those
\* that pass its filter, except a packet whose notification was interrupted by
\* the destructor of another connection; and it gets nothing else.
ClientsGetTheirShare ==
    \A c \in Conn :
        LET last  == IF conn[c] = "gone" THEN span[c][2] ELSE told
            share == {i \in span[c][1]..last : Passes(c, i)}
        IN  conn[c] \in {"on", "closing", "dying", "gone"} =>
              /\ share \ cut \subseteq posted[c] \cup written[c]
              /\ written[c] \subseteq share
              /\ posted[c] \subseteq span[c][1]..last

\* capture.cpp:40-64,76-105.  The timer of an offline capture expires, and its
\* handler reads the file to the end as long as somebody holds the sniffer.
FileIsRead ==
    params.mode = "offline" /\ sniffer = "live" ~> ended # "" \/ sniffer # "live"
=============================================================================
