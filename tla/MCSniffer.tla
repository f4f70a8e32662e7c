------------------------------ MODULE MCSniffer ------------------------------
(* Files, live packets and block streams, captured for two clients. *)
EXTENDS Sniffer

CONSTANTS c1, c2

MCConn == {c1, c2}
MCFilter == c1 :> "text" @@ c2 :> "all"
MCAddrs == <<32512, 1, 65535, 65534>>

Scenario(entry, mode, parser, link, clients, packets) ==
    [entry |-> entry, mode |-> mode, parser |-> parser, link |-> link,
     clients |-> clients, packets |-> packets]

MCScenarios ==
    {Scenario("enabled", "offline", p, l, {c1}, 2) :
        p \in {"udp", "ip", "raw"}, l \in {"EN10MB", "NULL", "LINUX_SLL"}}
    \cup {Scenario("enabled", "live", "tcp", "EN10MB", {c1, c2}, 2),
          Scenario("disabled", "live", "udp", "RAW", {c2}, 1),
          Scenario("enabled", "live", "voip", "EN10MB", {c2}, 4),
          Scenario("enabled", "live", "tcpstream", "EN10MB", {c2}, 2)}

\* Nothing, the least, what just fits into a record with IPv4 over Ethernet,
\* more than that, and more than a length field holds.
MCSizes == {0, 1, 65493, 65500, 65530}

\* TCP over IPv4 with options and data, without data, over IPv6, and cut off.
Tcp(ver, ihl, off, len) ==
    [link |-> "RAW", ver |-> ver, ihl |-> ihl, proto |-> IPPROTO_TCP, off |-> off,
     ulen |-> 0, len |-> len]
MCLivePackets == {Tcp(4, 24, 24, 14 + 24 + 24 + 3), Tcp(4, 20, 20, 14 + 40),
                  Tcp(6, 0, 20, 14 + 60 + 4)}

Udp(len) ==
    [link |-> "RAW", ver |-> 4, ihl |-> 20, proto |-> IPPROTO_UDP, off |-> 0,
     ulen |-> len - 20, len |-> len]
Record(caplen, len) == [caplen |-> caplen, ipOffset |-> 0, ip |-> Udp(len)]

Block(size, zip, offsets, items) ==
    [count |-> Len(offsets), size |-> size, zip |-> zip, intact |-> TRUE,
     offsets |-> offsets, items |-> items]

Two == Block(4, 0, <<0, 2>>, <<Record(1, 40), Record(1, 41)>>)
NoPayload == Block(2, 0, <<0>>, <<Record(1, 28)>>)
Packed == Block(2, 1, <<0>>, <<Record(1, 40)>>)
Corrupt == [Packed EXCEPT !.intact = FALSE]
BadOffset == Block(1, 0, <<1>>, <<Record(1, 40)>>)

MCStreams == {<<Two, Packed>>, <<NoPayload, Two>>, <<Packed, Two>>,
              <<Corrupt, Packed>>, <<BadOffset, Packed, Packed>>}
=============================================================================
