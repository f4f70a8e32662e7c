---------------------------- MODULE PacketParsers ----------------------------
(***************************************************************************)
(* What the packet parsers of pcap/parsers find in a captured packet, and  *)
(* what pcap/tools writes into a capture file.                             *)
(*                                                                         *)
(* A captured packet is a record of the lengths and header fields the      *)
(* parsers look at; a parser answers with the offset of the payload, which *)
(* is len when it finds none.  Addresses and the payload's bytes are left  *)
(* out.  Sizes are those of the C structures.                              *)
(***************************************************************************)
EXTENDS Integers, Sequences, SequencesExt

SizeIp4 == 20    \* sizeof(iphdr)
SizeIp6 == 40    \* sizeof(ip6_hdr)
SizeTcp == 20    \* sizeof(tcphdr)
SizeUdp == 8     \* sizeof(udphdr)

IPPROTO_TCP == 6
IPPROTO_UDP == 17

\* The link layers Datalink::headerSize knows, with the sizes of their headers.
LinkHeader == [RAW |-> 0, NULL |-> 4, LOOP |-> 4, EN10MB |-> 14, LINUX_SLL |-> 16]

\* p.link  link layer of the capture        p.len    bytes captured
\* p.ver   version nibble of the IP header  p.ihl    its length field, in bytes
\* p.proto protocol / next header           p.off    th_off at the transport
\* p.ulen  udphdr.len at the transport               header, in bytes
NoInfo == [ip |-> 0, proto |-> 0, ports |-> FALSE]

\* Datalink::headerSize and payload.
DatalinkPayload(p) ==
    LET offset == IF p.link \in DOMAIN LinkHeader THEN LinkHeader[p.link] ELSE p.len
    IN  IF offset < p.len THEN offset ELSE p.len

\* The IPv6 header is taken to be followed by the transport header.
IpOffset(p) == IF p.ver = 4 THEN p.ihl ELSE SizeIp6

IpPayload(p) ==
    LET at == DatalinkPayload(p)
    IN  IF /\ at + SizeIp4 < p.len
           /\ p.ver \in {4, 6}
           /\ at + IpOffset(p) < p.len
        THEN [at |-> at + IpOffset(p),
              info |-> [NoInfo EXCEPT !.ip = p.ver, !.proto = p.proto]]
        ELSE [at |-> p.len, info |-> NoInfo]

\* TCP and UDP look behind whatever IP header there is; neither of them looks
\* at the protocol.
TcpPayload(p) ==
    LET r == IpPayload(p)
    IN  IF r.at + SizeTcp < p.len /\ r.at + p.off < p.len
        THEN [at |-> r.at + p.off, info |-> [r.info EXCEPT !.ports = TRUE]]
        ELSE [r EXCEPT !.at = p.len]

\* Seeded fault: a datagram that ends with the packet is refused.
BugUdpPayloadStrict(p) ==
    LET r == IpPayload(p)
    IN  IF r.at + SizeUdp < p.len /\ r.at + p.ulen < p.len
        THEN [at |-> r.at + SizeUdp, info |-> [r.info EXCEPT !.ports = TRUE]]
        ELSE [r EXCEPT !.at = p.len]

UdpPayload(p) ==
    LET r == IpPayload(p)
    IN  IF r.at + SizeUdp < p.len /\ r.at + p.ulen <= p.len
        THEN [at |-> r.at + SizeUdp, info |-> [r.info EXCEPT !.ports = TRUE]]
        ELSE [r EXCEPT !.at = p.len]

\* Smart chooses by the protocol.  No name means it: VoIP uses it for its records.
SmartPayload(p) ==
    LET r == IpPayload(p)
    IN  CASE r.info.proto = IPPROTO_TCP -> TcpPayload(p)
          [] r.info.proto = IPPROTO_UDP -> UdpPayload(p)
          [] OTHER -> r

\* Factory::create: an unknown name means the raw parser.
Payload(type, p) ==
    CASE type = "ip"  -> IpPayload(p)
      [] type = "tcp" -> TcpPayload(p)
      [] type = "udp" -> UdpPayload(p)
      [] OTHER        -> [at |-> 0, info |-> NoInfo]

\* One packet, or none when there is no payload.
PacketsFrom(r, p) == IF r.at < p.len THEN <<[size |-> p.len - r.at, info |-> r.info]>> ELSE <<>>

\* Raw::packets
Packets(type, p) == PacketsFrom(Payload(type, p), p)

-----------------------------------------------------------------------------
(* IPPacket: the headers of a datagram in a capture file.                  *)

\* IPPacket::dataLinkSize; the other link layers throw.
Writable == {"RAW", "NULL", "LOOP", "EN10MB"}

\* What a field of 16 bits keeps of a number.
U16(n) == n % 65536

\* A word of two bytes.
Word(high, low) == 256 * high + low

\* The sum of a sequence of numbers.
SumOver(s) ==
    LET sum[i \in 0..Len(s)] == IF i = 0 THEN 0 ELSE sum[i - 1] + s[i]
    IN  sum[Len(s)]

\* IPPacket::calcCheckSumm over 16-bit words in host order.
CalcCheckSumm(words) ==
    LET Wrap(n) == U16(n) + (n \div 65536)
    IN  65535 - Wrap(Wrap(SumOver(words)))

\* IPPacket::writeDataLink
WriteDataLink(link) == [link |-> link, len |-> LinkHeader[link]]

\* IPPacket::writeIPHeader for IPv4 and IPv6.  The protocol is always UDP.  For
\* IPv4 the words of the header: version and ihl, tot_len, id, frag_off, ttl and
\* protocol, check, and the addresses.
WriteIPHeader(p, ver, id, addrs) ==
    [link |-> p.link, ipAt |-> p.len, ver |-> ver, ihl |-> SizeIp4, proto |-> IPPROTO_UDP,
     len |-> p.len + (IF ver = 4 THEN SizeIp4 ELSE SizeIp6),
     words |-> <<Word(16 * 4 + SizeIp4 \div 4, 0), 0, U16(id), 0, Word(255, IPPROTO_UDP), 0>>
               \o addrs]

\* IPPacket::writeUDPHeader, without the checksum; its length field has 16
\* bits.  The data follows: where TCP would look for th_off there may be none.
WriteUDPHeader(p, size) ==
    [link |-> p.link, ipAt |-> p.ipAt, ver |-> p.ver, ihl |-> p.ihl, proto |-> p.proto,
     words |-> p.words, len |-> p.len + SizeUdp + size, off |-> 0,
     ulen |-> U16(SizeUdp + size)]

\* IPPacket::finalize: the total length, in 16 bits, and IPv4's checksum over
\* the header in which check is still 0.
Finalize(p) ==
    LET words == [p.words EXCEPT ![2] = U16(p.len - p.ipAt)]
    IN  [p EXCEPT !.words = [words EXCEPT ![6] = CalcCheckSumm(words)]]

\* IPPacket::IPPacket
IPPacket(link, ver, size, id, addrs) ==
    Finalize(WriteUDPHeader(WriteIPHeader(WriteDataLink(link), ver, id, addrs), size))

\* Sizes of the file header and of a record header, and the snapshot length in
\* the file header: libpcap gives no more than that of a record.
SizeFileHeader == 24
SizeRecord == 16
SnapLen == 65535
Snapped(p) == [p EXCEPT !.len = IF p.len <= SnapLen THEN p.len ELSE SnapLen]
=============================================================================
