---------------------------- MODULE PacketParsing ----------------------------
(***************************************************************************)
(* What the capture and the parser read from one frame.  A frame is what   *)
(* the dissector hands over: its layers, the fields of those layers and    *)
(* the bytes of its TCP payload; the walk through a TLS ClientHello is     *)
(* modelled byte by byte, because its offsets are what can go wrong.       *)
(***************************************************************************)
EXTENDS Integers, Sequences, FiniteSets

CONSTANT None     \* an absent field

NoPort == 0

(* _LAYER_PROTOCOLS, the most specific first.                              *)
LayerProtocols ==
    <<"dns", "http", "tcp", "udp", "icmp", "arp", "ipv6", "ip", "ethernet">>

Handshake == 22        \* _TLS_HANDSHAKE_CONTENT_TYPE
ClientHello == 1       \* TlsHandshakeType.CLIENT_HELLO
SniExtension == 0      \* _TLS_SNI_TYPE
SessionAt == 43        \* record and handshake headers, version and random

IsTls(f) == Len(f.payload) >= 3 /\ f.payload[1] = Handshake

DetectProtocol(f) ==
    IF "tcp" \in f.layers /\ IsTls(f) THEN "tls"
    ELSE LET found == {i \in DOMAIN LayerProtocols : LayerProtocols[i] \in f.layers}
         IN  IF found = {} THEN "unknown"
             ELSE LayerProtocols[CHOOSE i \in found : \A j \in found : i <= j]

(* The deny list comes first; an empty allow list allows all.              *)
PassesFilter(f, filter) ==
    /\ DetectProtocol(f) \notin filter.deny
    /\ filter.allow = {} \/ DetectProtocol(f) \in filter.allow

----------------------------------------------------------------------------
(* raw[i] raises beyond the end, a slice is cut off there instead: two     *)
(* bytes of which one or none is left make a smaller number.               *)
Has(raw, i) == i < Len(raw)
Byte(raw, i) == raw[i + 1]
Slice(raw, i, n) ==
    SubSeq(raw, i + 1, IF i + n > Len(raw) THEN Len(raw) ELSE i + n)
Number(raw, i) ==
    LET two == Slice(raw, i, 2)
    IN  IF two = <<>> THEN 0 ELSE IF Len(two) = 1 THEN two[1] ELSE 256 * two[1] + two[2]

(* _find_sni over the extensions in [first, end).                          *)
FindSni(raw, first, end) ==
    LET name[at \in Nat] ==
          IF at + 4 > end THEN None
          ELSE LET length == Number(raw, at + 2)
               IN  IF Number(raw, at) = SniExtension /\ at + 4 + length <= end
                   THEN Slice(raw, at + 9, Number(raw, at + 7))
                   ELSE name[at + 4 + length]
    IN  name[first]

(* extract_tls_metadata: the name asked for and the cipher suites, or      *)
(* neither where an index is beyond the end.                               *)
TlsMetadata(f) ==
    LET raw == f.payload
        nothing == [sni |-> None, ciphers |-> None]
        c == SessionAt + 1 + Byte(raw, SessionAt)
        length == Number(raw, c)
        ciphers == [i \in 1 .. (length + 1) \div 2 |-> Number(raw, c + 2 * i)]
        m == c + 2 + length
        e == m + 1 + Byte(raw, m)
    IN  IF "tcp" \notin f.layers \/ Len(raw) < 6 THEN nothing
        ELSE IF Byte(raw, 0) # Handshake \/ Byte(raw, 5) # ClientHello THEN nothing
        ELSE IF ~Has(raw, SessionAt) THEN nothing
        ELSE IF ~Has(raw, m) THEN nothing
        ELSE IF e + 2 > Len(raw) THEN [sni |-> None, ciphers |-> ciphers]
        ELSE [sni |-> FindSni(raw, e + 2, e + 2 + Number(raw, e)), ciphers |-> ciphers]

----------------------------------------------------------------------------
(* The extractors: a field that cannot be read is None, not an error.      *)
IpAddresses(f) ==
    IF ~f.broken /\ f.layers \cap {"ip", "ipv6", "arp"} # {} THEN <<f.src, f.dst>>
    ELSE <<None, None>>

Ports(f) ==
    IF ~f.broken /\ f.layers \cap {"tcp", "udp"} # {} THEN <<f.sport, f.dport>>
    ELSE <<NoPort, NoPort>>

Named(text) == IF text = "" THEN None ELSE text

TcpFlags(f) ==
    IF f.broken \/ "tcp" \notin f.layers THEN None
    ELSE [bit \in {"syn", "ack", "fin", "rst", "psh", "urg"} |-> bit \in f.bits]

DnsFields(f) ==
    IF f.broken \/ "question" \notin f.layers THEN None
    ELSE [query_name |-> Named(f.qname), record_type |-> f.qtype]

HttpFields(f) ==
    IF f.broken \/ "request" \notin f.layers THEN None
    ELSE [path |-> Named(f.path), host |-> Named(f.host)]

(* Mutant: a ClientHello without a name is not a ClientHello.              *)
TlsFieldsNamed(f) ==
    LET tls == TlsMetadata(f)
    IN  IF tls.sni = None THEN None ELSE tls

TlsFields(f) ==
    LET tls == TlsMetadata(f)
    IN  IF tls.sni = None /\ tls.ciphers = None THEN None ELSE tls

(* summarise_packet reads the same fields once more and catches nothing,   *)
(* so that a field which raises costs the packet after all.                *)
Summary(f) ==
    LET protocol == DetectProtocol(f)
    IN  [protocol |-> protocol,
         addresses |-> IF f.layers \cap {"ip", "ipv6", "arp"} = {} THEN <<None, None>>
                       ELSE <<f.src, f.dst>>,
         ports |-> IF f.layers \cap {"tcp", "udp"} = {} THEN <<NoPort, NoPort>>
                   ELSE <<f.sport, f.dport>>,
         dns |-> IF protocol = "dns" /\ "question" \in f.layers THEN f.qname ELSE None,
         http |-> IF protocol = "http" /\ "request" \in f.layers THEN <<f.path, f.host>> ELSE None,
         tls |-> IF protocol = "tls" THEN TlsMetadata(f)
                 ELSE [sni |-> None, ciphers |-> None]]

(* PacketParser.parse ends with the summary; parse_safe makes of any       *)
(* exception a None.                                                       *)
Parse(f) ==
    [protocol |-> DetectProtocol(f), addresses |-> IpAddresses(f), ports |-> Ports(f),
     length |-> f.length, tcp_flags |-> TcpFlags(f), dns |-> DnsFields(f),
     http |-> HttpFields(f), tls |-> TlsFields(f)]

ParseSafe(f) == IF f.broken THEN None ELSE Parse(f)

(* protocol_sections: the sections stored are those the packet carries.    *)
Sections(parsed) ==
    {s \in {"tcp_flags", "dns", "http", "tls"} : parsed[s] # None}

----------------------------------------------------------------------------
(* The parser and the one-line summary read every field twice, by separate *)
(* code: both tell the same, and a detector that chooses packets by their  *)
(* protocol finds the section it then reads.                               *)
ReadAlikeIn(f) ==
    LET p == ParseSafe(f)
        s == Summary(f)
    IN  p # None =>
        /\ p.protocol = s.protocol /\ p.addresses = s.addresses /\ p.ports = s.ports
        /\ p.protocol = "dns" /\ s.dns # None => p.dns # None /\ p.dns.query_name = Named(s.dns)
        /\ p.protocol = "http" /\ s.http # None => p.http # None /\ p.http.path = Named(s.http[1])
        /\ p.tls # None <=> s.tls.sni # None \/ s.tls.ciphers # None
        /\ p.tls # None => p.tls = s.tls /\ p.protocol = "tls" /\ "tls" \in Sections(p)

(* The name found in a ClientHello, cut off wherever the capture ended, is *)
(* the beginning of the name it asks for, and a whole one is found whole.  *)
SniIsAskedIn(f) ==
    LET found == TlsMetadata(f).sni
    IN  /\ found # None => Len(found) <= Len(f.asked) /\ found = SubSeq(f.asked, 1, Len(found))
        /\ f.whole /\ f.asked # <<>> => found = f.asked
=============================================================================
