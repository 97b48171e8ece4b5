------------------------------- MODULE Traffic -------------------------------
(***************************************************************************)
(* Sample inputs for the model checker: frames, among them a ClientHello   *)
(* cut off at every byte, parsed packets of every kind a detector counts,  *)
(* and rules with every operator.                                          *)
(***************************************************************************)
EXTENDS Integers, Sequences

CONSTANT None

Blank == [layers |-> {"ethernet"}, src |-> None, dst |-> None, sport |-> 0, dport |-> 0,
          bits |-> {}, qname |-> "", qtype |-> 0, path |-> "", host |-> "", payload |-> <<>>,
          length |-> 60, broken |-> FALSE, asked |-> <<>>, whole |-> TRUE]

Tcp == [Blank EXCEPT !.layers = {"ethernet", "ip", "tcp"}, !.src = "a", !.dst = "b",
                     !.sport = 40000, !.dport = 443, !.bits = {"psh", "ack"}]

(* A ClientHello: an extension before the name and one after it.           *)
Two(n) == <<n \div 256, n % 256>>
Extension(type, body) == Two(type) \o Two(Len(body)) \o body
SniBody(name) == Two(Len(name) + 3) \o <<0>> \o Two(Len(name)) \o name
Hello(extensions) ==
    <<22, 3, 1, 0, 0, 1, 0, 0, 0>> \o [i \in 1 .. 34 |-> 7]
      \o <<1, 9>> \o Two(4) \o <<19, 1, 19, 2>> \o <<1, 0>>
      \o Two(Len(extensions)) \o extensions

Name == <<97, 46, 98>>
Asking == Hello(Extension(43, <<3, 4>>) \o Extension(0, SniBody(Name)) \o Extension(10, <<0, 29>>))
Silent == Hello(Extension(43, <<3, 4>>))

CutOff(hello, name) ==
    {[Tcp EXCEPT !.payload = SubSeq(hello, 1, n), !.asked = name, !.whole = (n = Len(hello))] :
       n \in 0 .. Len(hello)}

Dns == [Blank EXCEPT !.layers = {"ethernet", "ip", "udp", "dns", "question"}, !.src = "a",
                     !.dst = "b", !.sport = 40000, !.dport = 53, !.qname = "q", !.qtype = 1]

SampleFrames ==
    {Blank, Tcp, Dns,
     [Blank EXCEPT !.layers = {"ethernet", "arp"}, !.src = "a", !.dst = "b"],
     [Blank EXCEPT !.layers = {"ethernet", "ipv6", "icmp"}, !.src = "a", !.dst = "b"],
     [Dns EXCEPT !.layers = @ \ {"question"}],
     [Tcp EXCEPT !.layers = @ \cup {"http", "request"}, !.path = "/"],
     [Tcp EXCEPT !.layers = @ \cup {"http"}],
     [Tcp EXCEPT !.layers = @ \cup {"dns", "question"}, !.qname = "q", !.payload = <<22, 0, 0>>],
     [Tcp EXCEPT !.broken = TRUE]}
    \cup CutOff(Asking, Name) \cup CutOff(Silent, <<>>)

SampleFilters == {[allow |-> {}, deny |-> {"arp"}], [allow |-> {"tcp", "tls"}, deny |-> {"tcp"}]}

----------------------------------------------------------------------------
Plain == [protocol |-> "other", src |-> "in1", dst |-> "in2", flags |-> {}, dport |-> 0,
          path |-> None, query |-> <<>>, length |-> 1]

SamplePackets ==
    {[Plain EXCEPT !.protocol = "tcp", !.flags = {"syn"}, !.dport = n] : n \in {22, 4444}}
    \cup {[Plain EXCEPT !.protocol = "tcp", !.flags = {"syn", "ack"}, !.dport = 22, !.dst = "out1"],
          [Plain EXCEPT !.protocol = "http", !.path = "login", !.dst = "in3"],
          [Plain EXCEPT !.protocol = "http", !.path = "index"],
          [Plain EXCEPT !.protocol = "udp", !.dst = "out1", !.length = 2],
          [Plain EXCEPT !.protocol = "udp", !.dst = "out2"],
          [Plain EXCEPT !.protocol = "udp", !.src = None],
          [Plain EXCEPT !.protocol = "icmp"],
          [Plain EXCEPT !.protocol = "arp"],
          [Plain EXCEPT !.protocol = "dns", !.query = <<"x9q", "evil", "com">>],
          [Plain EXCEPT !.protocol = "dns", !.query = <<"www", "site", "com">>],
          [Plain EXCEPT !.protocol = "dns", !.query = <<"x9q", "cdn", "co", "uk">>]}

SampleThreshold ==
    [d \in {"SynFlood", "UdpFlood", "IcmpFlood", "ArpSpoofing", "SshBruteForce", "HttpBruteForce",
            "DataExfiltration", "TcpPortScan", "SynScan", "LateralMovement", "SuspiciousPort",
            "Beaconing", "DnsTunneling"} |-> IF d \in {"Beaconing", "DnsTunneling"} THEN 3 ELSE 2]

----------------------------------------------------------------------------
(* Values are typed; a pattern is the set of values it is found in.        *)
Value(type, is) == [type |-> type, is |-> is]
Wanted(type, is, found) == [type |-> type, is |-> is, matches |-> found, compiles |-> found # {0}]
Path(name) == [name |-> name, private |-> FALSE]
Hidden == [name |-> "_raw", private |-> TRUE]

ParsedPackets ==
    {[src |-> Value("str", 1), dport |-> Value("int", 2), path |-> Value("str", 2)],
     [src |-> Value("str", 1), dport |-> Value("int", 1)],
     [src |-> Value("str", 2)],
     [dport |-> Value("int", 2)]}

Conditions ==
    [field : {Path("path"), Path("dport"), Hidden},
     operator : {"equals", "not_equals", "greater_than", "less_than", "regex", "contains"},
     value : {Wanted("str", 2, {1, 2}), Wanted("int", 1, {2}), Wanted("str", 1, {0})}]

SampleRules ==
    {[conditions |-> {c} \cup also, threshold |-> t, window |-> w, enabled |-> TRUE,
      group_by |-> Path("src"), distinct_field |-> distinct] :
       c \in Conditions,
       also \in {{}, {[field |-> Path("dport"), operator |-> "equals",
                       value |-> Wanted("int", 2, {})]}},
       t \in {1, 2}, w \in {0, 1}, distinct \in {None, Path("dport")}}

SampleLongSuffixes == {<<"co", "uk">>}
SampleEncoded == {<<"x9q", "evil", "com">>, <<"x9q", "cdn", "co", "uk">>}
SampleAllowedDomains == {<<"cdn", "co", "uk">>}
=============================================================================
