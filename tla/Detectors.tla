------------------------------ MODULE Detectors ------------------------------
(***************************************************************************)
(* The heuristic detectors one by one: which packets each counts, for      *)
(* whom, in which of the three sliding windows, and when it raises.  The   *)
(* windows expire by capture time, which the newest packet sets, and a     *)
(* packet may arrive late.  Ingest and evaluate are taken as one step      *)
(* each; BreadthDetector has their races.                                  *)
(***************************************************************************)
EXTENDS PacketParsing, SequencesExt

CONSTANTS
    Packets,        \* parsed packets, apart from their times
    Internal,       \* addresses inside INTERNAL_NETWORKS
    Allowed,        \* DataExfiltrationConfig.allowed_destinations
    AllowedDomains, \* DnsTunnelingConfig.allowed_domains
    LongSuffixes,   \* MULTI_LABEL_SUFFIXES
    Encoded,        \* names with an entropy over entropy_threshold
    AuthPaths,      \* paths with one of AUTH_PATH_MARKERS in them
    SshPort, SuspiciousPorts,
    Threshold,      \* the threshold of each detector's configuration
    Window, Bucket, \* ticks in time_window_seconds, and in 1/BUCKET_COUNT of it
    MaxTime, MaxPackets, MaxLate    \* bounds: packetTime, packets, lateness

Times == 0 .. MaxTime

(* A domain name is the sequence of its labels.                            *)
RegisteredDomain(name) ==
    LET n == Len(name)
        last(k) == SubSeq(name, n - k + 1, n)
    IN  IF n < 2 THEN name
        ELSE IF n > 2 /\ last(2) \in LongSuffixes THEN last(3) ELSE last(2)

IsAllowlisted(name, allowed) ==
    name # <<>> /\ RegisteredDomain(name) \in {RegisteredDomain(a) : a \in allowed}

IsInternal(ip) == ip \in Internal

----------------------------------------------------------------------------
(* Each detector: the packets it counts, the party it counts them for, the *)
(* window it keeps and the threshold its configuration sets.               *)
Syn(p) == p.protocol = "tcp" /\ "syn" \in p.flags
Known(p) == p.src # None /\ p.dst # None

(* counts() looks at the SYN flag alone: a SYN-ACK is counted too.         *)
SynFlood ==
    [counts |-> {p \in Packets : Syn(p)},
     key |-> "dst", window |-> "counter", threshold |-> Threshold["SynFlood"]]

UdpFlood ==
    [counts |-> {p \in Packets : p.protocol = "udp"},
     key |-> "dst", window |-> "counter", threshold |-> Threshold["UdpFlood"]]

IcmpFlood ==
    [counts |-> {p \in Packets : p.protocol = "icmp"},
     key |-> "dst", window |-> "counter", threshold |-> Threshold["IcmpFlood"]]

ArpSpoofing ==
    [counts |-> {p \in Packets : p.protocol = "arp"},
     key |-> "src", window |-> "counter", threshold |-> Threshold["ArpSpoofing"]]

SshBruteForce ==
    [counts |-> {p \in Packets : Syn(p) /\ p.dport = SshPort /\ "ack" \notin p.flags},
     key |-> "src", window |-> "counter", threshold |-> Threshold["SshBruteForce"]]

HttpBruteForce ==
    [counts |-> {p \in Packets : p.protocol = "http" /\ p.path \in AuthPaths},
     key |-> "src", window |-> "counter", threshold |-> Threshold["HttpBruteForce"]]

DataExfiltration ==
    [counts |-> {p \in Packets : Known(p) /\ ~IsInternal(p.dst) /\ p.dst \notin Allowed},
     key |-> "src", window |-> "counter", threshold |-> Threshold["DataExfiltration"]]

TcpPortScan ==
    [counts |-> {p \in Packets : p.protocol = "tcp" /\ p.dport # NoPort},
     key |-> "src", window |-> "peers", threshold |-> Threshold["TcpPortScan"]]

SynScan ==
    [TcpPortScan EXCEPT !.counts = {p \in @ : Syn(p) /\ "ack" \notin p.flags},
                        !.threshold = Threshold["SynScan"]]

LateralMovement ==
    [counts |-> {p \in Packets : Known(p) /\ IsInternal(p.src) /\ IsInternal(p.dst)},
     key |-> "src", window |-> "peers", threshold |-> Threshold["LateralMovement"]]

SuspiciousPort ==
    [counts |-> {p \in Packets : Known(p) /\ p.dport \in SuspiciousPorts},
     key |-> "src", window |-> "peers", threshold |-> 1]

Beaconing ==
    [counts |-> {p \in Packets : Known(p) /\ p.protocol \in {"tcp", "http", "tls"}},
     key |-> "pair", window |-> "times", threshold |-> Threshold["Beaconing"]]

DnsTunneling ==
    [counts |-> {p \in Packets : /\ p.protocol = "dns" /\ p.query # <<>>
                                 /\ ~IsAllowlisted(p.query, AllowedDomains)},
     key |-> "src", window |-> "counter", threshold |-> Threshold["DnsTunneling"]]

Registry ==
    [SynFlood |-> SynFlood, UdpFlood |-> UdpFlood, IcmpFlood |-> IcmpFlood,
     ArpSpoofing |-> ArpSpoofing, SshBruteForce |-> SshBruteForce,
     HttpBruteForce |-> HttpBruteForce, DataExfiltration |-> DataExfiltration,
     TcpPortScan |-> TcpPortScan, SynScan |-> SynScan, LateralMovement |-> LateralMovement,
     SuspiciousPort |-> SuspiciousPort, Beaconing |-> Beaconing, DnsTunneling |-> DnsTunneling]

Names == DOMAIN Registry

ASSUME DetectorsAssumption ==
    /\ \A p \in Packets : p.length \in Nat
    /\ Threshold \in [Names -> Nat]
    /\ Window \in Nat \ {0} /\ Bucket \in 1 .. Window
    /\ MaxTime \in Nat /\ MaxPackets \in Nat /\ MaxLate \in Nat

(* What a packet is counted under, or nothing when the party is missing,   *)
(* what it reached, and how much it counts for.                            *)
Key(d, p) ==
    LET named == [src |-> <<p.src>>, dst |-> <<p.dst>>, pair |-> <<p.src, p.dst>>]
    IN  named[Registry[d].key]

Peer(d, p) ==
    IF d = "LateralMovement" THEN <<p.dst>>
    ELSE IF d = "SuspiciousPort" THEN <<p.dst, p.dport>> ELSE <<p.dport>>

Amount(d, p) == IF d = "DataExfiltration" THEN p.length ELSE 1

VARIABLES
    detector,   \* the detector under test
    packetTime,      \* WindowClock._now of its window
    window,     \* entries by key: sequences of buckets or timestamps, or by peer
    encodedAt,  \* the packetTime and the buckets of DnsTunneling's second counter
    encoded,
    reported,   \* EdgeTriggeredMixin._reported
    alerts,     \* history: the keys the last evaluation raised
    log,        \* history: the observations recorded, in order of arrival
    parted      \* history: whether the two DNS clocks have been apart

Keys == {Key(detector, p) : p \in Registry[detector].counts}

detecting == <<detector, packetTime, window, encodedAt, encoded, reported, alerts, log, parted>>

DetectorsInit ==
    /\ detector \in Names
    /\ packetTime = 0 /\ window = [k \in Keys |-> <<>>]
    /\ encodedAt = 0 /\ encoded = [k \in Keys |-> <<>>]
    /\ reported = {} /\ alerts = {} /\ log = <<>> /\ parted = FALSE

----------------------------------------------------------------------------
Advance(now, at) == IF at > now THEN at ELSE now

(* SlidingCounter.record adds to the youngest bucket if it is the one of   *)
(* the packet's time, and else opens one behind it, whatever its age.      *)
Tally(buckets, at, amount) ==
    LET start == at - (at % Bucket)
        n == Len(buckets)
    IN  IF n > 0 /\ buckets[n].at = start
        THEN [buckets EXCEPT ![n].n = @ + amount]
        ELSE Append(buckets, [at |-> start, n |-> amount])

(* SlidingTimestamps.record.                                               *)
Stamp(times, at) == Append(times, [at |-> at, n |-> 1])

(* SlidingPeers.record: the last arrival sets the time of a peer.          *)
Contact(peers, peer, at) ==
    [q \in DOMAIN peers \cup {peer} |-> IF q = peer THEN [at |-> at, n |-> 1] ELSE peers[q]]

(* Mutant: the head is kept with the bucket that has left the window.      *)
FromHeadLate(entries, cutoff) ==
    LET young == {i \in DOMAIN entries : entries[i].at > cutoff}
    IN  IF young = {} THEN <<>> ELSE SubSeq(entries, Max({1, Min(young) - 1}), Len(entries))

(* Expiry: the first two pop from the head, the third looks at every peer. *)
FromHead(entries, cutoff) ==
    LET young == {i \in DOMAIN entries : entries[i].at > cutoff}
    IN  IF young = {} THEN <<>> ELSE SubSeq(entries, Min(young), Len(entries))

Total(buckets, now) == FromHead(buckets, now - Window - Bucket)
Stamps(times, now) == FromHead(times, now - Window)
LivePeers(peers, now) == Restrict(peers, {q \in DOMAIN peers : peers[q].at > now - Window})

Live(d, entries, now) ==
    IF Registry[d].window = "counter" THEN Total(entries, now)
    ELSE IF Registry[d].window = "times" THEN Stamps(entries, now) ELSE LivePeers(entries, now)

Weights(entries) == [i \in DOMAIN entries |-> entries[i].n]
Sum(entries) == SumFunction(Weights(entries))

(* BeaconingDetector._mean_interval, in integers: the intervals are        *)
(* regular when their deviation is at most a tenth of their mean.          *)
Regular(entries) ==
    LET times == SortSeq(entries, LAMBDA a, b : a.at < b.at)
        n == Len(times) - 1
        gap == [i \in 1 .. n |-> times[i + 1].at - times[i].at]
        sum == SumFunction(gap)
        squares == SumFunction([i \in 1 .. n |-> gap[i] * gap[i]])
    IN  /\ Len(entries) >= Beaconing.threshold
        /\ n > 0 /\ sum > 0
        /\ (n * squares - sum * sum) * 100 <= sum * sum

(* Mutant: the volume of the queries is enough.                            *)
OverBusy(d, entries, hidden) ==
    CASE d = "Beaconing" -> Regular(entries)
      [] d = "SuspiciousPort" -> DOMAIN entries # {}
      [] OTHER -> Sum(entries) >= Registry[d].threshold

Over(d, entries, hidden) ==
    CASE d = "Beaconing" -> Regular(entries)
      [] d = "SuspiciousPort" -> DOMAIN entries # {}
      [] d = "DnsTunneling" -> Sum(entries) >= Registry[d].threshold /\ 2 * Sum(hidden) > Sum(entries)
      [] OTHER -> Sum(entries) >= Registry[d].threshold

----------------------------------------------------------------------------
(* DetectionService.process_packet for this detector: BaseDetector.ingest. *)
Record(p, at) ==
    LET d == detector
        key == Key(d, p)
        kind == Registry[d].window
        hides == d = "DnsTunneling" /\ p.query \in Encoded
    IN  /\ p \in Registry[d].counts /\ None \notin ToSet(key)
        /\ packetTime' = Advance(packetTime, at)
        /\ window' = [window EXCEPT ![key] =
              IF kind = "counter" THEN Tally(@, at, Amount(d, p))
              ELSE IF kind = "times" THEN Stamp(@, at) ELSE Contact(@, Peer(d, p), at)]
        /\ encodedAt' = IF hides THEN Advance(encodedAt, at) ELSE encodedAt
        /\ encoded' = IF hides THEN [encoded EXCEPT ![key] = Tally(@, at, 1)] ELSE encoded
        /\ log' = Append(log, [key |-> key, at |-> at, n |-> Amount(d, p),
                               peer |-> Peer(d, p), hides |-> hides,
                               answers |-> "ack" \in p.flags])
        /\ parted' = (parted \/ (d = "DnsTunneling" /\ encodedAt' # packetTime'))
        /\ alerts' = {}
        /\ UNCHANGED <<detector, reported>>

Ingest ==
    /\ Len(log) < MaxPackets
    /\ \E p \in Packets, at \in Times : at >= packetTime - MaxLate /\ Record(p, at)

(* What report_once and forget_absent are asked about: the keys, or for    *)
(* SuspiciousPort each endpoint of a key.                                  *)
Subjects(live) ==
    IF detector = "SuspiciousPort"
    THEN UNION {{k \o peer : peer \in DOMAIN live[k]} : k \in Keys}
    ELSE {k \in Keys : DOMAIN live[k] # {}}

Evaluate ==
    LET live == [k \in Keys |-> Live(detector, window[k], packetTime)]
        hidden == [k \in Keys |-> IF DOMAIN live[k] = {} THEN encoded[k] ELSE Total(encoded[k], encodedAt)]
        over == IF detector = "SuspiciousPort" THEN Subjects(live)
                ELSE {k \in Subjects(live) : Over(detector, live[k], hidden[k])}
    IN  /\ window' = live
        /\ encoded' = hidden
        /\ alerts' = over \ reported
        /\ reported' = over
        /\ UNCHANGED <<detector, packetTime, encodedAt, log, parted>>

DetectorsNext == Ingest \/ Evaluate

----------------------------------------------------------------------------
(* What the observations after an instant measure, for one key.            *)
Since(k, instant) ==
    LET seen == {i \in DOMAIN log : log[i].key = k /\ log[i].at > instant}
    IN  IF Registry[detector].window = "peers" THEN Cardinality({log[i].peer : i \in seen})
        ELSE SumFunctionOnSet(Weights(log), seen)

(* Every detector measures what its window promises: all that happened in  *)
(* the window, and nothing that left it more than a bucket and the         *)
(* lateness of a packet before.  A late packet makes a peer look older.    *)
MeasuresTheWindow ==
    LET early == IF Registry[detector].window = "peers" THEN MaxLate ELSE 0
    IN  \A k \in Keys :
          LET measured == Sum(Live(detector, window[k], packetTime))
          IN  /\ Since(k, packetTime - Window + early) <= measured
              /\ measured <= Since(k, packetTime - Window - Bucket - MaxLate)

(* "a hundred SYN packets to one destination", "fifteen ports": an alert   *)
(* is about a party that recent packets of the detector's own kind name,   *)
(* as often as the configuration says, and a DNS alert about one whose     *)
(* encoded queries are the majority, while the two clocks stay in step.    *)
(* Of the SYN flood detector's own kind is every packet with SYN set.      *)
AlertsAreBacked ==
    \A k \in alerts :
      LET party == IF detector = "SuspiciousPort" THEN SubSeq(k, 1, 1) ELSE k
          recent == {i \in DOMAIN log : /\ log[i].key = party
                                        /\ log[i].at > packetTime - Window - Bucket - MaxLate}
      IN  /\ detector \notin {"SuspiciousPort", "Beaconing"} =>
               Since(party, packetTime - Window - Bucket - MaxLate) >= Threshold[detector]
          /\ detector = "SuspiciousPort" =>
               \E i \in recent : log[i].peer = SubSeq(k, 2, 3)
          /\ detector = "Beaconing" =>
               Cardinality(recent) >= Threshold[detector]
          /\ detector = "DnsTunneling" /\ ~parted =>
               2 * Cardinality({i \in recent : log[i].hides}) >= Threshold[detector]

(* "Counts bare SYNs only. A SYN-ACK is a server answering": an alert of a *)
(* SYN flood has its threshold of SYNs that open a connection.             *)
BareSynsOnly ==
    detector = "SynFlood" =>
      \A k \in alerts :
        Cardinality({i \in DOMAIN log : log[i].key = k /\ ~log[i].answers}) >= Threshold["SynFlood"]

(* "They advance on the same packets, so their clocks stay in step, and    *)
(* the ratio is read from the same instant in both": the encoded queries   *)
(* of a source are among its queries.                                      *)
ReadAtOneInstant ==
    \A k \in Keys : Sum(Total(encoded[k], encodedAt)) <= Sum(Live(detector, window[k], packetTime))
=============================================================================
