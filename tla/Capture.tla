------------------------------- MODULE Capture -------------------------------
(***************************************************************************)
(* A packet on its way in: the sniffer thread and a replay feed the same   *)
(* callback, which asks the token bucket, then the protocol filter, counts *)
(* the packet and hands it to the parser; a sampler turns the counter into *)
(* a rate.  Time passes in ticks; tokens are counted in ticks as well, one *)
(* packet being worth a second of them.                                    *)
(***************************************************************************)
EXTENDS PacketParsing

CONSTANTS
    Frames,         \* frames a feeder may hand in
    Filters,        \* protocol filters that may be set
    Feeders,        \* threads that deliver packets
    Rate,           \* max_packets_per_second, 0 for no limit
    Burst,          \* tokens the bucket holds, 0 for as many as the rate
    Second,         \* ticks in a second
    MaxClock, MaxFrames    \* bounds: ticks, and frames handed in

ASSUME CaptureAssumption ==
    /\ Rate \in Nat /\ Burst \in Nat /\ Second \in Nat \ {0}
    /\ MaxClock \in Nat /\ MaxFrames \in Nat
    /\ None \notin Frames

(* CaptureRateLimiter.__init__.                                            *)
Capacity == Second * (IF Burst > 0 THEN Burst ELSE IF Rate > 1 THEN Rate ELSE 1)
Unset == -1       \* _last_packets and _last_time before the first sample

VARIABLES
    clock,       \* time.monotonic()
    tokens,      \* _tokens
    refilled,    \* _last_refill
    dropped,     \* the limiter's _dropped
    filter,      \* _protocol_filter
    at,          \* where each feeder is in _on_packet
    frame,       \* the frame it has in hand
    captured,    \* _packets_captured
    filtered,    \* _packets_dropped_filter
    seen,        \* history: frames handed in
    mark,        \* history: an instant somebody began to count at, and
    admitted,    \* history: the packets admitted since
    status,      \* the counter the recorder has read and not yet sampled
    lastPackets, \* StatisticsSampler._last_packets
    lastTime,    \* StatisticsSampler._last_time
    baseline,    \* history: the counter at the first sample since a reset
    told         \* history: packets the recorded rates account for

bucket == <<tokens, refilled, dropped>>
feeding == <<at, frame, captured, filtered, seen>>
counting == <<mark, admitted>>
sampling == <<status, lastPackets, lastTime, baseline, told>>
vars == <<clock, bucket, filter, feeding, counting, sampling>>

Init ==
    /\ clock = 0
    /\ tokens = Capacity /\ refilled = 0 /\ dropped = 0
    /\ filter \in Filters
    /\ at = [f \in Feeders |-> "idle"] /\ frame = [f \in Feeders |-> None]
    /\ captured = 0 /\ filtered = 0 /\ seen = 0
    /\ mark = 0 /\ admitted = 0
    /\ status = Unset /\ lastPackets = Unset /\ lastTime = Unset
    /\ baseline = Unset /\ told = 0

Tick ==
    /\ clock < MaxClock
    /\ clock' = clock + 1
    /\ UNCHANGED <<bucket, filter, feeding, counting, sampling>>

(* Somebody begins to count what is admitted.                              *)
Mark ==
    /\ mark' = clock /\ admitted' = 0
    /\ UNCHANGED <<clock, bucket, filter, feeding, sampling>>

----------------------------------------------------------------------------
(* Mutant: a long silence saves up tokens.                                 *)
RefillUncapped == tokens + (clock - refilled) * Rate

(* _refill: the tokens of the time since the last one, up to the burst.    *)
Refill ==
    LET full == tokens + (clock - refilled) * Rate
    IN  IF full > Capacity THEN Capacity ELSE full

(* acquire: without a rate the bucket is not touched.                      *)
Acquire(f) ==
    /\ at[f] = "idle" /\ seen < MaxFrames
    /\ seen' = seen + 1
    /\ \E p \in Frames :
         IF Rate = 0 \/ Refill >= Second
         THEN /\ at' = [at EXCEPT ![f] = "admitted"]
              /\ frame' = [frame EXCEPT ![f] = p]
              /\ admitted' = admitted + 1
              /\ UNCHANGED dropped
         ELSE /\ dropped' = dropped + 1
              /\ UNCHANGED <<at, frame, admitted>>
    /\ IF Rate = 0
       THEN UNCHANGED <<tokens, refilled>>
       ELSE /\ tokens' = IF Refill >= Second THEN Refill - Second ELSE Refill
            /\ refilled' = clock
    /\ UNCHANGED <<clock, filter, captured, filtered, mark, sampling>>

(* backpressure_active refills as well.                                    *)
AskBackpressure ==
    /\ tokens' = Refill /\ refilled' = clock
    /\ UNCHANGED <<clock, dropped, filter, feeding, counting, sampling>>

(* The filter in force when the packet gets there decides.                 *)
ApplyFilter(f) ==
    /\ at[f] = "admitted"
    /\ IF PassesFilter(frame[f], filter)
       THEN /\ captured' = captured + 1
            /\ at' = [at EXCEPT ![f] = "captured"]
            /\ UNCHANGED <<filtered, frame>>
       ELSE /\ filtered' = filtered + 1
            /\ at' = [at EXCEPT ![f] = "idle"]
            /\ frame' = [frame EXCEPT ![f] = None]
            /\ UNCHANGED captured
    /\ UNCHANGED <<clock, bucket, filter, seen, counting, sampling>>

(* PipelineMixin._on_raw_packet has parsed the packet and passed it on.    *)
Deliver(f) ==
    /\ at[f] = "captured"
    /\ at' = [at EXCEPT ![f] = "idle"] /\ frame' = [frame EXCEPT ![f] = None]
    /\ UNCHANGED <<clock, bucket, filter, captured, filtered, seen, counting, sampling>>

SetProtocolFilter ==
    /\ filter' \in Filters
    /\ UNCHANGED <<clock, bucket, feeding, counting, sampling>>

----------------------------------------------------------------------------
(* record_statistics_snapshot reads the status first, and samples it then. *)
ReadStatus ==
    /\ status = Unset
    /\ status' = captured
    /\ UNCHANGED <<clock, bucket, filter, feeding, counting,
                   lastPackets, lastTime, baseline, told>>

(* Mutant: the first sample of a baseline is told as traffic.              *)
SampleFromZero ==
    /\ status # Unset
    /\ lastPackets' = status /\ lastTime' = clock /\ status' = Unset
    /\ baseline' = IF lastTime = Unset THEN status ELSE baseline
    /\ told' = told + status - (IF lastPackets = Unset THEN 0 ELSE lastPackets)
    /\ UNCHANGED <<clock, bucket, filter, feeding, counting>>

(* sample: no interval, or no time in it, is a rate of nothing; the rate   *)
(* times its interval is the growth of the counter.                        *)
Sample ==
    /\ status # Unset
    /\ lastPackets' = status /\ lastTime' = clock /\ status' = Unset
    /\ baseline' = IF lastTime = Unset THEN status ELSE baseline
    /\ told' = IF lastTime # Unset /\ clock > lastTime /\ status >= lastPackets
               THEN told + status - lastPackets ELSE told
    /\ UNCHANGED <<clock, bucket, filter, feeding, counting>>

(* _start_background forgets the previous sample.                          *)
ResetSampler ==
    /\ lastPackets' = Unset /\ lastTime' = Unset
    /\ baseline' = Unset /\ told' = 0
    /\ UNCHANGED <<clock, bucket, filter, feeding, counting, status>>

Next ==
    \/ Tick \/ Mark \/ AskBackpressure \/ SetProtocolFilter
    \/ \E f \in Feeders : Acquire(f) \/ ApplyFilter(f) \/ Deliver(f)
    \/ ReadStatus \/ Sample \/ ResetSampler

Spec == Init /\ [][Next]_vars

----------------------------------------------------------------------------
TypeOK ==
    /\ clock \in Nat /\ refilled \in 0 .. clock /\ mark \in 0 .. clock
    /\ tokens \in 0 .. Capacity
    /\ seen \in Nat /\ dropped \in Nat /\ captured \in Nat /\ filtered \in Nat
    /\ admitted \in Nat
    /\ filter \in Filters
    /\ at \in [Feeders -> {"idle", "admitted", "captured"}]
    /\ frame \in [Feeders -> Frames \cup {None}]
    /\ status \in Nat \cup {Unset}
    /\ lastPackets \in Nat \cup {Unset} /\ lastTime \in Nat \cup {Unset}
    /\ baseline \in Nat \cup {Unset} /\ told \in Nat

(* "Short bursts up to `burst` tokens while enforcing a long-run average   *)
(* of `rate`": from whichever instant one counts, through any silence, no  *)
(* more packets are admitted than a burst and the rate times the time.     *)
RateBounded == Rate > 0 => Second * admitted <= Capacity + Rate * (clock - mark)

(* The rates on the chart never tell of more packets than the counter has  *)
(* grown by since the sampler's first sample, whatever restarts come       *)
(* between the reading of the counter and the sample.                      *)
RatesAddUp == lastTime # Unset => baseline + told <= lastPackets /\ lastPackets <= captured
=============================================================================
