--------------------------- MODULE BreadthDetector ---------------------------
(***************************************************************************)
(* A breadth detector: distinct peers per source over a sliding window of  *)
(* capture time, reported once per episode.  The capture thread ingests    *)
(* packets while the evaluation thread walks the same dictionaries, with   *)
(* no lock between them: a step here is what either thread does between    *)
(* two places where the interpreter may switch to the other.               *)
(***************************************************************************)
EXTENDS Integers, FiniteSets, Functions

CONSTANTS
    Sources,     \* addresses a packet may come from
    Peers,       \* what a source may reach: ports, hosts
    Threshold,   \* distinct peers at or above which to report
    Window,      \* time_window_seconds
    MaxTime,     \* bound: the latest capture time
    Late         \* bound: how far behind the newest packet one may arrive

ASSUME DetectorAssumption ==
    /\ Threshold \in Nat \ {0} /\ Window \in Nat \ {0}
    /\ MaxTime \in Nat /\ Late \in Nat /\ IsFiniteSet(Peers)

Times == 1 .. MaxTime

Seen == UNION {[P -> Times] : P \in SUBSET Peers}

NoPeers == [p \in {} |-> 0]

VARIABLES
    now,        \* WindowClock._now
    tracked,    \* the keys of SlidingPeers._peers
    peers,      \* the dictionary of each key: peer to last-seen time
    ingest,     \* the packet the capture thread holds, and how far it is
    orphan,     \* whether the dictionary it fetched has been dropped
    reported,   \* EdgeTriggeredMixin._reported
    phase,      \* where the evaluation thread is
    todo,       \* keys its evaluation has still to visit
    key,        \* the key it is visiting
    cutoff,     \* the cutoff read for that key
    size,       \* the size of the dictionary when its scan began
    expired,    \* peers it is about to delete
    live,       \* keys that held a peer
    alerts,     \* sources of the alerts still to be returned and dispatched
    told,       \* history: reported sources whose alert reached the pipeline
    lost,       \* history: reported sources whose alert an abort dropped
    latest,     \* history: the latest packet of each source to each peer,
                \* unless a race or an older packet has undone it
    disturbed   \* history: whether packets came during this evaluation

window == <<now, tracked, peers>>
capture == <<ingest, orphan>>
visit == <<key, cutoff, size, expired>>
cycle == <<todo, live, alerts>>
edge == <<reported, told, lost>>
seen == <<latest, disturbed>>
vars == <<window, capture, visit, cycle, edge, phase, seen>>

Idle == [stage |-> "idle"]

Count(s) == Cardinality(DOMAIN peers[s])

Init ==
    /\ now = 0 /\ tracked = {} /\ peers = [s \in Sources |-> NoPeers]
    /\ ingest = Idle /\ orphan = FALSE
    /\ reported = {} /\ told = {} /\ lost = {}
    /\ phase = "idle" /\ todo = {} /\ live = {} /\ alerts = {}
    /\ key \in Sources /\ cutoff = 0 /\ size = 0 /\ expired = {}
    /\ latest = [s \in Sources |-> [p \in Peers |-> 0]]
    /\ disturbed = FALSE

----------------------------------------------------------------------------
(* The capture thread: ingest() of a packet that counts.                   *)

(* record(): the clock moves to the packet's time, if it is newer.         *)
Advance ==
    /\ ingest = Idle
    /\ \E s \in Sources, p \in Peers, t \in Times :
         /\ t >= now - Late
         /\ now' = IF t > now THEN t ELSE now
         /\ ingest' = [stage |-> "fetch", src |-> s, peer |-> p, time |-> t]
         /\ latest' = [latest EXCEPT ![s][p] = IF t > @ THEN t ELSE @]
    /\ disturbed' = (phase # "idle")
    /\ UNCHANGED <<tracked, peers, orphan, visit, cycle, edge, phase>>

(* The defaultdict returns the key's dictionary, or makes one.             *)
Fetch ==
    /\ ingest.stage = "fetch"
    /\ tracked' = tracked \cup {ingest.src}
    /\ ingest' = [ingest EXCEPT !.stage = "store"]
    /\ orphan' = FALSE
    /\ UNCHANGED <<now, peers, visit, cycle, edge, phase, seen>>

(* The peer's last-seen time is set in the dictionary fetched.             *)
SetSeen ==
    /\ ingest.stage = "store"
    /\ peers' = IF orphan THEN peers
                ELSE [peers EXCEPT ![ingest.src] =
                        [p \in DOMAIN @ \cup {ingest.peer} |->
                            IF p = ingest.peer THEN ingest.time ELSE @[p]]]
    /\ latest' = [latest EXCEPT ![ingest.src][ingest.peer] =
                    IF orphan THEN 0 ELSE ingest.time]
    /\ ingest' = Idle
    /\ orphan' = FALSE
    /\ UNCHANGED <<now, tracked, visit, cycle, edge, phase, disturbed>>

----------------------------------------------------------------------------
(* The evaluation thread: evaluate_detectors() around evaluate().          *)

Begin ==
    /\ phase = "idle"
    /\ phase' = "visit"
    /\ todo' = tracked
    /\ disturbed' = (ingest # Idle)
    /\ UNCHANGED <<window, capture, visit, live, alerts, edge, latest>>

(* live(key): the cutoff is read, and the iteration over items() begins.   *)
Visit ==
    /\ phase = "visit"
    /\ \E s \in todo :
         /\ key' = s
         /\ todo' = todo \ {s}
         /\ size' = Count(s)
    /\ cutoff' = now - Window
    /\ phase' = "scan"
    /\ UNCHANGED <<window, capture, expired, live, alerts, edge, seen>>

(* An evaluation that raises is logged, and all it had found is dropped.   *)
Abort ==
    /\ phase' = "idle"
    /\ alerts' = {} /\ lost' = lost \cup alerts
    /\ todo' = {} /\ live' = {}

(* The iteration ends with the peers last seen at or before the cutoff, or *)
(* finds that the dictionary has changed size.                             *)
Scan ==
    /\ phase = "scan"
    /\ \/ /\ Count(key) # size
          /\ Abort
          /\ UNCHANGED expired
       \/ /\ Count(key) = size
          /\ expired' = {p \in DOMAIN peers[key] : peers[key][p] <= cutoff}
          /\ phase' = "expire"
          /\ UNCHANGED <<cycle, lost>>
    /\ size' = 0
    /\ UNCHANGED <<window, capture, key, cutoff, reported, told, seen>>

(* One of them is deleted, even when it was contacted after the scan.      *)
Expire ==
    /\ phase = "expire"
    /\ \E p \in expired :
         /\ peers' = [peers EXCEPT ![key] = Restrict(@, DOMAIN @ \ {p})]
         /\ expired' = expired \ {p}
         /\ latest' = IF peers[key][p] > cutoff
                      THEN [latest EXCEPT ![key][p] = 0] ELSE latest
    /\ UNCHANGED <<now, tracked, capture, key, cutoff, size, cycle, edge, phase,
                   disturbed>>

(* Is the dictionary empty now?                                            *)
Expired ==
    /\ phase = "expire" /\ expired = {}
    /\ phase' = IF Count(key) = 0 THEN "drop" ELSE "report"
    /\ UNCHANGED <<window, capture, visit, cycle, edge, seen>>

(* del self._peers[key].                                                   *)
Drop ==
    /\ phase = "drop"
    /\ tracked' = tracked \ {key}
    /\ peers' = [peers EXCEPT ![key] = NoPeers]
    /\ orphan' = (orphan \/ (ingest.stage = "store" /\ ingest.src = key))
    /\ latest' = [latest EXCEPT ![key] =
                    [p \in Peers |-> IF p \in DOMAIN peers[key] THEN 0 ELSE @[p]]]
    /\ cutoff' = 0
    /\ phase' = "visit"
    /\ UNCHANGED <<now, ingest, key, size, expired, cycle, edge, disturbed>>

(* Mutant: one peer too few is enough.                                     *)
ReportEarly ==
    /\ phase = "report"
    /\ live' = live \cup {key}
    /\ phase' = "visit"
    /\ IF Count(key) + 1 < Threshold
       THEN /\ reported' = reported \ {key}
            /\ told' = told \ {key} /\ lost' = lost \ {key}
            /\ UNCHANGED alerts
       ELSE /\ reported' = reported \cup {key}
            /\ alerts' = IF key \in reported THEN alerts ELSE alerts \cup {key}
            /\ UNCHANGED <<told, lost>>
    /\ cutoff' = 0
    /\ UNCHANGED <<window, capture, key, size, expired, todo, seen>>

(* Mutant: the threshold itself is not enough.                             *)
ReportLate ==
    /\ phase = "report"
    /\ live' = live \cup {key}
    /\ phase' = "visit"
    /\ IF Count(key) <= Threshold
       THEN /\ reported' = reported \ {key}
            /\ told' = told \ {key} /\ lost' = lost \ {key}
            /\ UNCHANGED alerts
       ELSE /\ reported' = reported \cup {key}
            /\ alerts' = IF key \in reported THEN alerts ELSE alerts \cup {key}
            /\ UNCHANGED <<told, lost>>
    /\ cutoff' = 0
    /\ UNCHANGED <<window, capture, key, size, expired, todo, seen>>

(* report_once(key, count >= threshold).                                   *)
Report ==
    /\ phase = "report"
    /\ live' = live \cup {key}
    /\ phase' = "visit"
    /\ IF Count(key) < Threshold
       THEN /\ reported' = reported \ {key}
            /\ told' = told \ {key} /\ lost' = lost \ {key}
            /\ UNCHANGED alerts
       ELSE /\ reported' = reported \cup {key}
            /\ alerts' = IF key \in reported THEN alerts ELSE alerts \cup {key}
            /\ UNCHANGED <<told, lost>>
    /\ cutoff' = 0
    /\ UNCHANGED <<window, capture, key, size, expired, todo, seen>>

(* forget_absent(live), and evaluate() returns its alerts.                 *)
Return ==
    /\ phase = "visit" /\ todo = {}
    /\ reported' = reported \cap live
    /\ told' = told \cap live /\ lost' = lost \cap live
    /\ live' = {}
    /\ phase' = "dispatch"
    /\ UNCHANGED <<window, capture, visit, todo, alerts, seen>>

(* The callback is called for one alert after the other, outside the try   *)
(* of evaluate_detectors: what it raises ends the cycle.                   *)
Dispatch ==
    /\ phase = "dispatch"
    /\ \/ \E s \in alerts :
            /\ alerts' = alerts \ {s}
            /\ told' = told \cup {s}
            /\ UNCHANGED <<phase, todo, live, lost>>
       \/ alerts # {} /\ Abort /\ UNCHANGED told
       \/ alerts = {} /\ phase' = "idle" /\ UNCHANGED <<cycle, told, lost>>
    /\ UNCHANGED <<window, capture, visit, reported, seen>>

Ingest == Advance \/ Fetch \/ SetSeen

Evaluate ==
    \/ Begin \/ Visit \/ Scan \/ Expire \/ Expired \/ Drop \/ Report
    \/ Return \/ Dispatch

Next == Ingest \/ Evaluate

Spec == Init /\ [][Next]_vars

(* The capture thread finishes the packet it holds, and the evaluation     *)
(* loop keeps asking.                                                      *)
FairSpec == Spec /\ WF_vars(Fetch \/ SetSeen) /\ WF_vars(Evaluate)

----------------------------------------------------------------------------
Labels == {"idle", "visit", "scan", "expire", "drop", "report", "dispatch"}

TypeOK ==
    /\ now \in 0 .. MaxTime
    /\ tracked \subseteq Sources
    /\ peers \in [Sources -> Seen]
    /\ \A s \in Sources \ tracked : peers[s] = NoPeers
    /\ ingest = Idle \/ ingest \in [stage : {"fetch", "store"}, src : Sources, peer : Peers, time : Times]
    /\ orphan \in BOOLEAN
    /\ reported \subseteq Sources /\ told \cup lost \subseteq reported
    /\ phase \in Labels
    /\ key \in Sources /\ cutoff \in Int /\ expired \subseteq Peers
    /\ latest \in [Sources -> [Peers -> 0 .. MaxTime]]
    /\ todo \cup live \cup alerts \subseteq Sources
    /\ disturbed \in BOOLEAN

(* The peers of s contacted inside the window.                             *)
Contacted(s, since) ==
    {p \in Peers : latest[s][p] > since /\ latest[s][p] # 0}

(* A source is reported only for at least Threshold distinct peers that it *)
(* reached inside the window whose cutoff the evaluation read; a packet    *)
(* that comes during the evaluation may lie before it by its lateness.     *)
AlertsAreEarned ==
    [][\A s \in alerts' \ alerts :
         Cardinality(Contacted(s, IF disturbed THEN cutoff - Late ELSE cutoff))
             >= Threshold]_vars

(* A source with as many peers inside the window as it takes.              *)
Over(s) == Cardinality(Contacted(s, now - Window)) >= Threshold

(* A source over its threshold for good, no contact of it lost, is told    *)
(* of, however packets race the evaluations, unless one that raised has    *)
(* dropped its alert.                                                      *)
SustainedIsTold ==
    \A s \in Sources : <>[]Over(s) => <>[](s \in told \cup lost)
=============================================================================
