------------------------------ MODULE LiveFeed ------------------------------
(***************************************************************************)
(* The live feed of the API process: one LiveBroadcaster task polls the    *)
(* database the sensor writes and fans new alerts out to the dashboards;   *)
(* each WebSocket handler sends its own client a snapshot first.  All of   *)
(* it runs on one event loop, so a step here is what happens between two   *)
(* awaits; the sensor commits alerts at any time.                          *)
(*                                                                         *)
(* Alert i is the i-th the sensor commits.  Its threads commit             *)
(* independently, and two rules stamp the alerts of one packet alike, so   *)
(* stamps[i] has no part in that order and may be that of others.          *)
(***************************************************************************)
EXTENDS Naturals, Sequences, FiniteSets, FiniteSetsExt, SequencesExt

CONSTANTS
    Clients,     \* connections of dashboards, each made once
    MaxAlerts,   \* bound: alerts the sensor saves
    MaxStamp,    \* bound: timestamps, from 1
    Started,     \* the timestamp of the moment the broadcaster started
    PollLimit    \* LIVE_RECENT_ALERT_LIMIT

ASSUME FeedAssumption ==
    /\ MaxAlerts \in Nat /\ MaxStamp \in Nat /\ Started \in Nat
    /\ PollLimit \in Nat \ {0}

ASSUME FiniteClients == IsFiniteSet(Clients)

VARIABLES
    stamps,      \* the timestamps of the alerts the database holds
    watermark,   \* _watermark
    poll,        \* where the task is: "sleep", "query", "resume", "send", "stats"
    fresh,       \* the alerts the query, then the frame, holds: newest first
    targets,     \* clients the frame still goes to
    dead,        \* clients this broadcast found unreachable
    registered,  \* the ConnectionManager's _clients
    handler,     \* where each live_feed handler is
    gone,        \* clients whose browser is no longer there
    deltas,      \* history: the alerts of the delta frames sent to each
    known,       \* history: the alerts committed when each connected
    late,        \* history: alerts committed after a poll read past their stamp
    cut          \* history: new alerts the limit of a query left out

poller == <<watermark, poll, fresh, targets, dead, cut>>
sensor == <<stamps, late>>
client == <<handler, gone, deltas, known>>
feed == <<sensor, poller, registered, client>>

committed == DOMAIN stamps

(* What a query may answer for the newest n of a set of alerts: they are   *)
(* ordered by timestamp alone, so the database chooses among equals.       *)
NewestFirst(alerts, n) ==
    LET places == 1 .. Min({n, Cardinality(alerts)}) IN
    {list \in [places -> alerts] :
        /\ \A l, m \in places :
             l < m => list[l] # list[m] /\ stamps[list[l]] >= stamps[list[m]]
        /\ \A i \in alerts \ ToSet(list), m \in places : stamps[list[m]] >= stamps[i]}

----------------------------------------------------------------------------
FeedInit ==
    /\ stamps = <<>>
    /\ watermark = Started
    /\ poll = "sleep" /\ fresh = <<>> /\ targets = {} /\ dead = {}
    /\ registered = {}
    /\ handler = [c \in Clients |-> "new"]
    /\ gone = {}
    /\ deltas = [c \in Clients |-> <<>>]
    /\ known = [c \in Clients |-> {}]
    /\ late = {} /\ cut = {}

(* A poll has read past a stamp when an alert of that stamp or a later one *)
(* is behind its watermark or in its answer.                               *)
ReadPast(t) == t <= watermark \/ \E i \in ToSet(fresh) : t <= stamps[i]

(* The sensor saves an alert.                                              *)
AlertSaved ==
    /\ Len(stamps) < MaxAlerts
    /\ \E t \in 1 .. MaxStamp :
         /\ stamps' = Append(stamps, t)
         /\ late' = IF ReadPast(t) THEN late \cup {Len(stamps')} ELSE late
    /\ UNCHANGED <<poller, registered, client>>

(* live_feed: connect() registers the socket, and nothing is awaited       *)
(* between that and the queries of snapshot(), which hold what the         *)
(* database holds now.                                                     *)
Connect(c) ==
    /\ handler[c] = "new"
    /\ handler' = [handler EXCEPT ![c] = "stats"]
    /\ registered' = registered \cup {c}
    /\ known' = [known EXCEPT ![c] = committed]
    /\ UNCHANGED <<sensor, poller, gone, deltas>>

(* A send that raises ends the handler, whose finally disconnects.         *)
Disconnect(c) ==
    /\ handler' = [handler EXCEPT ![c] = "closed"]
    /\ registered' = registered \ {c}

SendStats(c) ==
    /\ handler[c] = "stats"
    /\ IF c \in gone
       THEN Disconnect(c)
       ELSE handler' = [handler EXCEPT ![c] = "initial"] /\ UNCHANGED registered
    /\ UNCHANGED <<sensor, poller, gone, deltas, known>>

(* The frame marked `initial`.                                             *)
SendInitial(c) ==
    /\ handler[c] = "initial"
    /\ IF c \in gone
       THEN Disconnect(c)
       ELSE handler' = [handler EXCEPT ![c] = "receiving"] /\ UNCHANGED registered
    /\ UNCHANGED <<sensor, poller, gone, deltas, known>>

(* receive_text reports the disconnection.                                 *)
NoticeGone(c) ==
    /\ handler[c] = "receiving" /\ c \in gone
    /\ Disconnect(c)
    /\ UNCHANGED <<sensor, poller, gone, deltas, known>>

(* A laptop lid closes: the server learns of it by a send or the receive.  *)
Vanish(c) ==
    /\ handler[c] \notin {"new", "closed"} /\ c \notin gone
    /\ gone' = gone \cup {c}
    /\ deltas' = [deltas EXCEPT ![c] = <<>>]
    /\ known' = [known EXCEPT ![c] = {}]
    /\ UNCHANGED <<sensor, poller, registered, handler>>

(* _run: a cycle with nobody connected does nothing.                       *)
PollBegin ==
    /\ poll = "sleep"
    /\ registered # {}
    /\ poll' = "query"
    /\ UNCHANGED <<sensor, watermark, fresh, targets, dead, cut, registered, client>>

(* Mutant: a failing query ends the task.                                  *)
PollQueryOrDie ==
    /\ poll = "query"
    /\ \/ LET found == {i \in committed : stamps[i] >= watermark}
          IN /\ \E list \in NewestFirst(found, PollLimit) :
                  /\ fresh' = list
                  /\ cut' = cut \cup {i \in found \ ToSet(list) : stamps[i] > watermark}
             /\ poll' = "resume"
       \/ poll' = "ended" /\ UNCHANGED <<fresh, cut>>
    /\ UNCHANGED <<sensor, watermark, targets, dead, registered, client>>

(* list_alerts(since, limit) in a worker thread: newest first, so the      *)
(* limit cuts off the oldest.  A failing query ends the cycle.             *)
PollQuery ==
    /\ poll = "query"
    /\ \/ LET found == {i \in committed : stamps[i] >= watermark}
          IN /\ \E list \in NewestFirst(found, PollLimit) :
                  /\ fresh' = list
                  /\ cut' = cut \cup {i \in found \ ToSet(list) : stamps[i] > watermark}
             /\ poll' = "resume"
       \/ poll' = "sleep" /\ UNCHANGED <<fresh, cut>>
    /\ UNCHANGED <<sensor, watermark, targets, dead, registered, client>>

(* Mutant: the watermark moves to the newest alert of the database.        *)
PollResumeNow ==
    /\ poll = "resume"
    /\ \E n \in 0 .. Len(fresh) :
         /\ \A m \in DOMAIN fresh : m <= n <=> stamps[fresh[m]] > watermark
         /\ fresh' = SubSeq(fresh, 1, n)
         /\ IF n = 0 THEN poll' = "sleep" /\ UNCHANGED <<watermark, targets>>
            ELSE /\ watermark' = Max({stamps[i] : i \in committed})
                 /\ targets' = registered /\ poll' = "send"
    /\ UNCHANGED <<sensor, dead, cut, registered, client>>

(* The new alerts are those stamped after the watermark, the first n of    *)
(* the answer.  The watermark moves to the newest, and broadcast() copies  *)
(* the registry.                                                           *)
PollResume ==
    /\ poll = "resume"
    /\ \E n \in 0 .. Len(fresh) :
         /\ \A m \in DOMAIN fresh : m <= n <=> stamps[fresh[m]] > watermark
         /\ fresh' = SubSeq(fresh, 1, n)
         /\ IF n = 0 THEN poll' = "sleep" /\ UNCHANGED <<watermark, targets>>
            ELSE /\ watermark' = stamps[fresh[1]]
                 /\ targets' = registered /\ poll' = "send"
    /\ UNCHANGED <<sensor, dead, cut, registered, client>>

(* One awaited send of the alert frame, which lists its alerts oldest      *)
(* first; an unreachable client is set aside.                              *)
SendDelta(c) ==
    /\ poll = "send" /\ c \in targets
    /\ targets' = targets \ {c}
    /\ IF c \in gone
       THEN dead' = dead \cup {c} /\ UNCHANGED deltas
       ELSE deltas' = [deltas EXCEPT ![c] = @ \o Reverse(fresh)] /\ UNCHANGED dead
    /\ UNCHANGED <<sensor, watermark, poll, fresh, cut, registered, handler, gone, known>>

BroadcastEnd ==
    /\ poll = "send" /\ targets = {}
    /\ registered' = registered \ dead
    /\ poll' = "stats"
    /\ fresh' = <<>> /\ dead' = {}
    /\ UNCHANGED <<sensor, watermark, targets, cut, client>>

(* The frame of counters goes the same way before the task sleeps again:   *)
(* it removes the clients it finds unreachable.                            *)
StatsFrame ==
    /\ poll = "stats"
    /\ \E found \in SUBSET (registered \cap gone) :
         registered' = registered \ found
    /\ poll' = "sleep"
    /\ UNCHANGED <<sensor, watermark, fresh, targets, dead, cut, client>>

Poll ==
    \/ PollBegin \/ PollQuery \/ PollResume \/ BroadcastEnd \/ StatsFrame
    \/ \E c \in Clients : SendDelta(c)

Handle(c) == SendStats(c) \/ SendInitial(c) \/ NoticeGone(c)

FeedNext ==
    \/ AlertSaved \/ Poll
    \/ \E c \in Clients : Connect(c) \/ Handle(c) \/ Vanish(c)

FeedSpec == FeedInit /\ [][FeedNext]_feed

(* The event loop runs every ready task, the queries succeed again and     *)
(* again, and a send to a client that no longer reads ends with the        *)
(* server's ping timeout.                                                  *)
FairFeed ==
    /\ FeedSpec /\ WF_feed(Poll) /\ \A c \in Clients : WF_feed(Handle(c))
    /\ SF_feed(PollQuery /\ poll' = "resume")

----------------------------------------------------------------------------
FeedTypeOK ==
    /\ stamps \in Seq(1 .. MaxStamp)
    /\ watermark \in Nat
    /\ poll \in {"sleep", "query", "resume", "send", "stats"}
    /\ fresh \in Seq(committed)
    /\ targets \subseteq Clients /\ dead \subseteq gone
    /\ registered \subseteq Clients
    /\ handler \in [Clients -> {"new", "stats", "initial", "receiving", "closed"}]
    /\ gone \subseteq Clients
    /\ deltas \in [Clients -> Seq(committed)]
    /\ known \in [Clients -> SUBSET committed]
    /\ late \subseteq committed /\ cut \subseteq committed

(* A client is sent no alert twice in delta frames, and none that is older *)
(* than one before it: the watermark is never overtaken.                   *)
DeltasAdvance ==
    \A c \in Clients : \A m, n \in DOMAIN deltas[c] :
        m < n => /\ deltas[c][m] # deltas[c][n]
                 /\ stamps[deltas[c][m]] <= stamps[deltas[c][n]]

(* "Alerts [...] pushed as they happen", with the two exceptions there     *)
(* are: an alert a client connected before, stamped at or before the       *)
(* watermark, has been sent to it unless a poll had read past its stamp    *)
(* when it was committed, were it by another alert of the same stamp, or   *)
(* the limit of a query left it out.                                       *)
NothingPassedOver ==
    \A c \in Clients \ gone : \A i \in committed \ (known[c] \cup late \cup cut) :
        /\ handler[c] # "new"
        /\ stamps[i] <= watermark /\ poll # "send"
        => i \in ToSet(deltas[c])

(* "Alerts [...] pushed as they happen", each of them once and in order.   *)
PushedOnce == DeltasAdvance /\ NothingPassedOver

(* Every client that stays catches up with such alerts again and again     *)
(* (the model's commits come to an end), whichever other clients leave     *)
(* without notice and whatever queries fail.                               *)
EveryAlertArrives ==
    \A c \in Clients :
        []<>(\/ handler[c] = "new" \/ c \in gone
             \/ committed \ known[c] \subseteq ToSet(deltas[c]) \cup late \cup cut)
=============================================================================
