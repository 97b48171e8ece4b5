------------------------------- MODULE Tracing -------------------------------
(***************************************************************************)
(* Correlation ids.  One is minted when a detector or a rule fires and     *)
(* when a request arrives without its own; it stands in a context variable *)
(* of the thread, and every line logged meanwhile carries it.  A finding   *)
(* changes threads once, over the queue of the enrichment worker.          *)
(*                                                                         *)
(* The requests themselves are in Requests; here a request is a thread.    *)
(***************************************************************************)
EXTENDS Naturals, Sequences, FiniteSets

CONSTANTS
    Requests,      \* requests, each on a thread of its own
    MaxFindings,   \* bound: how often detectors and rules fire
    QueueDepth,    \* enrichments waiting at most
    Client,        \* an id clients send along
    None

Finders == {"capture", "evaluation"}    \* rules fire on the one, detectors on the other
Threads == Finders \cup {"worker"} \cup Requests
Findings == 1 .. MaxFindings
Jobs == Findings \cup Requests

ASSUME TracingAssumption ==
    /\ MaxFindings \in Nat /\ QueueDepth \in Nat
    /\ Requests \cap (Finders \cup {"worker"}) = {} /\ Requests \cap Nat = {}
    /\ None \notin Nat \cup {Client} /\ Client \notin Nat

VARIABLES
    current,    \* thread -> _correlation_id there
    about,      \* thread -> the job it works on
    at,         \* thread -> where it is in it
    minted,     \* ids made so far
    fired,      \* findings so far
    queue,      \* the worker's: alerts, each with an id
    lines,      \* history: lines logged about a job
    idOf        \* history: job -> the id it started with

tracing == <<current, about, at, minted, fired, queue, lines, idOf>>

TracingInit ==
    /\ current = [t \in Threads |-> None]
    /\ about = [t \in Threads |-> None]
    /\ at = [t \in Threads |-> "idle"]
    /\ minted = 0 /\ fired = 0 /\ queue = <<>> /\ lines = {}
    /\ idOf = [j \in Jobs |-> None]

----------------------------------------------------------------------------
(* JsonFormatter.format: the id is that of the thread that logs.           *)
Line(job, id, stream) == [job |-> job, id |-> id, stream |-> stream]

Logged(t, streams) == lines \cup {Line(about[t], current[t], s) : s \in streams}

(* correlation_scope: an id handed in is used, for none one is minted.     *)
EnterScope(t, job, id) ==
    /\ about' = [about EXCEPT ![t] = job]
    /\ current' = [current EXCEPT ![t] = IF id = None THEN minted + 1 ELSE id]
    /\ minted' = IF id = None THEN minted + 1 ELSE minted

(* No scope of the code is opened inside another: the value the token      *)
(* brings back is always that of a thread at rest.                         *)
LeaveScope(t) ==
    /\ current' = [current EXCEPT ![t] = None]
    /\ about' = [about EXCEPT ![t] = None]
    /\ at' = [at EXCEPT ![t] = "idle"]
    /\ UNCHANGED minted

----------------------------------------------------------------------------
(* dispatch_rule_match, dispatch_detector_alert: the first line about a    *)
(* finding is logged inside its scope.                                     *)
Fire(t) ==
    /\ t \in Finders /\ at[t] = "idle" /\ fired < MaxFindings
    /\ fired' = fired + 1
    /\ EnterScope(t, fired + 1, None)
    /\ at' = [at EXCEPT ![t] = "fired"]
    /\ idOf' = [idOf EXCEPT ![fired + 1] = current'[t]]
    /\ lines' = lines \cup {Line(fired + 1, current'[t], "security")}
    /\ UNCHANGED queue

(* AlertService._process: a new alert is stored, logged (a merged one only *)
(* at debug level) and handed to the hooks, which log and may fail.        *)
RaiseAlert(t) ==
    /\ at[t] = "fired"
    /\ \/ at' = [at EXCEPT ![t] = "raised"] /\ lines' = Logged(t, {"security", "application"})
       \/ at' = [at EXCEPT ![t] = "done"] /\ UNCHANGED lines
    /\ UNCHANGED <<current, about, minted, fired, queue, idOf>>

(* Mutant: the id does not ride with the alert.                            *)
SubmitAlone(t) ==
    /\ at[t] = "raised"
    /\ queue' = IF Len(queue) < QueueDepth
                THEN Append(queue, [job |-> about[t], id |-> None]) ELSE queue
    /\ at' = [at EXCEPT ![t] = "done"]
    /\ UNCHANGED <<current, about, minted, fired, lines, idOf>>

(* EnrichmentWorker.submit: a full queue drops.                            *)
Submit(t) ==
    /\ at[t] = "raised"
    /\ queue' = IF Len(queue) < QueueDepth
                THEN Append(queue, [job |-> about[t], id |-> current[t]]) ELSE queue
    /\ at' = [at EXCEPT ![t] = "done"]
    /\ UNCHANGED <<current, about, minted, fired, lines, idOf>>

(* Evidence of a rule's match is stored last, and that failing is logged   *)
(* inside the scope.                                                       *)
Finish(t) ==
    /\ t \in Finders /\ at[t] = "done"
    /\ \/ UNCHANGED lines
       \/ t = "capture" /\ lines' = Logged(t, {"application"})
    /\ LeaveScope(t)
    /\ UNCHANGED <<fired, queue, idOf>>

(* A repository that raises takes the rest of the dispatch with it: the    *)
(* evaluation loop logs that outside the scope, the sniffer not at all.    *)
Abort(t) ==
    /\ t \in Finders /\ at[t] = "fired"
    /\ LeaveScope(t)
    /\ lines' = IF t = "evaluation"
                THEN lines \cup {Line(about[t], current'[t], "failure")} ELSE lines
    /\ UNCHANGED <<fired, queue, idOf>>

(* EnrichmentLoopMixin._run, and drain: the scope the alert came from is   *)
(* entered again; every call of a provider is an audit line, a failure is  *)
(* logged before the scope is left.                                        *)
TakeAlert ==
    /\ at["worker"] = "idle" /\ queue # <<>>
    /\ EnterScope("worker", Head(queue).job, Head(queue).id)
    /\ queue' = Tail(queue)
    /\ at' = [at EXCEPT !["worker"] = "enriching"]
    /\ UNCHANGED <<fired, lines, idOf>>

EnrichAlert ==
    /\ at["worker"] = "enriching"
    /\ \E streams \in SUBSET {"audit", "application"} : lines' = Logged("worker", streams)
    /\ LeaveScope("worker")
    /\ UNCHANGED <<fired, queue, idOf>>

TracingNext ==
    \/ \E t \in Finders : Fire(t) \/ RaiseAlert(t) \/ Submit(t) \/ Finish(t) \/ Abort(t)
    \/ TakeAlert \/ EnrichAlert

----------------------------------------------------------------------------
(* "Query one ID and you get the whole life of an alert", and of a         *)
(* request: every line about a job, whichever thread logs it, carries the  *)
(* id the job started with, and no two jobs have one id unless both are    *)
(* requests that brought it.  What a catch outside the scope logs about a  *)
(* failure has none.                                                       *)
LinesAreTraced ==
    /\ \A line \in lines :
         IF line.stream = "failure" THEN line.id = None ELSE line.id = idOf[line.job]
    /\ \A i, j \in Jobs :
         i # j /\ idOf[i] # None /\ idOf[i] = idOf[j] => {i, j} \subseteq Requests /\ idOf[i] = Client
=============================================================================
