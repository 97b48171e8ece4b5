-------------------------- MODULE EnrichmentWorker --------------------------
(***************************************************************************)
(* EnrichmentWorker: the bounded queue between the alert pipeline and      *)
(* threat-intelligence enrichment, and the thread that empties it.         *)
(*                                                                         *)
(* stop() waits two poll intervals for a thread that may be inside a       *)
(* lookup of tens of seconds, then forgets it; a start() that clears the   *)
(* stop flag before the old thread looks at it leaves two threads on one   *)
(* queue.  Thread n is the one the n-th effective start() created.  The    *)
(* lookup an alert waits for is ThreatIntelQuery's and ThreatReport's.     *)
(***************************************************************************)
EXTENDS Naturals, Sequences, FiniteSets

CONSTANTS
    Alerts,         \* the alerts the pipeline persists, in this order: 1 .. n
    MaxQueueDepth,  \* TI_QUEUE_MAX_DEPTH
    MaxStarts       \* bound: threads started

ASSUME WorkerAssumption ==
    /\ Alerts \in Nat
    /\ MaxQueueDepth \in Nat \ {0}
    /\ MaxStarts \in Nat \ {0}

Ids == 1 .. Alerts
Workers == 1 .. MaxStarts
NoThread == 0
NoAlert == 0

VARIABLES
    queue,      \* _queue
    stopping,   \* _stop_event
    thread,     \* _thread
    stopper,    \* where stop() is: "idle", or "join" after setting the event
    started,    \* threads created so far
    place,         \* where each thread is in _run
    own,        \* the alert each thread has taken off the queue
    submitted,  \* alerts handed to submit()
    dropped, skipped, failed,  \* what became of them
    saved       \* alerts on_enriched has saved

outcomes == <<dropped, skipped, failed, saved>>
worker == <<queue, stopping, thread, stopper, started, place, own, submitted, outcomes>>

Alive == {w \in Workers : place[w] \notin {"new", "exited"}}
MoveTo(w, label) == place' = [place EXCEPT ![w] = label]
Settled == dropped \cup skipped \cup failed \cup saved
Queued == {queue[i] : i \in DOMAIN queue}

----------------------------------------------------------------------------
WorkerInit ==
    /\ queue = <<>> /\ stopping = FALSE
    /\ thread = NoThread /\ stopper = "idle" /\ started = 0
    /\ place = [w \in Workers |-> "new"]
    /\ own = [w \in Workers |-> NoAlert]
    /\ submitted = 0
    /\ dropped = {} /\ skipped = {} /\ failed = {} /\ saved = {}

(* submit: put_nowait refuses the new alert when the queue is full.  The   *)
(* pipeline does not look at whether the worker runs.                      *)
Submit ==
    /\ submitted < Alerts
    /\ submitted' = submitted + 1
    /\ IF Len(queue) < MaxQueueDepth
       THEN queue' = Append(queue, submitted + 1) /\ UNCHANGED dropped
       ELSE dropped' = dropped \cup {submitted + 1} /\ UNCHANGED queue
    /\ UNCHANGED <<stopping, thread, stopper, started, place, own, skipped,
                   failed, saved>>

(* start: nothing while the last thread is alive.                          *)
StartThread ==
    /\ stopper = "idle"
    /\ thread \notin Alive
    /\ started < MaxStarts
    /\ started' = started + 1
    /\ thread' = started + 1
    /\ stopping' = FALSE
    /\ MoveTo(started + 1, "loop")
    /\ UNCHANGED <<queue, stopper, own, submitted, outcomes>>

StopBegin ==
    /\ stopper = "idle"
    /\ stopping' = TRUE
    /\ stopper' = "join"
    /\ UNCHANGED <<queue, thread, started, place, own, submitted, outcomes>>

(* Mutant: the stop flag is cleared once the join is over.                 *)
StopJoinClearing ==
    /\ stopper = "join"
    /\ thread' = NoThread
    /\ stopper' = "idle"
    /\ stopping' = FALSE
    /\ UNCHANGED <<queue, started, place, own, submitted, outcomes>>

(* The join ends with the thread, or without it when it times out.         *)
StopJoin ==
    /\ stopper = "join"
    /\ thread' = NoThread
    /\ stopper' = "idle"
    /\ UNCHANGED <<queue, stopping, started, place, own, submitted, outcomes>>

(* The loop condition; an empty queue comes back here after the poll.      *)
CheckStop(w) ==
    /\ place[w] = "loop"
    /\ MoveTo(w, IF stopping THEN "exited" ELSE "get")
    /\ UNCHANGED <<queue, stopping, thread, stopper, started, own, submitted,
                   outcomes>>

Get(w) ==
    /\ place[w] = "get"
    /\ \/ /\ queue # <<>>
          /\ own' = [own EXCEPT ![w] = Head(queue)]
          /\ queue' = Tail(queue)
          /\ MoveTo(w, "enrich")
       \/ /\ queue = <<>>
          /\ MoveTo(w, "loop")
          /\ UNCHANGED <<queue, own>>
    /\ UNCHANGED <<stopping, thread, stopper, started, submitted, outcomes>>

(* The thread is done with its alert and goes round the loop.              *)
Finish(w) ==
    /\ own' = [own EXCEPT ![w] = NoAlert]
    /\ MoveTo(w, "loop")

(* Mutant: an exception of the lookup ends the thread.                     *)
EnrichUncontained(w) ==
    /\ place[w] = "enrich"
    /\ \/ MoveTo(w, "save") /\ UNCHANGED <<own, skipped>>
       \/ Finish(w) /\ skipped' = skipped \cup {own[w]}
       \/ MoveTo(w, "exited") /\ UNCHANGED <<own, skipped>>
    /\ UNCHANGED <<queue, stopping, thread, stopper, started, submitted,
                   dropped, failed, saved>>

(* _process: enrich_alert finds nothing to ask about, raises, or has set   *)
(* the result on the alert.                                                *)
Enrich(w) ==
    /\ place[w] = "enrich"
    /\ \/ MoveTo(w, "save") /\ UNCHANGED <<own, skipped, failed>>
       \/ Finish(w) /\ skipped' = skipped \cup {own[w]} /\ UNCHANGED failed
       \/ Finish(w) /\ failed' = failed \cup {own[w]} /\ UNCHANGED skipped
    /\ UNCHANGED <<queue, stopping, thread, stopper, started, submitted,
                   dropped, saved>>

(* on_enriched, whose failure is contained like the lookup's.              *)
OnEnriched(w) ==
    /\ place[w] = "save"
    /\ Finish(w)
    /\ \/ saved' = saved \cup {own[w]} /\ UNCHANGED failed
       \/ failed' = failed \cup {own[w]} /\ UNCHANGED saved
    /\ UNCHANGED <<queue, stopping, thread, stopper, started, submitted,
                   dropped, skipped>>

Run(w) == CheckStop(w) \/ Get(w) \/ Enrich(w) \/ OnEnriched(w)

WorkerNext ==
    \/ Submit \/ StartThread \/ StopBegin \/ StopJoin
    \/ \E w \in Workers : Run(w)

WorkerSpec == WorkerInit /\ [][WorkerNext]_worker

----------------------------------------------------------------------------
WorkerTypeOK ==
    /\ queue \in Seq(Ids) /\ Len(queue) <= MaxQueueDepth
    /\ stopping \in BOOLEAN
    /\ thread \in 0 .. started
    /\ stopper \in {"idle", "join"}
    /\ started \in 0 .. MaxStarts
    /\ place \in [Workers -> {"new", "loop", "get", "enrich", "save", "exited"}]
    /\ own \in [Workers -> Ids \cup {NoAlert}]
    /\ submitted \in 0 .. Alerts
    /\ \A set \in {dropped, skipped, failed, saved} : set \subseteq Ids

(* Every alert handed over is in exactly one place: once in the queue, in  *)
(* the hands of one living thread, or settled with its outcome counted,    *)
(* however many threads a restart leaves on the queue and whatever fails.  *)
OnePlace ==
    \A a \in 1 .. submitted :
        Cardinality({i \in DOMAIN queue : queue[i] = a})
        + Cardinality({w \in Alive : own[w] = a})
        + Cardinality({n \in 1 .. 4 : a \in <<dropped, skipped, failed, saved>>[n]}) = 1

(* A thread that outlived the join of its stop() ends by itself, unless a  *)
(* start() comes first: stop() is not undone by its own timeout.           *)
StoppedThreadsEnd ==
    \A n \in 0 .. MaxStarts :
        started = n /\ thread = NoThread ~> Alive = {} \/ started # n

(* While the worker is not stopped, every alert of the queue gets its      *)
(* turn, the failures of others notwithstanding.                           *)
QueueServed ==
    \A a \in Ids :
        a \in Queued /\ thread # NoThread ~> a \in Settled \/ stopping

(* Both ends of a stop(): what it leaves behind ends, and what it has not  *)
(* touched is served.                                                      *)
WorkerSettles == StoppedThreadsEnd /\ QueueServed
=============================================================================
