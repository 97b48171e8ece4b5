--------------------------- MODULE EvaluationLoop ---------------------------
(***************************************************************************)
(* The timer that asks the detectors, and the detection service that       *)
(* starts and stops it.  Every loop thread and, at shutdown, the thread    *)
(* that stops the service run the same evaluation of the same detectors;   *)
(* stop() waits for its thread only so long, and forgets it.  One key of   *)
(* one detector stands for all.                                            *)
(***************************************************************************)
EXTENDS Naturals

CONSTANTS
    MaxStarts,   \* bound: how often the service is started
    MaxCross     \* bound: how often the key crosses its threshold

ASSUME LoopAssumption ==
    /\ MaxStarts \in Nat \ {0} /\ MaxCross \in Nat

Loops == 1 .. MaxStarts      \* the loop threads, in the order of their start
Main == 0                    \* the thread that starts and stops the service
Threads == Loops \cup {Main}
Loads == 0 .. MaxStarts      \* the detectors of each load_detectors()
NoLoop == 0                  \* _thread is None

VARIABLES
    stopEvent,   \* _stop_event
    thread,      \* _thread: the loop stop() would wait for
    loaded,      \* the detectors in the registry
    at,          \* where each thread is
    asks,        \* the detectors each thread is asking
    service,     \* where the service is: "stopped", "loaded", "started", ...
    over,        \* whether the key is over its threshold
    crossed,     \* how often it has crossed it
    reported,    \* loads whose detector holds the key in _reported
    raised,      \* history: alerts raised for the present episode, by load
    outrun       \* history: whether a loop outlasted the wait of a stop()

control == <<stopEvent, thread, loaded, service>>
episode == <<over, crossed>>
vars == <<control, at, asks, episode, reported, raised, outrun>>

Alive == {w \in Loops : at[w] \notin {"new", "ended"}}
Asking == {t \in Threads : at[t] \in {"ask", "add", "dispatch"}}

Goto(t, label) == at' = [at EXCEPT ![t] = label]

Init ==
    /\ stopEvent = FALSE /\ thread = NoLoop
    /\ loaded = 0 /\ service = "stopped"
    /\ at = [t \in Threads |-> IF t = Main THEN "main" ELSE "new"]
    /\ asks = [t \in Threads |-> 0]
    /\ over = FALSE /\ crossed = 0
    /\ reported = {} /\ raised = [l \in Loads |-> 0]
    /\ outrun = FALSE

(* The traffic takes the key over its threshold, or back under it; an      *)
(* episode ends when a detector asked meanwhile sees it under.             *)
Cross ==
    /\ over \/ crossed < MaxCross
    /\ over' = ~over
    /\ crossed' = IF over THEN crossed ELSE crossed + 1
    /\ UNCHANGED <<control, at, asks, reported, raised, outrun>>

----------------------------------------------------------------------------
(* DetectionService.start: new detectors take the place of the old ones,   *)
(* also when the service is running.                                       *)
Load ==
    /\ service \in {"stopped", "started"}
    /\ loaded < MaxStarts
    /\ loaded' = loaded + 1
    /\ service' = "loaded"
    /\ UNCHANGED <<stopEvent, thread, at, asks, episode, reported, raised, outrun>>

(* Mutant: the event is not cleared.                                       *)
StartStopped ==
    /\ service = "loaded"
    /\ service' = "started"
    /\ IF thread \in Alive
       THEN UNCHANGED <<stopEvent, thread, at>>
       ELSE \E w \in Loops :
              /\ at[w] = "new" /\ \A v \in 1 .. w - 1 : at[v] # "new"
              /\ stopEvent' = stopEvent
              /\ thread' = w
              /\ Goto(w, "wait")
    /\ UNCHANGED <<loaded, asks, episode, reported, raised, outrun>>

(* The rules directory cannot be watched: start() raises between the two.  *)
StartRaises ==
    /\ service = "loaded"
    /\ service' = IF thread \in Alive THEN "started" ELSE "stopped"
    /\ UNCHANGED <<stopEvent, thread, loaded, at, asks, episode, reported, raised, outrun>>

(* PeriodicEvaluator.start: a second call is a no-op.                      *)
Start ==
    /\ service = "loaded"
    /\ service' = "started"
    /\ IF thread \in Alive
       THEN UNCHANGED <<stopEvent, thread, at>>
       ELSE \E w \in Loops :
              /\ at[w] = "new" /\ \A v \in 1 .. w - 1 : at[v] # "new"
              /\ stopEvent' = FALSE
              /\ thread' = w
              /\ Goto(w, "wait")
    /\ UNCHANGED <<loaded, asks, episode, reported, raised, outrun>>

(* stop() of a service that was never started is legal too.                *)
StopBegin ==
    /\ service \in {"stopped", "started"}
    /\ stopEvent' = TRUE
    /\ service' = "joining"
    /\ UNCHANGED <<thread, loaded, at, asks, episode, reported, raised, outrun>>

(* The join returns when the thread has ended or the wait is over; then    *)
(* the service asks once more itself, if any detectors are loaded.         *)
StopJoin ==
    /\ service = "joining"
    /\ thread' = NoLoop
    /\ service' = "last"
    /\ Goto(Main, IF loaded = 0 THEN "main" ELSE "ask")
    /\ asks' = [asks EXCEPT ![Main] = loaded]
    /\ outrun' = (outrun \/ thread \in Alive)
    /\ UNCHANGED <<stopEvent, loaded, episode, reported, raised>>

StopEnd ==
    /\ service = "last" /\ at[Main] = "main"
    /\ service' = "stopped"
    /\ UNCHANGED <<stopEvent, thread, loaded, at, asks, episode, reported, raised, outrun>>

----------------------------------------------------------------------------
(* _run: the wait for the event times out, or ends the thread.             *)
Wait(w) ==
    /\ at[w] = "wait"
    /\ IF stopEvent
       THEN Goto(w, "ended") /\ UNCHANGED asks
       ELSE Goto(w, "ask") /\ asks' = [asks EXCEPT ![w] = loaded]
    /\ UNCHANGED <<control, episode, reported, raised, outrun>>

(* run_once has returned, whatever the callback raised.                    *)
Done(t) == Goto(t, IF t = Main THEN "main" ELSE "wait")

(* report_once: under the threshold the key is armed again; over it, the   *)
(* question whether it has been reported comes before the answer is noted. *)
Ask(t) ==
    /\ at[t] = "ask"
    /\ \/ /\ ~over
          /\ reported' = reported \ {asks[t]}
          /\ raised' = [raised EXCEPT ![asks[t]] = 0]
          /\ Done(t)
       \/ /\ over /\ asks[t] \in reported
          /\ Done(t)
          /\ UNCHANGED <<reported, raised>>
       \/ /\ over /\ asks[t] \notin reported
          /\ Goto(t, "add")
          /\ UNCHANGED <<reported, raised>>
    /\ UNCHANGED <<control, asks, episode, outrun>>

(* Mutant: the answer is not noted.                                        *)
AddForgetful(t) ==
    /\ at[t] = "add"
    /\ reported' = reported
    /\ Goto(t, "dispatch")
    /\ UNCHANGED <<control, asks, episode, raised, outrun>>

Add(t) ==
    /\ at[t] = "add"
    /\ reported' = reported \cup {asks[t]}
    /\ Goto(t, "dispatch")
    /\ UNCHANGED <<control, asks, episode, raised, outrun>>

(* The alert goes to the pipeline, which may raise.                        *)
Dispatch(t) ==
    /\ at[t] = "dispatch"
    /\ \/ raised' = [raised EXCEPT ![asks[t]] = @ + 1]
       \/ UNCHANGED raised
    /\ Done(t)
    /\ UNCHANGED <<control, asks, episode, reported, outrun>>

Evaluate(t) == Ask(t) \/ Add(t) \/ Dispatch(t)

Next ==
    \/ Cross \/ Load \/ Start \/ StartRaises \/ StopBegin \/ StopJoin \/ StopEnd
    \/ \E w \in Loops : Wait(w)
    \/ \E t \in Threads : Evaluate(t)

Spec == Init /\ [][Next]_vars

(* Every thread runs, and a start or a stop that has begun is finished.    *)
FairSpec ==
    /\ Spec /\ WF_vars(Start \/ StartRaises \/ StopJoin \/ StopEnd) /\ WF_vars(Evaluate(Main))
    /\ \A w \in Loops : WF_vars(Wait(w) \/ Evaluate(w))

----------------------------------------------------------------------------
TypeOK ==
    /\ stopEvent \in BOOLEAN
    /\ thread \in Loops \cup {NoLoop} /\ loaded \in Loads
    /\ at \in [Threads -> {"new", "wait", "ask", "add", "dispatch", "ended", "main"}]
    /\ asks \in [Threads -> Loads]
    /\ service \in {"stopped", "loaded", "started", "joining", "last"}
    /\ service = "stopped" => thread = NoLoop
    /\ over \in BOOLEAN /\ crossed \in 0 .. MaxCross
    /\ reported \subseteq Loads
    /\ raised \in [Loads -> Nat] /\ outrun \in BOOLEAN

(* While no loop that stop() forgot is still at work, one thread at a time *)
(* asks the detectors, the shutdown's own question included.               *)
AskedByOne == Alive \subseteq {thread} => \A s, t \in Asking : s = t

(* "Return True only the first time a key crosses its threshold": one      *)
(* detector raises at most one alert in an episode, as long as no loop has *)
(* outlasted the wait of stop().                                           *)
RaisedOnce == ~outrun => \A l \in Loads : raised[l] <= 1

(* The loops follow the service: one that stays started goes on asking its *)
(* detectors by the loop its stop() would wait for, though the start may   *)
(* have come before the last loop saw its stop event, and one that stays   *)
(* stopped leaves no thread behind, also when stop() did not wait for it.  *)
LoopsFollow ==
    /\ <>[](service = "started") => []<>(thread \in Alive \cap Asking)
    /\ <>[](service = "stopped") => <>[](Alive = {})
=============================================================================
