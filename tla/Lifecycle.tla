------------------------------ MODULE Lifecycle ------------------------------
(***************************************************************************)
(* The life of one process of the system: the SDK starts its services in   *)
(* the order a packet meets them and stops them in reverse, a start may    *)
(* fail half way, the sniffer thread may end by itself, and the detection  *)
(* service is the one of EvaluationLoop, whose threads go on working while *)
(* the services around it come and go.                                     *)
(***************************************************************************)
EXTENDS EvaluationLoop, SequencesExt

CONSTANTS
    MaxCalls,    \* bound: how many calls start or stop something
    MaxEdits     \* bound: how often detectors.json is edited

ASSUME LifecycleAssumption == MaxCalls \in Nat \ {0} /\ MaxEdits \in Nat

Roles == {"sensor", "replay", "readonly"}    \* run_sensor, run_replay, the API
NoSniffer == 0                               \* _sniffer is None
NoThreshold == MaxEdits + 1                  \* _cache is None

Pipeline == <<"database", "alerting", "threat_intel", "worker", "parser", "detection">>

(* Mutant: the sniffer is started before the detectors are loaded.         *)
StartedEager == [
    sensor   |-> <<"database", "alerting", "threat_intel", "worker", "parser",
                   "capture", "detection", "maintenance">>,
    replay   |-> <<"database", "alerting", "threat_intel", "worker", "parser",
                   "detection", "maintenance">>,
    readonly |-> <<"database", "alerting", "threat_intel">>]

(* What start(), start_offline() and start_readonly() start, in order.     *)
Started == [
    sensor   |-> <<"database", "alerting", "threat_intel", "worker", "parser",
                   "detection", "capture", "maintenance">>,
    replay   |-> <<"database", "alerting", "threat_intel", "worker", "parser",
                   "detection", "maintenance">>,
    readonly |-> <<"database", "alerting", "threat_intel">>]

(* stop() unwinds everything start() may have started, stop_readonly()     *)
(* what start_readonly() started.                                          *)
StopAll == <<"maintenance", "capture", "detection", "parser", "worker",
             "threat_intel", "alerting", "database">>
Stopped == [sensor |-> StopAll, replay |-> StopAll,
            readonly |-> <<"threat_intel", "alerting", "database">>]

VARIABLES
    role,        \* the entry point this process runs
    up,          \* the services whose _running is set, the worker's thread
    call,        \* the SDK call being executed, and
    script,      \* the services it has yet to start or stop
    calls,       \* how many calls there have been
    sniffer,     \* CaptureService._sniffer
    sniffing,    \* the sniffer threads that are alive
    doubled,     \* history: a live sniffer was replaced by a second start
    failed,      \* history: a start() has failed
    unwound,     \* history: the last call was a stop() that completed
    file,        \* the thresholds in detectors.json, by edition
    config,      \* the edition the registry read when it was built
    reference    \* the edition confidences are scored against

calling == <<role, call, script, calls, failed, unwound>>
capturing == <<sniffer, sniffing, doubled>>
thresholds == <<file, config, reference>>
systemVars == <<vars, calling, up, capturing, thresholds>>

(* build_services constructs every service and starts none; the registry   *)
(* of detectors reads the thresholds, the alert service does not.          *)
Built ==
    /\ up = {} /\ sniffer = NoSniffer /\ sniffing = {}
    /\ config = file /\ reference = NoThreshold

SystemInit ==
    /\ Init
    /\ role \in Roles
    /\ file = 0 /\ Built
    /\ call = "none" /\ script = <<>> /\ calls = 0
    /\ doubled = FALSE /\ failed = FALSE /\ unwound = FALSE

----------------------------------------------------------------------------
Call(name, services) ==
    /\ call = "none" /\ calls < MaxCalls
    /\ call' = name
    /\ script' = services
    /\ calls' = calls + 1
    /\ unwound' = FALSE
    /\ UNCHANGED <<vars, role, failed, up, capturing, thresholds>>

(* start(), start_offline() or start_readonly(), by the entry point.       *)
BeginStart == loaded < MaxStarts /\ Call("start", Started[role])

(* stop() or stop_readonly(), once after a start or instead of one.        *)
BeginStop == ~unwound /\ Call("stop", Stopped[role])

(* start_capture() and stop_capture(), while the system is started.        *)
BeginCapture ==
    /\ ToSet(Pipeline) \subseteq up
    /\ Call("start", <<"capture">>) \/ Call("stop", <<"capture">>)

(* The head of the script has been started or stopped.                     *)
Advance ==
    /\ script' = Tail(script)
    /\ call' = IF Tail(script) = <<>> THEN "none" ELSE call
    /\ unwound' = (script = <<"database">> /\ call = "stop")
    /\ UNCHANGED <<role, calls, failed>>

(* An exception leaves the call; what has been started stays started.      *)
Raise ==
    /\ call' = "none" /\ script' = <<>>
    /\ failed' = (failed \/ call = "start")
    /\ UNCHANGED <<role, calls, unwound>>

At(name, s) == call = name /\ script # <<>> /\ Head(script) = s

(* BaseService.start and stop around the services that keep no state here; *)
(* the alert service forgets the thresholds it scored against.             *)
StartService ==
    \E s \in {"database", "alerting", "threat_intel", "worker", "parser", "maintenance"} :
      /\ At("start", s)
      /\ up' = up \cup {s}
      /\ reference' = IF s = "alerting" THEN NoThreshold ELSE reference
      /\ Advance
      /\ UNCHANGED <<vars, capturing, file, config>>

StopService ==
    \E s \in {"database", "alerting", "threat_intel", "worker", "parser", "maintenance"} :
      /\ At("stop", s)
      /\ up' = up \ {s}
      /\ Advance
      /\ UNCHANGED <<vars, capturing, thresholds>>

(* The schema cannot be brought to head.                                   *)
MigrationFails ==
    /\ At("start", "database")
    /\ Raise
    /\ UNCHANGED <<vars, up, capturing, thresholds>>

(* The detection service, by the steps of EvaluationLoop; its rules        *)
(* directory may be one that cannot be watched.                            *)
LoadDetectors ==
    /\ At("start", "detection") /\ Load
    /\ UNCHANGED <<calling, up, capturing, thresholds>>

StartDetection ==
    /\ At("start", "detection")
    /\ \/ Start /\ Advance /\ up' = up \cup {"detection"}
       \/ StartRaises /\ Raise /\ UNCHANGED up
    /\ UNCHANGED <<capturing, thresholds>>

StopDetection ==
    /\ At("stop", "detection")
    /\ \/ (StopBegin \/ StopJoin) /\ UNCHANGED <<calling, up>>
       \/ StopEnd /\ Advance /\ up' = up \ {"detection"}
    /\ UNCHANGED <<capturing, thresholds>>

(* CaptureService._do_start: a new sniffer takes the place of the last.    *)
StartCapture ==
    /\ At("start", "capture")
    /\ sniffer' = calls
    /\ sniffing' = sniffing \cup {calls}
    /\ doubled' = (doubled \/ sniffer \in sniffing)
    /\ up' = up \cup {"capture"}
    /\ Advance
    /\ UNCHANGED <<vars, thresholds>>

(* Mutant: the sniffer is forgotten and not stopped.                       *)
StopCaptureForgetting ==
    /\ At("stop", "capture")
    /\ sniffer' = NoSniffer
    /\ UNCHANGED sniffing
    /\ up' = up \ {"capture"}
    /\ Advance
    /\ UNCHANGED <<vars, doubled, thresholds>>

(* AsyncSniffer.stop raises when its thread has ended by itself.           *)
StopCapture ==
    /\ At("stop", "capture")
    /\ IF sniffer \in sniffing \cup {NoSniffer}
       THEN /\ sniffer' = NoSniffer
            /\ sniffing' = sniffing \ {sniffer}
            /\ up' = up \ {"capture"}
            /\ Advance
       ELSE Raise /\ UNCHANGED <<up, sniffer, sniffing>>
    /\ UNCHANGED <<vars, doubled, thresholds>>

(* The interface goes down, or the process may not open it.                *)
SnifferDies ==
    /\ \E s \in sniffing : sniffing' = sniffing \ {s}
    /\ UNCHANGED <<vars, calling, up, sniffer, doubled, thresholds>>

----------------------------------------------------------------------------
(* The threads of the detection service and the traffic, at any time.  The *)
(* first alert after the alert service has started reads the thresholds.   *)
Work ==
    /\ Cross \/ \E w \in Loops : Wait(w)
       \/ \E t \in Threads : Ask(t) \/ Add(t)
    /\ UNCHANGED <<calling, up, capturing, thresholds>>

Score ==
    /\ \E t \in Threads : Dispatch(t)
    /\ reference' = IF reference = NoThreshold THEN file ELSE reference
    /\ UNCHANGED <<calling, up, capturing, file, config>>

EditThresholds ==
    /\ file < MaxEdits
    /\ file' = file + 1
    /\ UNCHANGED <<vars, calling, up, capturing, config, reference>>

Proceed ==
    \/ StartService \/ StopService \/ MigrationFails
    \/ LoadDetectors \/ StartDetection \/ StopDetection
    \/ StartCapture \/ StopCapture

SystemNext ==
    \/ BeginStart \/ BeginStop \/ BeginCapture \/ Proceed
    \/ SnifferDies \/ Work \/ Score \/ EditThresholds

(* A call that has begun is executed, and every thread runs.               *)
SystemSpec ==
    /\ SystemInit /\ [][SystemNext]_systemVars
    /\ WF_systemVars(Proceed)
    /\ \A t \in Threads :
         /\ WF_systemVars(Ask(t) /\ Work) /\ WF_systemVars(Add(t) /\ Work)
         /\ WF_systemVars(Dispatch(t) /\ Score)
    /\ \A w \in Loops : WF_systemVars(Wait(w) /\ Work)

----------------------------------------------------------------------------
(* Mutant: one component that runs is enough.                              *)
HealthAny == IF (ToSet(Started["sensor"]) \ {"worker"}) \cap up # {} THEN "ok" ELSE "degraded"

(* HealthMixin.get_health: "ok" when every component reports running.      *)
Health == IF (ToSet(Started["sensor"]) \ {"worker"}) \subseteq up THEN "ok" ELSE "degraded"

(* "Downstream services must be ready before the first packet arrives":    *)
(* while a sniffer lives, unless a second start took its place, everything *)
(* a packet meets is started; and a detector that is asked, by its loop or *)
(* at shutdown, raises its alert into services that are still up, unless a *)
(* loop outlasted the wait of stop() or a start failed.                    *)
FedWhileReady ==
    /\ sniffing # {} /\ ~doubled => ToSet(Pipeline) \subseteq up
    /\ Asking # {} /\ ~outrun /\ ~failed =>
         {"database", "alerting", "threat_intel", "worker"} \subseteq up

(* "stop() unwinds all three" starts, whole or failed half way: when it    *)
(* has returned no service is up, no thread asks the detectors unless it   *)
(* was forgotten, and no sniffer lives unless a second start orphaned it.  *)
UnwoundClean ==
    unwound =>
      /\ up = {}
      /\ Alive = {} \/ outrun
      /\ sniffing = {} \/ doubled
      /\ at[Main] = "main"

(* A process that reports "ok" has a loop that asks its detectors and, as  *)
(* long as no sniffer has ended by itself, a sniffer that feeds them.      *)
HealthIsDeserved == Health = "ok" => thread \in Alive /\ sniffer # NoSniffer
=============================================================================
