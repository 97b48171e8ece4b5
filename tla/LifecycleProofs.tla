--------------------------- MODULE LifecycleProofs ---------------------------
(***************************************************************************)
(* Theorems about the evaluation loop, for any number of starts and        *)
(* episodes, and about a process around it, for any number of calls.  The  *)
(* loops and the thread that stops the service share the set _reported     *)
(* without a lock; that one episode is raised once rests on who may be     *)
(* alive when, and on nothing else.  What a process promises rests on the  *)
(* order of its scripts.                                                   *)
(***************************************************************************)
EXTENDS Lifecycle, SequenceTheorems, TLAPS

(* The loop a stop() would wait for runs until it is told to end; a        *)
(* service that has stopped, or is asking for the last time, has none.     *)
Attended ==
    /\ service \in {"stopped", "last"} => thread = NoLoop
    /\ service \in {"loaded", "started"} => thread = NoLoop \/ (~stopEvent /\ thread \in Alive)

(* The stopping thread asks only after its join.                           *)
AsksLast ==
    /\ at[Main] \in {"main", "ask", "add", "dispatch"}
    /\ at[Main] # "main" => service = "last"
    /\ \A w \in Loops : at[w] # "main"

(* Until a loop outlasts the wait of a stop(), no other loop is alive.     *)
NoneForgotten == ~outrun => Alive \subseteq {thread}

(* A detector that has raised holds the key in _reported; one about to     *)
(* raise has not raised yet.                                               *)
MarkedWhenRaised ==
    ~outrun =>
        /\ \A l \in Loads : raised[l] <= 1
        /\ \A l \in Loads \ reported : raised[l] = 0
        /\ \A t \in Threads : at[t] = "add" => asks[t] \notin reported
        /\ \A t \in Threads :
              at[t] = "dispatch" => asks[t] \in reported /\ raised[asks[t]] = 0

LoopInv == TypeOK /\ Attended /\ AsksLast /\ NoneForgotten /\ MarkedWhenRaised

(* The stopping thread is none of the loops.                               *)
LEMMA MainApart == /\ Main \notin Loops /\ NoLoop \notin Loops /\ Threads = Loops \cup {Main}
                   /\ 0 \in Loads /\ \A l \in Loads : l \in Nat
  BY LoopAssumption DEF Main, NoLoop, Loops, Threads, Loads

(* Nothing runs before the first start.                                    *)
LEMMA InitInv == Init => LoopInv
<1> SUFFICES ASSUME Init PROVE LoopInv
  OBVIOUS
<1>1. /\ at \in [Threads -> {"new", "main"}] /\ at[Main] = "main"
      /\ \A w \in Loops : at[w] = "new"
  BY MainApart DEF Init
<1>2. TypeOK
  <2>1. /\ asks \in [Threads -> Loads] /\ raised \in [Loads -> Nat]
        /\ loaded \in Loads /\ crossed \in 0 .. MaxCross
    BY LoopAssumption, MainApart DEF Init
  <2> QED
    BY <1>1, <2>1 DEF Init, TypeOK
<1>3. Alive = {}
  BY <1>1 DEF Alive
<1>4. MarkedWhenRaised
  BY <1>1, MainApart DEF Init, MarkedWhenRaised
<1> QED
  BY <1>1, <1>2, <1>3, <1>4 DEF LoopInv, Init, Attended, AsksLast, NoneForgotten

(* The documented discipline: one thread at a time asks.                   *)
LEMMA OneAsks == LoopInv => AskedByOne
<1> SUFFICES ASSUME LoopInv, Alive \subseteq {thread}, NEW s \in Asking, NEW t \in Asking
             PROVE  s = t
  BY DEF AskedByOne
<1>1. \A w \in Asking : w = Main \/ w \in Alive
  BY MainApart DEF Asking, Alive
<1>2. Main \in Asking => Alive = {}
  BY MainApart DEF LoopInv, Attended, AsksLast, Asking, Alive
<1> QED
  BY <1>1, <1>2

(* What an action must show of the threads it does not touch is the same   *)
(* for all that neither ask nor end.                                       *)
LEMMA ControlStep ==
    ASSUME LoopInv, Load \/ Start \/ StartRaises \/ StopBegin \/ StopEnd \/ Cross
    PROVE  LoopInv'
<1> USE MainApart DEF LoopInv
<1>1. CASE Cross
  <2>1. TypeOK'
    BY <1>1, LoopAssumption DEF TypeOK, Cross, control, episode
  <2> QED
    BY <1>1, <2>1 DEF Cross, control, Attended, AsksLast, NoneForgotten, MarkedWhenRaised, Alive
<1>2. CASE Load
  <2>1. TypeOK'
    BY <1>2, LoopAssumption DEF TypeOK, Load, episode, Loads
  <2> QED
    BY <1>2, <2>1 DEF Load, Attended, AsksLast, NoneForgotten, MarkedWhenRaised, Alive
<1>3. CASE StartRaises
  <2>1. thread \notin Alive => thread = NoLoop
    BY <1>3 DEF StartRaises, Attended
  <2>2. TypeOK'
    BY <1>3, <2>1 DEF TypeOK, StartRaises, episode
  <2> QED
    BY <1>3, <2>1, <2>2
       DEF StartRaises, Attended, AsksLast, NoneForgotten, MarkedWhenRaised, Alive
<1>4. CASE StopBegin
  <2>1. TypeOK'
    BY <1>4 DEF TypeOK, StopBegin, episode
  <2> QED
    BY <1>4, <2>1 DEF StopBegin, Attended, AsksLast, NoneForgotten, MarkedWhenRaised, Alive
<1>5. CASE StopEnd
  <2>1. TypeOK'
    BY <1>5 DEF TypeOK, StopEnd, episode, Attended
  <2> QED
    BY <1>5, <2>1 DEF StopEnd, Attended, AsksLast, NoneForgotten, MarkedWhenRaised, Alive
<1>6. CASE Start /\ thread \in Alive
  <2>1. TypeOK'
    BY <1>6 DEF TypeOK, Start, episode
  <2> QED
    BY <1>6, <2>1 DEF Start, Attended, AsksLast, NoneForgotten, MarkedWhenRaised, Alive
<1>7. CASE Start /\ thread \notin Alive
  <2>1. PICK w \in Loops :
           /\ at[w] = "new" /\ stopEvent' = FALSE /\ thread' = w
           /\ at' = [at EXCEPT ![w] = "wait"]
    BY <1>7 DEF Start, Goto
  <2>2. /\ service = "loaded" /\ service' = "started"
        /\ UNCHANGED <<loaded, asks, episode, reported, raised, outrun>>
    BY <1>7 DEF Start
  <2>3. TypeOK'
    BY <2>1, <2>2 DEF TypeOK, episode
  <2>4. Alive' = Alive \cup {w}
    BY <2>1 DEF Alive, TypeOK
  <2>5. thread = NoLoop
    BY <1>7, <2>2 DEF Attended
  <2>6. Attended' /\ NoneForgotten'
    BY <2>1, <2>2, <2>4, <2>5 DEF Attended, NoneForgotten, Alive
  <2>7. AsksLast'
    BY <2>1, <2>2 DEF AsksLast, TypeOK
  <2>8. MarkedWhenRaised'
    BY <2>1, <2>2 DEF MarkedWhenRaised, TypeOK
  <2> QED
    BY <2>3, <2>6, <2>7, <2>8
<1> QED
  BY <1>1, <1>2, <1>3, <1>4, <1>5, <1>6, <1>7

(* The join: a loop that outlasts it is the one case where the invariant   *)
(* promises nothing of the alerts.                                         *)
LEMMA JoinStep == ASSUME LoopInv, StopJoin PROVE LoopInv'
<1> USE MainApart DEF LoopInv
<1> DEFINE next == IF loaded = 0 THEN "main" ELSE "ask"
<1>1. /\ service = "joining" /\ thread' = NoLoop /\ service' = "last"
      /\ at' = [at EXCEPT ![Main] = next]
      /\ asks' = [asks EXCEPT ![Main] = loaded]
      /\ outrun' = (outrun \/ thread \in Alive)
      /\ UNCHANGED <<stopEvent, loaded, episode, reported, raised>>
  BY DEF StopJoin, Goto
<1>2. next \in {"main", "ask"}
  OBVIOUS
<1>3. TypeOK'
  BY <1>1, <1>2 DEF TypeOK, episode
<1>4. Alive' = Alive
  BY <1>1 DEF Alive, TypeOK
<1>5. Attended' /\ NoneForgotten'
  BY <1>1, <1>4 DEF Attended, NoneForgotten
<1>6. AsksLast'
  BY <1>1, <1>2 DEF AsksLast, TypeOK
<1>7. \A t \in Threads : at'[t] \in {"add", "dispatch"} => at'[t] = at[t] /\ asks'[t] = asks[t]
  BY <1>1, <1>2 DEF TypeOK
<1>8. MarkedWhenRaised'
  <2>1. ~outrun' => ~outrun /\ UNCHANGED <<reported, raised>>
    BY <1>1
  <2> QED
    BY <1>7, <2>1 DEF MarkedWhenRaised
<1> QED
  BY <1>3, <1>5, <1>6, <1>8

(* A loop that wakes asks, or ends if it was told to.                      *)
LEMMA WaitStep == ASSUME LoopInv, NEW w \in Loops, Wait(w) PROVE LoopInv'
<1> USE MainApart DEF LoopInv
<1>1. at[w] = "wait" /\ UNCHANGED <<control, episode, reported, raised, outrun>>
  BY DEF Wait
<1>2. PICK label \in {"ended", "ask"} :
         /\ at' = [at EXCEPT ![w] = label]
         /\ asks' = asks \/ asks' = [asks EXCEPT ![w] = loaded]
         /\ label = "ended" => stopEvent
  BY DEF Wait, Goto
<1>3. TypeOK'
  BY <1>1, <1>2 DEF TypeOK, control, episode
<1>4. Alive' \subseteq Alive /\ (label = "ask" => Alive' = Alive)
  BY <1>1, <1>2 DEF Alive, TypeOK
<1>5. Attended' /\ NoneForgotten'
  BY <1>1, <1>2, <1>4 DEF Attended, NoneForgotten, control
<1>6. AsksLast'
  BY <1>1, <1>2 DEF AsksLast, TypeOK, control
<1>7. \A t \in Threads : at'[t] \in {"add", "dispatch"} => at'[t] = at[t] /\ asks'[t] = asks[t]
  BY <1>1, <1>2 DEF TypeOK
<1>8. MarkedWhenRaised'
  BY <1>1, <1>7 DEF MarkedWhenRaised
<1> QED
  BY <1>3, <1>5, <1>6, <1>8

(* A thread that asks is the only one, unless a loop was forgotten, so     *)
(* nobody else is about to raise what it arms, marks or raises.            *)
LEMMA EvaluateStep == ASSUME LoopInv, NEW t \in Threads, Evaluate(t) PROVE LoopInv'
<1> USE MainApart DEF LoopInv
<1>1. at[t] \in {"ask", "add", "dispatch"} /\ UNCHANGED <<control, asks, episode, outrun>>
  BY DEF Evaluate, Ask, Add, Dispatch
<1>2. PICK label \in {"add", "dispatch", "main", "wait"} :
         /\ at' = [at EXCEPT ![t] = label]
         /\ label = "main" => t = Main
         /\ label = "wait" => t # Main
  BY DEF Evaluate, Ask, Add, Dispatch, Done, Goto
<1>3. /\ reported' \subseteq Loads /\ raised' \in [Loads -> Nat]
  BY DEF Evaluate, Ask, Add, Dispatch, TypeOK
<1>4. TypeOK'
  BY <1>1, <1>2, <1>3 DEF TypeOK, control, episode
<1>5. Alive' = Alive
  BY <1>1, <1>2 DEF Alive, TypeOK
<1>6. Attended' /\ NoneForgotten'
  BY <1>1, <1>5 DEF Attended, NoneForgotten, control
<1>7. AsksLast'
  BY <1>1, <1>2 DEF AsksLast, TypeOK, control
<1>8. MarkedWhenRaised'
  <2> SUFFICES ASSUME ~outrun PROVE MarkedWhenRaised'
    BY <1>1 DEF MarkedWhenRaised
  <2>1. AskedByOne /\ Alive \subseteq {thread} /\ MarkedWhenRaised
    BY OneAsks DEF NoneForgotten
  <2>2. \A s \in Threads \ {t} : at[s] \notin {"add", "dispatch"} /\ at'[s] = at[s]
    BY <1>1, <1>2, <2>1 DEF AskedByOne, Asking, TypeOK
  <2>3. asks[t] \in Loads /\ at'[t] = label /\ asks' = asks
    BY <1>1, <1>2 DEF TypeOK
  <2>4. CASE Ask(t) /\ ~over
    <3>1. /\ reported' = reported \ {asks[t]}
          /\ raised' = [raised EXCEPT ![asks[t]] = 0]
          /\ at'[t] \in {"main", "wait"}
      BY <2>4 DEF Ask, Done, Goto, TypeOK
    <3> QED
      BY <2>1, <2>2, <2>3, <3>1 DEF MarkedWhenRaised, TypeOK
  <2>5. CASE Ask(t) /\ over
    <3>1. /\ UNCHANGED <<reported, raised>>
          /\ at'[t] \in {"main", "wait", "add"}
          /\ at'[t] = "add" => asks[t] \notin reported
      BY <2>5 DEF Ask, Done, Goto, TypeOK
    <3> QED
      BY <2>1, <2>2, <2>3, <3>1 DEF MarkedWhenRaised
  <2>6. CASE Add(t)
    <3>1. /\ reported' = reported \cup {asks[t]} /\ raised' = raised
          /\ at[t] = "add" /\ at'[t] = "dispatch"
      BY <2>6 DEF Add, Goto, TypeOK
    <3>2. raised[asks[t]] = 0
      BY <2>1, <2>3, <3>1 DEF MarkedWhenRaised
    <3> QED
      BY <2>1, <2>2, <2>3, <3>1, <3>2 DEF MarkedWhenRaised
  <2>7. CASE Dispatch(t)
    <3>1. /\ reported' = reported /\ at[t] = "dispatch" /\ at'[t] \in {"main", "wait"}
          /\ raised' = raised \/ raised' = [raised EXCEPT ![asks[t]] = @ + 1]
      BY <2>7 DEF Dispatch, Done, Goto, TypeOK
    <3>2. raised[asks[t]] = 0 /\ asks[t] \in reported
      BY <2>1, <2>3, <3>1 DEF MarkedWhenRaised
    <3>3. /\ \A l \in Loads : raised'[l] <= 1
          /\ \A l \in Loads \ {asks[t]} : raised'[l] = raised[l]
      BY <2>1, <2>3, <3>1, <3>2 DEF MarkedWhenRaised, TypeOK
    <3> QED
      BY <2>1, <2>2, <2>3, <3>1, <3>2, <3>3 DEF MarkedWhenRaised
  <2> QED
    BY <2>4, <2>5, <2>6, <2>7 DEF Evaluate
<1> QED
  BY <1>4, <1>6, <1>7, <1>8

(* Every step keeps the invariant, so it always holds.                     *)
LEMMA StepInv == ASSUME LoopInv, [Next]_vars PROVE LoopInv'
<1>1. CASE Next
  BY <1>1, ControlStep, JoinStep, WaitStep, EvaluateStep DEF Next
<1>2. CASE UNCHANGED vars
  BY <1>2 DEF vars, control, episode, LoopInv, TypeOK, Attended, AsksLast, NoneForgotten,
              MarkedWhenRaised, Alive
<1> QED
  BY <1>1, <1>2

LEMMA Always == Spec => []LoopInv
  BY InitInv, StepInv, PTL DEF Spec

(* The service, its loops and its detectors stay within their types.       *)
THEOREM TypeCorrect == Spec => []TypeOK
<1>1. LoopInv => TypeOK
  BY DEF LoopInv
<1> QED
  BY <1>1, Always, PTL

(* services/detection.py: while no loop that stop() forgot is still at     *)
(* work, the detectors are asked by one thread at a time.                  *)
THEOREM AskedInTurn == Spec => []AskedByOne
  BY OneAsks, Always, PTL

(* detectors/edge.py: an episode is raised at most once by one detector,   *)
(* until a loop has outlasted the wait of a stop().                        *)
THEOREM EpisodesRaiseOnce == Spec => []RaisedOnce
<1>1. LoopInv => RaisedOnce
  BY DEF LoopInv, MarkedWhenRaised, RaisedOnce
<1> QED
  BY <1>1, Always, PTL
----------------------------------------------------------------------------
(* The process.  A script is what is left of a list from a place on.       *)
Services == {"database", "alerting", "threat_intel", "worker", "parser",
             "detection", "capture", "maintenance"}
Served == {"database", "alerting", "threat_intel", "worker"}  \* what an alert meets

From(list, k) == SubSeq(list, k, Len(list))
Before(list, k) == {list[j] : j \in 1 .. k - 1}

(* What has been started is up; what has been stopped is not, and neither  *)
(* a sniffer nor the loop is left behind it.                               *)
Starting(k) == script = From(Started[role], k) /\ Before(Started[role], k) \subseteq up

Stopping(k) ==
    LET done == Before(Stopped[role], k) IN
    /\ script = From(Stopped[role], k)
    /\ done \cap up = {}
    /\ "capture" \in done => sniffing = {} \/ doubled
    /\ "detection" \in done => service = "stopped"
    /\ ~failed /\ loaded # 0 /\ "detection" \notin done => Served \subseteq up

(* start_capture() and stop_capture() touch no other service.              *)
OnlyCapture == script = <<"capture">> /\ ToSet(Pipeline) \subseteq up

InCall ==
    /\ role \in Roles /\ call \in {"none", "start", "stop"} /\ calls \in Nat
    /\ call = "none" <=> script = <<>>
    /\ call # "none" => calls # 0 /\ ~unwound
    /\ call = "start" => OnlyCapture \/ \E k \in 1 .. Len(Started[role]) : Starting(k)
    /\ call = "stop" => OnlyCapture \/ \E k \in 1 .. Len(Stopped[role]) : Stopping(k)

(* The detection service is between its states only inside a call.         *)
AtDetection ==
    /\ service = "loaded" => At("start", "detection")
    /\ service \in {"joining", "last"} => At("stop", "detection")
    /\ "detection" \in up => service # "stopped"
    /\ "detection" \in up /\ service \in {"loaded", "started"} => thread # NoLoop

(* Before the first start there is nothing to ask.                         *)
NotLoaded ==
    loaded = 0 => /\ service \notin {"loaded", "started"} /\ at[Main] = "main"
                  /\ \A w \in Loops : at[w] = "new"

Sniffers ==
    /\ sniffer \in Nat /\ NoSniffer \notin sniffing
    /\ ~doubled => sniffing \subseteq {sniffer}
    /\ "capture" \in up => sniffer # NoSniffer
    /\ sniffing # {} /\ ~doubled => ToSet(Pipeline) \subseteq up

(* Between calls the services an alert meets are up once detectors have    *)
(* been loaded, until a stop() has returned; while the service asks, too.  *)
Standing ==
    /\ up \subseteq Services
    /\ ~failed /\ loaded # 0 /\ service # "stopped" => Served \subseteq up
    /\ ~failed /\ loaded # 0 /\ call = "none" => Served \subseteq up \/ unwound
    /\ unwound => up = {} /\ service = "stopped" /\ (sniffing = {} \/ doubled)

(* The API process neither captures nor detects.                           *)
Reader ==
    role = "readonly" =>
        up \subseteq {"database", "alerting", "threat_intel"} /\ sniffing = {} /\ loaded = 0

SystemInv ==
    LoopInv /\ InCall /\ AtDetection /\ NotLoaded /\ Sniffers /\ Standing /\ Reader

LEMMA Lists ==
    /\ \A r \in Roles : /\ Started[r] \in Seq(Services) /\ Len(Started[r]) # 0
                        /\ Stopped[r] \in Seq(Services) /\ Len(Stopped[r]) # 0
    /\ ToSet(Pipeline) = Served \cup {"parser", "detection"}
    /\ ToSet(Started["sensor"]) = Services
    /\ ToSet(Started["readonly"]) = {"database", "alerting", "threat_intel"}
<1>1. ASSUME NEW r \in Roles PROVE Started[r] \in Seq(Services) /\ Len(Started[r]) # 0
  <2>1. CASE r = "sensor"
    BY <2>1 DEF Started, Services
  <2>2. CASE r = "replay"
    BY <2>2 DEF Started, Services
  <2>3. CASE r = "readonly"
    BY <2>3 DEF Started, Services
  <2> QED
    BY <2>1, <2>2, <2>3 DEF Roles
<1>2. ASSUME NEW r \in Roles PROVE Stopped[r] \in Seq(Services) /\ Len(Stopped[r]) # 0
  <2>1. CASE r # "readonly"
    <3>1. Stopped[r] = StopAll
      BY <2>1 DEF Stopped, Roles
    <3> QED
      BY <3>1 DEF StopAll, Services
  <2>2. CASE r = "readonly"
    BY <2>2 DEF Stopped, Services
  <2> QED
    BY <2>1, <2>2
<1>3. ToSet(Pipeline) = Served \cup {"parser", "detection"}
  BY DEF ToSet, Pipeline, Served
<1>4. ToSet(Started["sensor"]) = Services
  BY DEF ToSet, Started, Services
<1>5. ToSet(Started["readonly"]) = {"database", "alerting", "threat_intel"}
  BY DEF ToSet, Started, Services
<1> QED
  BY <1>1, <1>2, <1>3, <1>4, <1>5

LEMMA StartOrder ==
    ASSUME NEW r \in Roles, NEW k \in 1 .. Len(Started[r])
    PROVE  /\ Started[r][k] = "detection" => r # "readonly" /\ Served \subseteq Before(Started[r], k)
           /\ Started[r][k] = "capture" =>
                 r # "readonly" /\ ToSet(Pipeline) \subseteq Before(Started[r], k)
           /\ k = Len(Started[r]) /\ r # "readonly" => Served \subseteq Before(Started[r], k)
<1>1. CASE r = "sensor"
  BY <1>1, Lists DEF Started, Before, Served
<1>2. CASE r = "replay"
  BY <1>2, Lists DEF Started, Before, Served
<1>3. CASE r = "readonly"
  BY <1>3, Lists DEF Started, Before, Served
<1> QED
  BY <1>1, <1>2, <1>3 DEF Roles

LEMMA StopOrder ==
    ASSUME NEW r \in {"sensor", "replay"}, NEW k \in 1 .. Len(Stopped[r])
    PROVE  /\ Stopped[r][k] \in ToSet(Pipeline) =>
                 {"maintenance", "capture"} \subseteq Before(Stopped[r], k)
           /\ Stopped[r][k] \in Served \cup {"parser"} => "detection" \in Before(Stopped[r], k)
           /\ Stopped[r][k] \in {"maintenance", "capture", "detection"} =>
                 "detection" \notin Before(Stopped[r], k)
           /\ k = Len(Stopped[r]) <=> Stopped[r][k] = "database"
           /\ k = Len(Stopped[r]) => Services \subseteq Before(Stopped[r], k) \cup {"database"}
<1>1. Stopped[r] = StopAll /\ Len(StopAll) = 8
  BY DEF Stopped, StopAll
<1> QED
  BY <1>1, Lists DEF StopAll, Before, Served, Services

LEMMA ReaderOrder ==
    /\ ToSet(Stopped["readonly"]) = {"database", "alerting", "threat_intel"}
    /\ {"database", "alerting", "threat_intel"} \subseteq
           Before(Stopped["readonly"], Len(Stopped["readonly"])) \cup {"database"}
<1>1. ToSet(Stopped["readonly"]) = {"database", "alerting", "threat_intel"}
  BY DEF ToSet, Stopped
<1>2. Stopped["readonly"][1] = "threat_intel" /\ Stopped["readonly"][2] = "alerting"
      /\ Len(Stopped["readonly"]) = 3
  BY DEF Stopped
<1> QED
  BY <1>1, <1>2 DEF Before

LEMMA StopEnds == \A r \in Roles : Stopped[r][Len(Stopped[r])] = "database"
<1> SUFFICES ASSUME NEW r \in Roles PROVE Stopped[r][Len(Stopped[r])] = "database"
  OBVIOUS
<1>1. CASE r # "readonly"
  <2>1. Stopped[r] = StopAll
    BY <1>1 DEF Stopped, Roles
  <2> QED
    BY <2>1 DEF StopAll
<1>2. CASE r = "readonly"
  BY <1>2 DEF Stopped
<1> QED
  BY <1>1, <1>2

LEMMA OneLong ==
    ASSUME NEW S, NEW list \in Seq(S), NEW k \in 1 .. Len(list)
    PROVE  SubSeq(list, k, k) = <<list[k]>>
<1>1. list[k] \in S /\ k \in Int
  BY ElementOfSeq, LenProperties
<1>2. /\ SubSeq(list, k, k) \in Seq(S) /\ Len(SubSeq(list, k, k)) = 1
      /\ SubSeq(list, k, k)[1] = list[k]
  BY <1>1
<1>3. <<list[k]>> \in Seq(S) /\ Len(<<list[k]>>) = 1 /\ <<list[k]>>[1] = list[k]
  BY <1>1
<1>4. PICK s \in Seq(S) : s = SubSeq(list, k, k)
  BY <1>2
<1>5. PICK t \in Seq(S) : t = <<list[k]>>
  BY <1>3
<1>6. Len(s) = Len(t) /\ \A i \in 1 .. Len(s) : s[i] = t[i]
  BY <1>2, <1>3, <1>4, <1>5
<1>7. s = t
  BY <1>6, SeqEqual, Zenon
<1> QED
  BY <1>4, <1>5, <1>7

LEMMA FromStep ==
    ASSUME NEW S, NEW list \in Seq(S), NEW k \in 1 .. Len(list)
    PROVE  /\ From(list, k) # <<>>
           /\ Head(From(list, k)) = list[k]
           /\ Tail(From(list, k)) = <<>> <=> k = Len(list)
           /\ Tail(From(list, k)) = From(list, k + 1)
<1>1. Len(list) \in Nat /\ Len(list) \in k .. Len(list)
  BY LenProperties
<1>2. Head(From(list, k)) = list[k] /\ Tail(From(list, k)) = From(list, k + 1)
  BY <1>1, HeadTailOfSubSeq DEF From
<1>3. \A j \in 1 .. Len(list) : From(list, j) # <<>>
  <2> TAKE j \in 1 .. Len(list)
  <2>1. \A i \in j .. Len(list) : list[i] \in S
    BY <1>1, ElementOfSeq
  <2>2. From(list, j) \in Seq(S) /\ Len(From(list, j)) = Len(list) - j + 1
    BY <1>1, <2>1, SubSeqProperties DEF From
  <2> QED
    BY <1>1, <2>2, EmptySeq
<1>4. k = Len(list) => From(list, k + 1) = <<>>
  BY <1>1, SubSeqEmpty DEF From
<1>5. k # Len(list) => From(list, k + 1) # <<>>
  BY <1>1, <1>3
<1> QED
  BY <1>2, <1>3, <1>4, <1>5

(* The detection service of a process takes the steps of EvaluationLoop.   *)
LEMMA LoopSteps == ASSUME [SystemNext]_systemVars PROVE [Next]_vars
<1>1. CASE Proceed
  BY <1>1 DEF Proceed, StartService, StopService, MigrationFails, LoadDetectors, StartDetection,
              StopDetection, StartCapture, StopCapture, Next
<1>2. CASE Work \/ Score
  BY <1>2 DEF Work, Score, Next, Evaluate
<1>3. CASE BeginStart \/ BeginStop \/ BeginCapture
  BY <1>3 DEF BeginStart, BeginStop, BeginCapture, Call
<1>4. CASE SnifferDies \/ EditThresholds \/ UNCHANGED systemVars
  BY <1>4 DEF SnifferDies, EditThresholds, systemVars
<1> QED
  BY <1>1, <1>2, <1>3, <1>4 DEF SystemNext

LEMMA SystemInitInv == SystemInit => SystemInv
<1> SUFFICES ASSUME SystemInit PROVE SystemInv
  OBVIOUS
<1>1. LoopInv
  BY InitInv DEF SystemInit
<1>2. /\ loaded = 0 /\ service = "stopped" /\ up = {} /\ call = "none" /\ script = <<>>
      /\ calls = 0 /\ sniffing = {} /\ sniffer = 0 /\ ~unwound /\ role \in Roles
      /\ at[Main] = "main" /\ \A w \in Loops : at[w] = "new"
  BY MainApart DEF SystemInit, Built, Init, NoSniffer
<1>3. InCall
  BY <1>2 DEF InCall
<1> QED
  BY <1>1, <1>2, <1>3
     DEF SystemInv, AtDetection, NotLoaded, Sniffers, Standing, Reader, NoSniffer

(* A call begins with a whole list, and finds the services as the last     *)
(* call left them.                                                         *)
LEMMA BeginStep ==
    ASSUME SystemInv, BeginStart \/ BeginStop \/ BeginCapture
    PROVE  SystemInv'
<1> USE DEF SystemInv
<1>1. /\ call = "none" /\ UNCHANGED <<vars, role, failed, up, capturing, thresholds>>
      /\ calls' = calls + 1 /\ unwound' = FALSE /\ call' \in {"start", "stop"}
  BY DEF BeginStart, BeginStop, BeginCapture, Call
<1>2. LoopInv'
  BY <1>1, StepInv
<1>3. /\ \A list : Before(list, 1) = {}
      /\ \A r \in Roles : /\ From(Started[r], 1) = Started[r] /\ 1 \in 1 .. Len(Started[r])
                          /\ From(Stopped[r], 1) = Stopped[r] /\ 1 \in 1 .. Len(Stopped[r])
                          /\ Started[r] # <<>> /\ Stopped[r] # <<>>
  BY Lists, SubSeqFull, LenProperties, EmptySeq DEF Before, From
<1>4. \/ call' = "start" /\ script' = Started[role]
      \/ call' = "stop" /\ script' = Stopped[role] /\ ~unwound
      \/ script' = <<"capture">> /\ ToSet(Pipeline) \subseteq up
  BY DEF BeginStart, BeginStop, BeginCapture, Call
<1>5. CASE call' = "start" /\ script' = Started[role]
  <2>1. Starting(1)' /\ script' # <<>>
    BY <1>1, <1>3, <1>5 DEF Starting, InCall
  <2> QED
    BY <1>1, <1>2, <1>3, <1>5, <2>1
       DEF InCall, AtDetection, At, NotLoaded, Sniffers, Standing, Reader, vars, control, capturing
<1>6. CASE call' = "stop" /\ script' = Stopped[role] /\ ~unwound
  <2>1. ~failed /\ loaded # 0 => Served \subseteq up
    BY <1>1, <1>6 DEF Standing
  <2>2. Stopping(1)' /\ script' # <<>>
    BY <1>1, <1>3, <1>6, <2>1 DEF Stopping, InCall, vars, control
  <2> QED
    BY <1>1, <1>2, <1>3, <1>6, <2>2
       DEF InCall, AtDetection, At, NotLoaded, Sniffers, Standing, Reader, vars, control, capturing
<1>7. CASE script' = <<"capture">> /\ ToSet(Pipeline) \subseteq up
  BY <1>1, <1>2, <1>7
     DEF InCall, OnlyCapture, AtDetection, At, NotLoaded, Sniffers, Standing, Reader, vars,
         control, capturing
<1> QED
  BY <1>4, <1>5, <1>6, <1>7

(* Where a start() is when it starts s, and what it may rely on.           *)
LEMMA StartPlace ==
    ASSUME InCall, NEW s, At("start", s)
    PROVE  /\ s \in Services
           /\ s = "detection" => role # "readonly" /\ Served \subseteq up
           /\ s = "capture" => ToSet(Pipeline) \subseteq up
           /\ role = "readonly" => s \in {"database", "alerting", "threat_intel"} \/ OnlyCapture
           /\ \/ OnlyCapture /\ Tail(script) = <<>>
              \/ \E k \in 1 .. Len(Started[role]) :
                   /\ Starting(k) /\ Started[role][k] = s
                   /\ Tail(script) = <<>> <=> k = Len(Started[role])
                   /\ Tail(script) = From(Started[role], k + 1)
                   /\ Before(Started[role], k + 1) = Before(Started[role], k) \cup {s}
<1>1. call = "start" /\ script # <<>> /\ Head(script) = s
  BY DEF At
<1>2. CASE OnlyCapture
  BY <1>1, <1>2, Lists DEF OnlyCapture, Services
<1>3. CASE \E k \in 1 .. Len(Started[role]) : Starting(k)
  <2>1. PICK k \in 1 .. Len(Started[role]) : Starting(k)
    BY <1>3
  <2>2. Started[role] \in Seq(Services) /\ role \in Roles
    BY Lists DEF InCall
  <2>3. /\ Started[role][k] = s
        /\ Tail(script) = <<>> <=> k = Len(Started[role])
        /\ Tail(script) = From(Started[role], k + 1)
    <3>1. script = From(Started[role], k)
      BY <2>1 DEF Starting
    <3>2. /\ Head(From(Started[role], k)) = Started[role][k]
          /\ Tail(From(Started[role], k)) = <<>> <=> k = Len(Started[role])
          /\ Tail(From(Started[role], k)) = From(Started[role], k + 1)
      BY <2>2, FromStep, Zenon
    <3> QED
      BY <1>1, <3>1, <3>2
  <2>4. Before(Started[role], k + 1) = Before(Started[role], k) \cup {s}
    BY <2>2, <2>3 DEF Before
  <2>5. /\ s = "detection" => role # "readonly" /\ Served \subseteq up
        /\ s = "capture" => ToSet(Pipeline) \subseteq up
    BY <2>1, <2>2, <2>3, StartOrder DEF Starting
  <2>6. s \in Services /\ (role = "readonly" => s \in {"database", "alerting", "threat_intel"})
    <3>1. s \in Services /\ DOMAIN Started[role] = 1 .. Len(Started[role])
      BY <2>2, <2>3, ElementOfSeq, LenProperties
    <3>2. s \in ToSet(Started[role])
      BY <2>3, <3>1 DEF ToSet
    <3> QED
      BY <3>1, <3>2, Lists
  <2> QED
    BY <2>1, <2>3, <2>4, <2>5, <2>6
<1> QED
  BY <1>1, <1>2, <1>3 DEF InCall

(* A service has been started: the call is over, or its list goes on.      *)
LEMMA StartedOne ==
    ASSUME InCall, NEW s, At("start", s), Advance, up' = up \cup {s}
    PROVE  /\ InCall' /\ ~unwound'
           /\ call' = "none" => role = "readonly" \/ Served \subseteq up'
<1>1. /\ call = "start" /\ script # <<>> /\ Head(script) = s /\ role' = role /\ calls' = calls
      /\ script' = Tail(script) /\ call' = IF Tail(script) = <<>> THEN "none" ELSE "start"
      /\ ~unwound'
  BY DEF At, Advance
<1>2. CASE OnlyCapture /\ Tail(script) = <<>>
  BY <1>1, <1>2, Lists DEF InCall, OnlyCapture
<1>3. ASSUME NEW k \in 1 .. Len(Started[role]),
             Starting(k), Started[role][k] = s,
             Tail(script) = <<>> <=> k = Len(Started[role]),
             Tail(script) = From(Started[role], k + 1),
             Before(Started[role], k + 1) = Before(Started[role], k) \cup {s}
      PROVE  InCall' /\ (call' = "none" => role = "readonly" \/ Served \subseteq up')
  <2>1. role \in Roles /\ Len(Started[role]) \in Nat
    BY Lists, LenProperties DEF InCall
  <2>2. call' = "none" => role = "readonly" \/ Served \subseteq up
    BY <1>1, <1>3, <2>1, StartOrder DEF Starting
  <2>3. k # Len(Started[role]) => k + 1 \in 1 .. Len(Started[role]) /\ Starting(k + 1)'
    BY <1>1, <1>3, <2>1 DEF Starting
  <2> QED
    BY <1>1, <1>3, <2>1, <2>2, <2>3 DEF InCall
<1> QED
  BY <1>1, <1>2, <1>3, StartPlace

(* Where a stop() is when it stops s.                                      *)
LEMMA StopPlace ==
    ASSUME InCall, NEW s, At("stop", s)
    PROVE  \/ OnlyCapture /\ s = "capture" /\ Tail(script) = <<>> /\ script # <<"database">>
           \/ \E k \in 1 .. Len(Stopped[role]) :
                /\ Stopping(k) /\ Stopped[role][k] = s
                /\ Tail(script) = <<>> <=> k = Len(Stopped[role])
                /\ script = <<"database">> <=> k = Len(Stopped[role])
                /\ Tail(script) = From(Stopped[role], k + 1)
                /\ Before(Stopped[role], k + 1) = Before(Stopped[role], k) \cup {s}
<1>1. call = "stop" /\ script # <<>> /\ Head(script) = s
  BY DEF At
<1>2. CASE OnlyCapture
  BY <1>1, <1>2 DEF OnlyCapture
<1>3. CASE \E k \in 1 .. Len(Stopped[role]) : Stopping(k)
  <2>1. PICK k \in 1 .. Len(Stopped[role]) : Stopping(k)
    BY <1>3
  <2>2. Stopped[role] \in Seq(Services) /\ role \in Roles
    BY Lists DEF InCall
  <2>3. /\ Stopped[role][k] = s /\ script = From(Stopped[role], k)
        /\ Tail(script) = <<>> <=> k = Len(Stopped[role])
        /\ Tail(script) = From(Stopped[role], k + 1)
    BY <1>1, <2>1, <2>2, FromStep DEF Stopping
  <2>4. Before(Stopped[role], k + 1) = Before(Stopped[role], k) \cup {s}
    BY <2>2, <2>3 DEF Before
  <2>5. script = <<"database">> => Tail(script) = <<>>
    OBVIOUS
  <2>6. k = Len(Stopped[role]) => script = <<"database">>
    <3> SUFFICES ASSUME k = Len(Stopped[role]) PROVE script = <<"database">>
      OBVIOUS
    <3>1. s = "database"
      BY <2>2, <2>3, StopEnds
    <3>2. SubSeq(Stopped[role], k, k) = <<Stopped[role][k]>>
      BY <2>2, OneLong
    <3> QED
      BY <2>3, <3>1, <3>2 DEF From
  <2> QED
    BY <2>1, <2>3, <2>4, <2>5, <2>6
<1> QED
  BY <1>1, <1>2, <1>3 DEF InCall

(* What a service that is about to be stopped may rely on.                 *)
LEMMA StopFacts ==
    ASSUME SystemInv, NEW s, At("stop", s)
    PROVE  /\ s \in Services
           /\ s \in ToSet(Pipeline) => sniffing = {} \/ doubled
           /\ s \in Served \cup {"parser"} => service = "stopped"
           /\ s \in {"maintenance", "capture", "detection"} =>
                 role # "readonly" /\ (~failed /\ loaded # 0 => Served \subseteq up)
<1> USE DEF SystemInv
<1>1. CASE OnlyCapture /\ s = "capture"
  BY <1>1, Lists DEF OnlyCapture, Services, Served, Reader
<1>2. CASE \E k \in 1 .. Len(Stopped[role]) : Stopping(k) /\ Stopped[role][k] = s
  <2>1. PICK k \in 1 .. Len(Stopped[role]) : Stopping(k) /\ Stopped[role][k] = s
    BY <1>2
  <2>2. Stopped[role] \in Seq(Services) /\ role \in Roles
    BY Lists DEF InCall
  <2>3. s \in Services /\ DOMAIN Stopped[role] = 1 .. Len(Stopped[role])
    BY <2>1, <2>2, ElementOfSeq, LenProperties
  <2>4. CASE role # "readonly"
    BY <2>1, <2>2, <2>3, <2>4, StopOrder DEF Stopping, Roles
  <2>5. CASE role = "readonly"
    <3>1. s \in {"database", "alerting", "threat_intel"}
      BY <2>1, <2>3, <2>5, ReaderOrder DEF ToSet
    <3>2. loaded = 0 /\ sniffing = {} /\ service = "stopped"
      BY <2>5, <3>1 DEF Reader, NotLoaded, AtDetection, At, LoopInv, TypeOK
    <3> QED
      BY <2>3, <3>1, <3>2
  <2> QED
    BY <2>4, <2>5
<1> QED
  BY <1>1, <1>2, StopPlace

(* A service has been stopped, and has shown what it leaves behind.        *)
LEMMA StoppedOne ==
    ASSUME SystemInv, NEW s, At("stop", s), Advance, up' = up \ {s},
           UNCHANGED <<loaded, doubled>>, sniffing' \subseteq sniffing,
           service' = service \/ service' = "stopped",
           s = "capture" => sniffing' = {} \/ doubled,
           s = "detection" => service' = "stopped"
    PROVE  /\ InCall'
           /\ ~failed' /\ loaded' # 0 /\ call' = "none" => Served \subseteq up' \/ unwound'
           /\ unwound' => up' = {} /\ service' = "stopped" /\ (sniffing' = {} \/ doubled')
<1> USE DEF SystemInv
<1>1. /\ call = "stop" /\ script # <<>> /\ role' = role /\ calls' = calls /\ failed' = failed
      /\ script' = Tail(script) /\ call' = IF Tail(script) = <<>> THEN "none" ELSE "stop"
      /\ unwound' = (script = <<"database">>)
  BY DEF At, Advance
<1>2. CASE OnlyCapture /\ s = "capture" /\ Tail(script) = <<>> /\ script # <<"database">>
  BY <1>1, <1>2, Lists DEF InCall, OnlyCapture, Served
<1>3. ASSUME NEW k \in 1 .. Len(Stopped[role]),
             Stopping(k), Stopped[role][k] = s,
             Tail(script) = <<>> <=> k = Len(Stopped[role]),
             script = <<"database">> <=> k = Len(Stopped[role]),
             Tail(script) = From(Stopped[role], k + 1),
             Before(Stopped[role], k + 1) = Before(Stopped[role], k) \cup {s}
      PROVE  /\ InCall'
             /\ ~failed' /\ loaded' # 0 /\ call' = "none" => Served \subseteq up' \/ unwound'
             /\ unwound' => up' = {} /\ service' = "stopped" /\ (sniffing' = {} \/ doubled')
  <2>1. role \in Roles /\ Len(Stopped[role]) \in Nat
    BY Lists, LenProperties DEF InCall
  <2>2. s \in Served /\ loaded # 0 => "detection" \in Before(Stopped[role], k)
    BY <1>3, <2>1, StopOrder DEF Roles, Reader
  <2>3. /\ Before(Stopped[role], k + 1) \cap up' = {}
        /\ "capture" \in Before(Stopped[role], k + 1) => sniffing' = {} \/ doubled'
        /\ "detection" \in Before(Stopped[role], k + 1) => service' = "stopped"
        /\ ~failed' /\ loaded' # 0 /\ "detection" \notin Before(Stopped[role], k + 1) =>
              Served \subseteq up'
    BY <1>1, <1>3, <2>2 DEF Stopping
  <2>4. k # Len(Stopped[role]) => k + 1 \in 1 .. Len(Stopped[role]) /\ Stopping(k + 1)'
    BY <1>1, <1>3, <2>1, <2>3 DEF Stopping
  <2>5. InCall'
    BY <1>1, <1>3, <2>1, <2>4 DEF InCall
  <2>6. ASSUME k = Len(Stopped[role])
        PROVE  up' = {} /\ service' = "stopped" /\ (sniffing' = {} \/ doubled')
    <3>1. CASE role # "readonly"
      <4>1. Services \subseteq Before(Stopped[role], k + 1)
        BY <1>3, <2>1, <2>6, <3>1, StopOrder DEF Roles
      <4> QED
        BY <2>3, <4>1 DEF Services, Standing
    <3>2. CASE role = "readonly"
      <4>1. up \subseteq Before(Stopped[role], k + 1)
        BY <1>3, <2>1, <2>6, <3>2, ReaderOrder, StopEnds DEF Reader
      <4>2. s \in Served
        BY <1>3, <2>1, <2>6, StopEnds DEF Served
      <4>3. service = "stopped"
        BY <4>2, StopFacts
      <4> QED
        BY <2>3, <3>2, <4>1, <4>3 DEF Reader
    <3> QED
      BY <3>1, <3>2
  <2> QED
    BY <1>1, <1>3, <2>5, <2>6
<1> QED
  BY <1>2, <1>3, StopPlace

(* The services that keep no state here.                                   *)
LEMMA ServiceStep ==
    ASSUME SystemInv, StartService \/ StopService \/ MigrationFails PROVE SystemInv'
<1> USE DEF SystemInv
<1>1. UNCHANGED <<vars, capturing>>
  BY DEF StartService, StopService, MigrationFails
<1>2. LoopInv'
  BY <1>1, StepInv
<1>3. CASE StartService
  <2>1. PICK s \in Services \ {"detection", "capture"} :
           At("start", s) /\ up' = up \cup {s} /\ Advance
    BY <1>3 DEF StartService, Services
  <2>2. /\ InCall' /\ ~unwound'
        /\ call' = "none" => role = "readonly" \/ Served \subseteq up'
        /\ role = "readonly" => s \in {"database", "alerting", "threat_intel"} \/ OnlyCapture
    BY <2>1, StartedOne, StartPlace
  <2>3. OnlyCapture => role # "readonly"
    BY Lists DEF OnlyCapture, Reader, Served
  <2>4. service \in {"stopped", "started"} /\ role' = role /\ failed' = failed
    BY <2>1 DEF At, Advance, AtDetection, LoopInv, TypeOK
  <2> QED
    BY <1>1, <1>2, <2>1, <2>2, <2>3, <2>4
       DEF AtDetection, NotLoaded, Sniffers, Standing, Reader, vars, control, capturing
<1>4. CASE StopService
  <2>1. PICK s \in Services \ {"detection", "capture"} :
           At("stop", s) /\ up' = up \ {s} /\ Advance
    BY <1>4 DEF StopService, Services
  <2>2. /\ InCall'
        /\ ~failed' /\ loaded' # 0 /\ call' = "none" => Served \subseteq up' \/ unwound'
        /\ unwound' => up' = {} /\ service' = "stopped" /\ (sniffing' = {} \/ doubled')
    BY <1>1, <2>1, StoppedOne DEF vars, control, capturing
  <2>3. /\ s \in ToSet(Pipeline) => sniffing = {} \/ doubled
        /\ s \in Served => service = "stopped"
    BY <2>1, StopFacts
  <2>4. service \in {"stopped", "started"} /\ role' = role /\ failed' = failed
    BY <2>1 DEF At, Advance, AtDetection, LoopInv, TypeOK
  <2> QED
    BY <1>1, <1>2, <2>1, <2>2, <2>3, <2>4
       DEF AtDetection, NotLoaded, Sniffers, Standing, Reader, vars, control, capturing
<1>5. CASE MigrationFails
  <2>1. /\ call = "start" /\ call' = "none" /\ script' = <<>> /\ failed' = TRUE
        /\ UNCHANGED <<role, calls, unwound, up>>
        /\ service \in {"stopped", "started"} /\ ~unwound
    BY <1>5 DEF MigrationFails, At, Raise, AtDetection, LoopInv, TypeOK, InCall
  <2> QED
    BY <1>1, <1>2, <2>1
       DEF InCall, AtDetection, NotLoaded, Sniffers, Standing, Reader, vars, control, capturing
<1> QED
  BY <1>3, <1>4, <1>5

(* The detection service: loaded and started at its place in start(),      *)
(* stopped by its own steps at its place in stop().                        *)
LEMMA DetectionStep ==
    ASSUME SystemInv, LoadDetectors \/ StartDetection \/ StopDetection PROVE SystemInv'
<1> USE DEF SystemInv
<1>1. UNCHANGED capturing /\ [Next]_vars
  BY DEF LoadDetectors, StartDetection, StopDetection, Next
<1>2. LoopInv'
  BY <1>1, StepInv
<1>3. CASE LoadDetectors
  <2>1. /\ At("start", "detection") /\ loaded' = loaded + 1 /\ service' = "loaded"
        /\ service \in {"stopped", "started"} /\ UNCHANGED <<thread, at, calling, up>>
    BY <1>3 DEF LoadDetectors, Load
  <2>2. role # "readonly" /\ Served \subseteq up /\ loaded' # 0
    BY <2>1, StartPlace DEF LoopInv, TypeOK, Loads
  <2> QED
    BY <1>1, <1>2, <2>1, <2>2
       DEF InCall, Starting, Stopping, OnlyCapture, At, AtDetection, NotLoaded, Sniffers,
           Standing, Reader, calling, capturing
<1>4. CASE At("start", "detection") /\ Start /\ Advance /\ up' = up \cup {"detection"}
  <2>1. /\ At("start", "detection") /\ service = "loaded" /\ service' = "started"
        /\ Advance /\ up' = up \cup {"detection"} /\ loaded' = loaded /\ loaded # 0
        /\ thread' \in Loops /\ role' = role /\ failed' = failed
    BY <1>4, MainApart DEF Start, Advance, NotLoaded, Alive
  <2>2. InCall' /\ ~unwound' /\ role # "readonly" /\ Served \subseteq up
    BY <2>1, StartedOne, StartPlace
  <2> QED
    BY <1>1, <1>2, <2>1, <2>2, MainApart
       DEF AtDetection, NotLoaded, Sniffers, Standing, Reader, capturing, Services
<1>5. CASE At("start", "detection") /\ StartRaises /\ Raise /\ up' = up
  <2>1. /\ At("start", "detection") /\ service = "loaded" /\ service' \in {"started", "stopped"}
        /\ thread # NoLoop => service' = "started"
        /\ UNCHANGED <<loaded, thread, at, up, role, calls, unwound>>
        /\ call' = "none" /\ script' = <<>> /\ failed' = TRUE
    BY <1>5 DEF StartRaises, Raise, At, LoopInv, Attended
  <2> QED
    BY <1>1, <1>2, <2>1
       DEF InCall, At, AtDetection, NotLoaded, Sniffers, Standing, Reader, capturing
<1>6. CASE At("stop", "detection") /\ (StopBegin \/ StopJoin) /\ UNCHANGED <<calling, up>>
  <2>1. /\ At("stop", "detection") /\ service' \in {"joining", "last"}
        /\ UNCHANGED <<loaded, calling, up>>
        /\ \A w \in Loops : at'[w] = at[w]
        /\ loaded = 0 => at'[Main] = at[Main]
    BY <1>6, MainApart DEF StopBegin, StopJoin, Goto, LoopInv, TypeOK, NotLoaded
  <2>2. role # "readonly" /\ (~failed /\ loaded # 0 => Served \subseteq up)
    BY <2>1, StopFacts
  <2>3. InCall'
    <3>1. CASE OnlyCapture
      BY <2>1, <3>1 DEF OnlyCapture, At
    <3>2. ASSUME NEW k \in 1 .. Len(Stopped[role]), Stopping(k), Stopped[role][k] = "detection"
          PROVE  InCall'
      <4>1. "detection" \notin Before(Stopped[role], k)
        BY <2>2, <3>2, StopOrder DEF InCall, Roles
      <4>2. Stopping(k)'
        BY <1>1, <2>1, <3>2, <4>1 DEF Stopping, calling, capturing
      <4> QED
        BY <2>1, <4>2 DEF InCall, At, calling
    <3> QED
      BY <2>1, <3>1, <3>2, StopPlace
  <2> QED
    BY <1>1, <1>2, <2>1, <2>2, <2>3
       DEF InCall, At, AtDetection, NotLoaded, Sniffers, Standing, Reader, calling, capturing
<1>7. CASE At("stop", "detection") /\ StopEnd /\ Advance /\ up' = up \ {"detection"}
  <2>1. /\ At("stop", "detection") /\ service' = "stopped" /\ Advance
        /\ up' = up \ {"detection"} /\ UNCHANGED <<loaded, at>>
        /\ role' = role /\ failed' = failed
    BY <1>7 DEF StopEnd, Advance
  <2>2. /\ InCall'
        /\ ~failed' /\ loaded' # 0 /\ call' = "none" => Served \subseteq up' \/ unwound'
        /\ unwound' => up' = {} /\ service' = "stopped" /\ (sniffing' = {} \/ doubled')
    BY <1>1, <2>1, StoppedOne DEF capturing
  <2>3. sniffing = {} \/ doubled
    BY <2>1, StopFacts, Lists
  <2> QED
    BY <1>1, <1>2, <2>1, <2>2, <2>3
       DEF AtDetection, NotLoaded, Sniffers, Standing, Reader, capturing
<1> QED
  BY <1>3, <1>4, <1>5, <1>6, <1>7 DEF StartDetection, StopDetection

(* A second start leaves the first sniffer to itself; a stop finds its     *)
(* sniffer alive, or raises.                                               *)
LEMMA CaptureStep ==
    ASSUME SystemInv, StartCapture \/ StopCapture \/ SnifferDies PROVE SystemInv'
<1> USE DEF SystemInv
<1>1. UNCHANGED vars
  BY DEF StartCapture, StopCapture, SnifferDies
<1>2. LoopInv'
  BY <1>1, StepInv
<1>3. CASE StartCapture
  <2>1. /\ At("start", "capture") /\ Advance /\ up' = up \cup {"capture"}
        /\ sniffer' = calls /\ sniffing' = sniffing \cup {calls}
        /\ doubled' = (doubled \/ sniffer \in sniffing)
        /\ role' = role /\ failed' = failed /\ calls \in Nat \ {0}
    BY <1>3 DEF StartCapture, Advance, InCall, At
  <2>2. /\ InCall' /\ ~unwound'
        /\ call' = "none" => role = "readonly" \/ Served \subseteq up'
        /\ ToSet(Pipeline) \subseteq up
    BY <2>1, StartedOne, StartPlace
  <2>3. role # "readonly"
    BY <2>2, Lists DEF Reader, Served
  <2>4. service \in {"stopped", "started"}
    BY <2>1 DEF At, AtDetection, LoopInv, TypeOK
  <2> QED
    BY <1>1, <1>2, <2>1, <2>2, <2>3, <2>4
       DEF AtDetection, NotLoaded, Sniffers, Standing, Reader, vars, control, NoSniffer, Services
<1>4. CASE StopCapture /\ sniffer \in sniffing \cup {NoSniffer}
  <2>1. /\ At("stop", "capture") /\ Advance /\ up' = up \ {"capture"}
        /\ sniffer' = NoSniffer /\ sniffing' = sniffing \ {sniffer} /\ doubled' = doubled
        /\ role' = role /\ failed' = failed
    BY <1>4 DEF StopCapture, Advance
  <2>2. sniffing' = {} \/ doubled
    BY <1>4, <2>1 DEF Sniffers
  <2>3. /\ InCall'
        /\ ~failed' /\ loaded' # 0 /\ call' = "none" => Served \subseteq up' \/ unwound'
        /\ unwound' => up' = {} /\ service' = "stopped" /\ (sniffing' = {} \/ doubled')
    BY <1>1, <2>1, <2>2, StoppedOne DEF vars, control
  <2>4. service \in {"stopped", "started"} /\ role # "readonly"
    BY <2>1, StopFacts DEF At, AtDetection, LoopInv, TypeOK
  <2> QED
    BY <1>1, <1>2, <2>1, <2>2, <2>3, <2>4
       DEF AtDetection, NotLoaded, Sniffers, Standing, Reader, vars, control, NoSniffer, Served
<1>5. CASE StopCapture /\ sniffer \notin sniffing \cup {NoSniffer}
  <2>1. /\ At("stop", "capture") /\ call' = "none" /\ script' = <<>> /\ call = "stop"
        /\ ~failed' => ~failed
        /\ UNCHANGED <<role, calls, unwound, up, sniffer, sniffing, doubled>>
    BY <1>5 DEF StopCapture, Raise, At
  <2>2. ~failed /\ loaded # 0 => Served \subseteq up
    BY <2>1, StopFacts
  <2>3. service \in {"stopped", "started"}
    BY <2>1 DEF At, AtDetection, LoopInv, TypeOK
  <2> QED
    BY <1>1, <1>2, <2>1, <2>2, <2>3
       DEF InCall, AtDetection, NotLoaded, Sniffers, Standing, Reader, vars, control
<1>6. CASE SnifferDies
  <2>1. /\ sniffing' \subseteq sniffing /\ UNCHANGED <<vars, calling, up, sniffer, doubled>>
    BY <1>6 DEF SnifferDies
  <2>2. \A k : Stopping(k) => Stopping(k)'
    BY <2>1 DEF Stopping, calling, vars, control
  <2>3. InCall'
    BY <2>1, <2>2 DEF InCall, OnlyCapture, Starting, calling
  <2> QED
    BY <1>2, <2>1, <2>3
       DEF AtDetection, At, NotLoaded, Sniffers, Standing, Reader, calling, vars, control
<1> QED
  BY <1>3, <1>4, <1>5, <1>6

(* The threads of the detection service touch nothing of the process.      *)
LEMMA WorkStep ==
    ASSUME SystemInv, Work \/ Score \/ EditThresholds \/ UNCHANGED systemVars PROVE SystemInv'
<1> USE DEF SystemInv
<1>1. UNCHANGED <<calling, up, capturing, control>>
  BY DEF Work, Score, EditThresholds, systemVars, vars, Cross, Wait, Ask, Add, Dispatch
<1>2. LoopInv'
  BY LoopSteps, StepInv DEF SystemNext
<1>3. \A k : (Starting(k) => Starting(k)') /\ (Stopping(k) => Stopping(k)')
  BY <1>1 DEF Starting, Stopping, calling, capturing, control
<1>4. InCall'
  BY <1>1, <1>3 DEF InCall, OnlyCapture, calling
<1>5. NotLoaded'
  <2> SUFFICES ASSUME loaded = 0 PROVE at' = at
    BY <1>1 DEF NotLoaded, control
  <2> QED
    BY MainApart DEF NotLoaded, Work, Score, EditThresholds, systemVars, vars, Cross, Wait, Ask, Add,
                     Dispatch
<1> QED
  BY <1>1, <1>2, <1>4, <1>5
     DEF AtDetection, At, Sniffers, Standing, Reader, calling, capturing, control

LEMMA SystemStepInv == ASSUME SystemInv, [SystemNext]_systemVars PROVE SystemInv'
  BY BeginStep, ServiceStep, DetectionStep, CaptureStep, WorkStep DEF SystemNext, Proceed

LEMMA SystemAlways == SystemInit /\ [][SystemNext]_systemVars => []SystemInv
  BY SystemInitInv, SystemStepInv, PTL

(* A process runs the evaluation loop as its module describes it.          *)
THEOREM ProcessRunsLoop == SystemSpec => Spec
<1>1. SystemInit => Init
  BY DEF SystemInit
<1> QED
  BY <1>1, LoopSteps, PTL DEF SystemSpec, Spec

(* detectors/edge.py: whatever calls start and stop the process, and with  *)
(* failed starts between, an episode is raised at most once by a detector  *)
(* until a loop has outlasted the wait of a stop().                        *)
THEOREM ProcessRaisesOnce == SystemSpec => []RaisedOnce
  BY ProcessRunsLoop, EpisodesRaiseOnce

(* sdk/lifecycle.py, "Downstream services must be ready before the first   *)
(* packet arrives".                                                        *)
THEOREM NothingFedEarly == SystemSpec => []FedWhileReady
<1>1. SystemInv => FedWhileReady
  <2> SUFFICES ASSUME SystemInv, Asking # {}, ~outrun, ~failed PROVE Served \subseteq up
    BY DEF FedWhileReady, SystemInv, Sniffers, Served
  <2>1. loaded # 0
    BY MainApart DEF SystemInv, NotLoaded, Asking
  <2>2. service # "stopped"
    BY MainApart DEF SystemInv, LoopInv, Attended, AsksLast, NoneForgotten, Asking, Alive
  <2> QED
    BY <2>1, <2>2 DEF SystemInv, Standing
<1> QED
  BY <1>1, SystemAlways, PTL DEF SystemSpec

(* sdk/lifecycle.py, stop(): a stop that has returned leaves nothing up.   *)
THEOREM StopUnwinds == SystemSpec => []UnwoundClean
<1>1. SystemInv => UnwoundClean
  <2> SUFFICES ASSUME SystemInv, unwound PROVE UnwoundClean
    BY DEF UnwoundClean
  <2>1. up = {} /\ service = "stopped" /\ (sniffing = {} \/ doubled)
    BY DEF SystemInv, Standing
  <2>2. (Alive = {} \/ outrun) /\ at[Main] = "main"
    BY <2>1, MainApart DEF SystemInv, LoopInv, Attended, AsksLast, NoneForgotten, Alive
  <2> QED
    BY <2>1, <2>2 DEF UnwoundClean
<1> QED
  BY <1>1, SystemAlways, PTL DEF SystemSpec

(* sdk/health.py: "ok" is said of a process whose loop and sniffer run.    *)
THEOREM HealthIsTrue == SystemSpec => []HealthIsDeserved
<1>1. SystemInv => HealthIsDeserved
  <2> SUFFICES ASSUME SystemInv, {"detection", "capture", "maintenance"} \subseteq up
               PROVE  thread \in Alive /\ sniffer # NoSniffer
    BY Lists DEF HealthIsDeserved, Health, Services
  <2>1. ~ At("stop", "detection")
    <3> SUFFICES ASSUME At("stop", "detection") PROVE FALSE
      OBVIOUS
    <3>1. role # "readonly"
      BY StopFacts
    <3>2. PICK k \in 1 .. Len(Stopped[role]) : Stopping(k) /\ Stopped[role][k] = "detection"
      BY StopPlace DEF SystemInv
    <3>3. "maintenance" \in Before(Stopped[role], k)
      BY <3>1, <3>2, StopOrder, Lists DEF SystemInv, InCall, Roles
    <3> QED
      BY <3>2, <3>3 DEF Stopping
  <2>2. service \in {"loaded", "started"} /\ thread # NoLoop
    BY <2>1 DEF SystemInv, AtDetection, LoopInv, TypeOK
  <2> QED
    BY <2>2 DEF SystemInv, Sniffers, LoopInv, Attended
<1> QED
  BY <1>1, SystemAlways, PTL DEF SystemSpec
=============================================================================
