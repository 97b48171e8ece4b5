--------------------------- MODULE EnrichmentProofs ---------------------------
(***************************************************************************)
(* No alert handed to the enrichment worker is lost or worked on twice,    *)
(* for every number of alerts, depth of the queue and number of restarts,  *)
(* so for any number of loops that serve one queue.  Of the lookups: how   *)
(* old an answer can be and what an outage can cost, for every number of   *)
(* processes and callers, lifetime, threshold and cooldown.                *)
(***************************************************************************)
EXTENDS Enrichment, FiniteSetTheorems, TLAPS

Places == {"new", "loop", "get", "enrich", "save", "exited"}

(* OnePlace counts, and is not inductive: it does not say that a thread    *)
(* holds an alert exactly while it works on it, nor that a thread to come  *)
(* holds none.  What follows says where an alert is without counting.      *)
HeldAtWork ==
    /\ \A w \in Workers : own[w] # NoAlert <=> place[w] \in {"enrich", "save"}
    /\ \A w \in Workers : w > started => place[w] = "new"

Apart ==
    /\ \A i, j \in DOMAIN queue : queue[i] = queue[j] => i = j
    /\ \A v, w \in Workers : own[v] = own[w] /\ own[v] # NoAlert => v = w
    /\ \A i \in DOMAIN queue : queue[i] \notin Settled
    /\ \A w \in Workers : own[w] \notin Settled
    /\ \A w \in Workers : \A i \in DOMAIN queue : own[w] # queue[i]
    /\ dropped \cap (skipped \cup failed \cup saved) = {}
    /\ skipped \cap (failed \cup saved) = {} /\ failed \cap saved = {}

Handed ==
    /\ \A i \in DOMAIN queue : queue[i] <= submitted
    /\ \A w \in Workers : own[w] <= submitted
    /\ \A a \in Settled : a <= submitted

NoneLost ==
    \A a \in 1 .. submitted :
        \/ \E i \in DOMAIN queue : queue[i] = a
        \/ \E w \in Workers : own[w] = a
        \/ a \in Settled

WorkerInv == WorkerTypeOK /\ HeldAtWork /\ Apart /\ Handed /\ NoneLost

LEMMA InitHolds == WorkerInit => WorkerInv
<1> SUFFICES ASSUME WorkerInit PROVE WorkerInv
  OBVIOUS
<1>1. WorkerTypeOK
  <2>1. MaxStarts \in Nat /\ MaxQueueDepth \in Nat /\ Alerts \in Nat
    BY WorkerAssumption
  <2>2. queue \in Seq(Ids) /\ Len(queue) = 0
    BY DEF WorkerInit
  <2>3. 0 \in 0 .. 0 /\ 0 \in 0 .. MaxStarts /\ 0 \in 0 .. Alerts /\ 0 <= MaxQueueDepth
    BY <2>1
  <2> QED
    BY <2>2, <2>3 DEF WorkerInit, WorkerTypeOK, NoThread
<1>2. HeldAtWork
  BY DEF WorkerInit, HeldAtWork
<1>3. DOMAIN queue = {} /\ Settled = {}
  BY DEF WorkerInit, Settled
<1>4. Apart /\ Handed /\ NoneLost
  BY <1>3 DEF WorkerInit, Apart, Handed, NoneLost, NoAlert
<1> QED
  BY <1>1, <1>2, <1>4 DEF WorkerInv

----------------------------------------------------------------------------
(* A new alert is behind all others.                                       *)
LEMMA SubmitStep == WorkerInv /\ Submit => WorkerInv'
<1> SUFFICES ASSUME WorkerInv, Submit PROVE WorkerInv'
  OBVIOUS
<1> DEFINE a == submitted + 1
<1>0. /\ queue \in Seq(Ids) /\ Len(queue) <= MaxQueueDepth /\ submitted \in 0 .. Alerts
      /\ a \in Ids /\ own \in [Workers -> Ids \cup {NoAlert}] /\ submitted' = a
      /\ UNCHANGED <<stopping, thread, stopper, started, place, own, skipped, failed, saved>>
      /\ Alerts \in Nat /\ MaxQueueDepth \in Nat /\ NoAlert \in Nat
      /\ Settled \subseteq Ids /\ Ids \subseteq Nat
  BY WorkerAssumption DEF WorkerInv, WorkerTypeOK, Submit, Ids, Settled, NoAlert
<1>1. CASE Len(queue) < MaxQueueDepth
  <2>1. queue' = Append(queue, a) /\ dropped' = dropped
    BY <1>1 DEF Submit
  <2>2. /\ queue' \in Seq(Ids) /\ Len(queue') = Len(queue) + 1
        /\ \A i \in DOMAIN queue : queue'[i] = queue[i] /\ i \in DOMAIN queue'
        /\ queue'[Len(queue) + 1] = a
        /\ DOMAIN queue' = DOMAIN queue \cup {Len(queue) + 1}
    BY <1>0, <2>1
  <2>3. WorkerTypeOK' /\ HeldAtWork' /\ Settled' = Settled
    <3>1. Len(queue') <= MaxQueueDepth /\ submitted' \in 0 .. Alerts
      BY <1>0, <1>1, <2>2 DEF Ids
    <3> QED
      BY <1>0, <2>1, <2>2, <3>1 DEF WorkerInv, WorkerTypeOK, HeldAtWork, Settled
  <2>4. Handed'
    <3>1. \A n \in Nat : n <= submitted => n <= a
      BY <1>0
    <3>2. \A i \in DOMAIN queue : queue[i] \in Ids
      BY <1>0
    <3>3. a <= a
      BY <1>0
    <3>4. \A i \in DOMAIN queue' : queue'[i] <= a
      BY <1>0, <2>2, <3>1, <3>2, <3>3 DEF WorkerInv, Handed
    <3>5. \A w \in Workers : own[w] <= a
      <4>1. \A w \in Workers : own[w] \in Nat
        BY <1>0
      <4> QED
        BY <3>1, <4>1 DEF WorkerInv, Handed
    <3>6. \A b \in Settled : b <= a
      BY <1>0, <3>1 DEF WorkerInv, Handed
    <3> QED
      BY <1>0, <2>3, <3>4, <3>5, <3>6 DEF Handed
  <2>5. Apart'
    BY <1>0, <2>1, <2>2, <2>3 DEF WorkerInv, Handed, Apart, Ids, NoAlert
  <2>6. NoneLost'
    <3>1. \A b \in 1 .. a : b = a \/ b \in 1 .. submitted
      BY <1>0
    <3>2. \E i \in DOMAIN queue' : queue'[i] = a
      BY <2>2
    <3>3. NoneLost /\ own' = own
      BY <1>0 DEF WorkerInv
    <3> QED
      BY <1>0, <2>2, <2>3, <3>1, <3>2, <3>3, Zenon DEF NoneLost
  <2> QED
    BY <2>3, <2>4, <2>5, <2>6 DEF WorkerInv
<1>2. CASE ~(Len(queue) < MaxQueueDepth)
  <2>1. queue' = queue /\ dropped' = dropped \cup {a}
    BY <1>2 DEF Submit
  <2>2. WorkerTypeOK' /\ HeldAtWork' /\ Settled' = Settled \cup {a}
    <3>1. submitted' \in 0 .. Alerts
      BY <1>0 DEF Ids
    <3> QED
      BY <1>0, <2>1, <3>1 DEF WorkerInv, WorkerTypeOK, HeldAtWork, Settled
  <2>3. Handed'
    <3>1. \A n \in Nat : n <= submitted => n <= a
      BY <1>0
    <3>2. \A i \in DOMAIN queue : queue[i] \in Ids
      BY <1>0
    <3>3. a <= a
      BY <1>0
    <3>4. \A i \in DOMAIN queue : queue[i] <= a
      BY <1>0, <3>1, <3>2 DEF WorkerInv, Handed
    <3>5. \A w \in Workers : own[w] <= a
      <4>1. \A w \in Workers : own[w] \in Nat
        BY <1>0
      <4> QED
        BY <3>1, <4>1 DEF WorkerInv, Handed
    <3>6. \A b \in Settled : b <= a
      BY <1>0, <3>1 DEF WorkerInv, Handed
    <3> QED
      BY <1>0, <2>1, <2>2, <3>3, <3>4, <3>5, <3>6 DEF Handed
  <2>4. a \notin Settled /\ (\A w \in Workers : own[w] # a) /\ (\A i \in DOMAIN queue : queue[i] # a)
    BY <1>0 DEF WorkerInv, Handed, Ids, NoAlert
  <2>5. Apart'
    BY <1>0, <2>1, <2>2, <2>4 DEF WorkerInv, Apart, Settled
  <2>6. NoneLost'
    BY <1>0, <2>1, <2>2 DEF WorkerInv, NoneLost
  <2> QED
    BY <2>2, <2>3, <2>5, <2>6 DEF WorkerInv
<1> QED
  BY <1>1, <1>2

(* The first alert of the queue goes into the hands of the thread.         *)
LEMMA GetStep == ASSUME WorkerInv, NEW w \in Workers, Get(w) PROVE WorkerInv'
<1>0. /\ queue \in Seq(Ids) /\ own \in [Workers -> Ids \cup {NoAlert}]
      /\ place \in [Workers -> Places] /\ place[w] = "get" /\ own[w] = NoAlert
      /\ UNCHANGED <<stopping, thread, stopper, started, submitted, outcomes>>
      /\ Settled' = Settled
  BY DEF WorkerInv, WorkerTypeOK, HeldAtWork, Get, Places, Settled, outcomes
<1>1. CASE queue = <<>>
  <2>1. UNCHANGED <<queue, own>> /\ place' = [place EXCEPT ![w] = "loop"]
    BY <1>1 DEF Get, MoveTo
  <2> QED
    BY <1>0, <2>1
       DEF WorkerInv, WorkerTypeOK, HeldAtWork, Apart, Handed, NoneLost, outcomes, Places
<1>2. CASE queue # <<>>
  <2>1. /\ own' = [own EXCEPT ![w] = Head(queue)] /\ queue' = Tail(queue)
        /\ place' = [place EXCEPT ![w] = "enrich"]
    BY <1>2 DEF Get, MoveTo
  <2>2. /\ Head(queue) = queue[1] /\ 1 \in DOMAIN queue /\ Head(queue) \in Ids
        /\ queue' \in Seq(Ids) /\ Len(queue') = Len(queue) - 1 /\ Len(queue) \in Nat
        /\ \A i \in DOMAIN queue' : queue'[i] = queue[i + 1] /\ i + 1 \in DOMAIN queue /\ i + 1 # 1
        /\ \A i \in DOMAIN queue : i # 1 => i - 1 \in DOMAIN queue' /\ queue'[i - 1] = queue[i]
    BY <1>0, <1>2, <2>1
  <2>3. WorkerTypeOK'
    BY <1>0, <2>1, <2>2, WorkerAssumption DEF WorkerInv, WorkerTypeOK, outcomes, Places, Ids
  <2>4. HeldAtWork'
    BY <1>0, <2>1, <2>2 DEF WorkerInv, HeldAtWork, Ids, NoAlert
  <2>5. Handed'
    BY <1>0, <2>1, <2>2 DEF WorkerInv, Handed
  <2>6. NoneLost'
    <3> SUFFICES ASSUME NEW a \in 1 .. submitted
                 PROVE  \/ \E i \in DOMAIN queue' : queue'[i] = a
                        \/ \E v \in Workers : own'[v] = a
                        \/ a \in Settled
      BY <1>0 DEF NoneLost
    <3>1. CASE \E i \in DOMAIN queue : queue[i] = a
      <4>1. PICK i \in DOMAIN queue : queue[i] = a
        BY <3>1
      <4>2. CASE i = 1
        BY <1>0, <2>1, <2>2, <4>1, <4>2
      <4>3. CASE i # 1
        BY <2>2, <4>1, <4>3
      <4> QED
        BY <4>2, <4>3
    <3>2. CASE \E v \in Workers : own[v] = a
      BY <1>0, <2>1, <3>2 DEF NoAlert
    <3> QED
      BY <3>1, <3>2 DEF WorkerInv, NoneLost
  <2>7. Apart'
    <3>1. \A i, j \in DOMAIN queue' : queue'[i] = queue'[j] => i = j
      <4> SUFFICES ASSUME NEW i \in DOMAIN queue', NEW j \in DOMAIN queue', queue'[i] = queue'[j]
                   PROVE  i = j
        OBVIOUS
      <4>1. i + 1 = j + 1
        BY <2>2 DEF WorkerInv, Apart
      <4>2. i \in Int /\ j \in Int
        BY <2>2
      <4> QED
        BY <4>1, <4>2
    <3>2. \A u, v \in Workers : own'[u] = own'[v] /\ own'[u] # NoAlert => u = v
      BY <1>0, <2>1, <2>2 DEF WorkerInv, Apart
    <3>3. /\ \A i \in DOMAIN queue' : queue'[i] \notin Settled
          /\ \A v \in Workers : own'[v] \notin Settled
      BY <1>0, <2>1, <2>2 DEF WorkerInv, Apart
    <3>4. \A v \in Workers : \A i \in DOMAIN queue' : own'[v] # queue'[i]
      BY <1>0, <2>1, <2>2 DEF WorkerInv, Apart
    <3> QED
      BY <1>0, <3>1, <3>2, <3>3, <3>4 DEF WorkerInv, Apart, outcomes
  <2> QED
    BY <2>3, <2>4, <2>5, <2>6, <2>7 DEF WorkerInv
<1> QED
  BY <1>1, <1>2

(* A thread lets go of its alert into one of the outcomes.                 *)
LEMMA SettleStep ==
  ASSUME WorkerInv, NEW w \in Workers, place[w] \in {"enrich", "save"}, Finish(w),
         UNCHANGED <<queue, stopping, thread, stopper, started, submitted, dropped>>,
         \/ skipped' = skipped \cup {own[w]} /\ UNCHANGED <<failed, saved>>
         \/ failed' = failed \cup {own[w]} /\ UNCHANGED <<skipped, saved>>
         \/ saved' = saved \cup {own[w]} /\ UNCHANGED <<skipped, failed>>
  PROVE  WorkerInv'
<1>0. /\ own \in [Workers -> Ids \cup {NoAlert}] /\ place \in [Workers -> Places]
      /\ own[w] # NoAlert /\ own[w] \in Ids /\ own[w] \notin Settled
      /\ own' = [own EXCEPT ![w] = NoAlert] /\ place' = [place EXCEPT ![w] = "loop"]
      /\ Settled' = Settled \cup {own[w]} /\ submitted \in Nat /\ NoAlert \notin Ids
  BY DEF WorkerInv, WorkerTypeOK, HeldAtWork, Apart, Finish, MoveTo, Places, Settled, NoAlert, Ids
<1>1. WorkerTypeOK' /\ HeldAtWork'
  BY <1>0 DEF WorkerInv, WorkerTypeOK, HeldAtWork, Places
<1>2. Handed' /\ NoneLost'
  BY <1>0 DEF WorkerInv, Handed, NoneLost, NoAlert
<1>3. Apart'
  <2>1. NoAlert \notin Settled'
    BY <1>0 DEF WorkerInv, WorkerTypeOK, Settled
  <2>2. /\ \A i \in DOMAIN queue : queue[i] \notin Settled'
        /\ \A v \in Workers : own'[v] \notin Settled'
        /\ \A v \in Workers : \A i \in DOMAIN queue : own'[v] # queue[i]
    BY <1>0, <2>1 DEF WorkerInv, WorkerTypeOK, Apart
  <2>3. /\ dropped' \cap (skipped' \cup failed' \cup saved') = {}
        /\ skipped' \cap (failed' \cup saved') = {} /\ failed' \cap saved' = {}
    BY <1>0 DEF WorkerInv, Apart, Settled
  <2> QED
    BY <1>0, <2>2, <2>3 DEF WorkerInv, Apart
<1> QED
  BY <1>1, <1>2, <1>3 DEF WorkerInv

LEMMA WorkerStep == WorkerInv /\ [WorkerNext]_worker => WorkerInv'
<1> SUFFICES ASSUME WorkerInv, [WorkerNext]_worker PROVE WorkerInv'
  OBVIOUS
<1> DEFINE Still == UNCHANGED <<queue, own, submitted, outcomes>>
<1>1. CASE Submit
  BY <1>1, SubmitStep
<1>2. ASSUME Still, WorkerTypeOK', HeldAtWork' PROVE WorkerInv'
  BY <1>2 DEF WorkerInv, Apart, Handed, NoneLost, Settled, outcomes
<1>3. CASE StartThread
  <2>0. /\ started \in Nat /\ MaxStarts \in Nat /\ started + 1 \in Workers
        /\ started' = started + 1 /\ place' = [place EXCEPT ![started + 1] = "loop"]
        /\ place[started + 1] = "new"
    BY <1>3, WorkerAssumption DEF StartThread, MoveTo, WorkerInv, WorkerTypeOK, HeldAtWork, Workers
  <2>1. WorkerTypeOK'
    <3>1. thread' \in 0 .. started' /\ started' \in 0 .. MaxStarts
      BY <1>3, <2>0 DEF StartThread, Workers
    <3> QED
      BY <1>3, <2>0, <3>1 DEF StartThread, WorkerInv, WorkerTypeOK, outcomes
  <2>2. HeldAtWork'
    <3>1. \A w \in Workers : w > started + 1 => w > started /\ w # started + 1
      BY <2>0 DEF Workers
    <3> QED
      BY <1>3, <2>0, <3>1 DEF StartThread, WorkerInv, WorkerTypeOK, HeldAtWork
  <2> QED
    BY <1>2, <1>3, <2>1, <2>2 DEF StartThread
<1>4. CASE StopBegin
  BY <1>2, <1>4 DEF StopBegin, WorkerInv, WorkerTypeOK, HeldAtWork, outcomes
<1>5. CASE StopJoin
  BY <1>2, <1>5 DEF StopJoin, WorkerInv, WorkerTypeOK, HeldAtWork, outcomes, NoThread
<1>6. ASSUME NEW w \in Workers, CheckStop(w) PROVE WorkerInv'
  BY <1>2, <1>6 DEF CheckStop, MoveTo, WorkerInv, WorkerTypeOK, HeldAtWork, outcomes
<1>7. ASSUME NEW w \in Workers, Get(w) PROVE WorkerInv'
  BY <1>7, GetStep
<1>8. ASSUME NEW w \in Workers, Enrich(w) PROVE WorkerInv'
  <2>1. CASE MoveTo(w, "save") /\ UNCHANGED <<own, skipped, failed>>
    BY <1>2, <1>8, <2>1 DEF Enrich, MoveTo, WorkerInv, WorkerTypeOK, HeldAtWork, outcomes
  <2>2. CASE Finish(w) /\ skipped' = skipped \cup {own[w]} /\ UNCHANGED failed
    BY <1>8, <2>2, SettleStep DEF Enrich
  <2>3. CASE Finish(w) /\ failed' = failed \cup {own[w]} /\ UNCHANGED skipped
    BY <1>8, <2>3, SettleStep DEF Enrich
  <2> QED
    BY <1>8, <2>1, <2>2, <2>3 DEF Enrich
<1>9. ASSUME NEW w \in Workers, OnEnriched(w) PROVE WorkerInv'
  BY <1>9, SettleStep DEF OnEnriched
<1>10. CASE UNCHANGED worker
  BY <1>2, <1>10 DEF worker, WorkerInv, WorkerTypeOK, HeldAtWork, outcomes
<1> QED
  BY <1>1, <1>3, <1>4, <1>5, <1>6, <1>7, <1>8, <1>9, <1>10 DEF WorkerNext, Run

----------------------------------------------------------------------------
(* A set with one element at most.                                         *)
LEMMA CountOne ==
  ASSUME NEW S, NEW x \in S, \A y \in S : y = x
  PROVE  Cardinality(S) = 1
<1>1. S = {x}
  OBVIOUS
<1> QED
  BY <1>1, FS_Singleton

LEMMA CountNone == ASSUME NEW S, \A y \in S : FALSE PROVE Cardinality(S) = 0
<1>1. S = {}
  OBVIOUS
<1> QED
  BY <1>1, FS_EmptySet

LEMMA PlacesCounted == WorkerInv => OnePlace
<1> SUFFICES ASSUME WorkerInv, NEW a \in 1 .. submitted
             PROVE  Cardinality({i \in DOMAIN queue : queue[i] = a})
                    + Cardinality({w \in Alive : own[w] = a})
                    + Cardinality({n \in 1 .. 4 : a \in <<dropped, skipped, failed, saved>>[n]}) = 1
  BY DEF OnePlace
<1> DEFINE Q == {i \in DOMAIN queue : queue[i] = a}
           H == {w \in Alive : own[w] = a}
           S == {n \in 1 .. 4 : a \in <<dropped, skipped, failed, saved>>[n]}
<1>0. /\ a # NoAlert
      /\ \A w \in Workers : own[w] = a => w \in Alive
      /\ \A n \in S : a \in Settled
      /\ Alive \subseteq Workers
  BY DEF WorkerInv, HeldAtWork, Alive, NoAlert, Settled
<1>1. CASE \E i \in DOMAIN queue : queue[i] = a
  <2>1. PICK i \in DOMAIN queue : queue[i] = a
    BY <1>1
  <2>2. Cardinality(Q) = 1
    <3>1. i \in Q /\ \A j \in Q : j = i
      BY <2>1 DEF WorkerInv, Apart
    <3> QED
      BY <3>1, CountOne
  <2>3. Cardinality(H) = 0 /\ Cardinality(S) = 0
    <3>1. (\A w \in H : FALSE) /\ (\A n \in S : FALSE)
      BY <1>0, <2>1 DEF WorkerInv, Apart
    <3> QED
      BY <3>1, CountNone
  <2> QED
    BY <2>2, <2>3
<1>2. CASE \E w \in Workers : own[w] = a
  <2>1. PICK w \in Workers : own[w] = a
    BY <1>2
  <2>2. Cardinality(H) = 1
    <3>1. w \in H /\ \A v \in H : v = w
      BY <1>0, <2>1 DEF WorkerInv, Apart
    <3> QED
      BY <3>1, CountOne
  <2>3. Cardinality(Q) = 0 /\ Cardinality(S) = 0
    <3>1. (\A i \in Q : FALSE) /\ (\A n \in S : FALSE)
      BY <1>0, <2>1 DEF WorkerInv, Apart
    <3> QED
      BY <3>1, CountNone
  <2> QED
    BY <2>2, <2>3
<1>3. CASE a \in Settled
  <2>1. PICK n \in S : TRUE
    <3>1. /\ a \in dropped => 1 \in S
          /\ a \in skipped => 2 \in S
          /\ a \in failed => 3 \in S
          /\ a \in saved => 4 \in S
      OBVIOUS
    <3> QED
      BY <1>3, <3>1 DEF Settled
  <2>2. Cardinality(S) = 1
    <3>1. \A m \in S : m = n
      BY DEF WorkerInv, Apart
    <3> QED
      BY <3>1, CountOne
  <2>3. Cardinality(Q) = 0 /\ Cardinality(H) = 0
    <3>1. (\A i \in Q : FALSE) /\ (\A w \in H : FALSE)
      BY <1>0, <1>3 DEF WorkerInv, Apart
    <3> QED
      BY <3>1, CountNone
  <2> QED
    BY <2>2, <2>3
<1> QED
  BY <1>1, <1>2, <1>3 DEF WorkerInv, NoneLost

----------------------------------------------------------------------------
(* The queue, the threads and the outcomes keep their types                *)
(* (EnrichmentWorker, services/threat_intel/worker.py).                    *)
THEOREM TypeCorrect == WorkerSpec => []WorkerTypeOK
<1>1. WorkerInv => WorkerTypeOK
  BY DEF WorkerInv
<1> QED
  BY InitHolds, WorkerStep, <1>1, PTL DEF WorkerSpec

(* Every alert handed over is in exactly one place, whatever fails and     *)
(* however many loops a stop() that timed out has left on the queue.       *)
THEOREM AlertsKeepOnePlace == WorkerSpec => []OnePlace
BY InitHolds, WorkerStep, PlacesCounted, PTL DEF WorkerSpec

----------------------------------------------------------------------------
(* The lookups.  An entry of a tier says how long it has been there and    *)
(* how old its answer is: in the durable tier an answer is as old as its   *)
(* entry, in the memory tier it was younger than a lifetime when it came;  *)
(* a caller on its way to the tiers holds a new one.                       *)
Entry == [age : 0 .. TTL, data : Ages]
Row == [present : BOOLEAN, age : 0 .. TTL, data : Ages]
Circuit == [failures : 0 .. Threshold, opened : BOOLEAN, age : 0 .. Cooldown]

FreshRow(r) == r.present /\ r.age < TTL => r.data <= r.age
FreshEntry(m) == m.age < TTL => m.data < TTL + m.age

Aged ==
    /\ FreshRow(row)
    /\ \A p \in Procs : FreshEntry(memory[p])
    /\ \A c \in Callers :
         /\ pc[c] = "promote" => hand[c] < TTL
         /\ pc[c] \in {"cache", "select", "write"} => hand[c] = 0

(* The callers of a process that are asking the provider.                  *)
Asking(p) == {c \in ThreadsOf(p) : pc[c] = "calling"}

(* A closed circuit has counted every failure of the outage and is short   *)
(* of its threshold; an open one lets nobody in, so that what it costs     *)
(* grows only as those shrink who were past the breaker when it opened.    *)
Costs ==
    \A p \in Procs :
        IF breaker[p].opened
        THEN outage[p] + Cardinality(Asking(p)) < Threshold + Cardinality(ThreadsOf(p))
        ELSE outage[p] <= breaker[p].failures /\ breaker[p].failures < Threshold

LookupInv == TypeOK /\ Aged /\ Costs

LEMMA AgesKnown == 0 \in Ages /\ 2 * TTL \in Nat /\ (\A n \in 0 .. TTL : n \in Ages)
BY QueryAssumption DEF Ages

LEMMA InitLooked == Init => LookupInv
<1> SUFFICES ASSUME Init PROVE LookupInv
  OBVIOUS
<1> USE QueryAssumption
<1>1. NoEntry \in Entry /\ NoRow \in Row /\ Closed \in Circuit
  BY DEF NoEntry, NoRow, Closed, Entry, Row, Circuit, Ages
<1>2. TypeOK
  <2>1. /\ memory \in [Procs -> Entry] /\ row \in Row /\ breaker \in [Procs -> Circuit]
        /\ home \in [Callers -> Procs] /\ running \subseteq Procs
    BY <1>1 DEF Init, Layouts
  <2>2. /\ pc \in [Callers -> Labels] /\ hand \in [Callers -> Ages]
        /\ loaded \subseteq Callers /\ same \subseteq Callers
        /\ outage \in [Procs -> Nat] /\ stops \in 0 .. MaxStops
    BY AgesKnown DEF Init, Labels
  <2> QED
    BY <2>1, <2>2 DEF TypeOK, Entry, Row, Circuit
<1>3. Aged
  BY DEF Init, Aged, FreshRow, FreshEntry, NoRow, NoEntry
<1>4. Costs
  BY DEF Init, Costs, Closed
<1> QED
  BY <1>2, <1>3, <1>4 DEF LookupInv

LEMMA LookupTypes ==
  TypeOK <=>
    /\ home \in [Callers -> Procs]
    /\ memory \in [Procs -> Entry]
    /\ row \in Row
    /\ breaker \in [Procs -> Circuit]
    /\ running \subseteq Procs
    /\ pc \in [Callers -> Labels]
    /\ hand \in [Callers -> Ages]
    /\ loaded \subseteq Callers /\ same \subseteq Callers
    /\ outage \in [Procs -> Nat]
    /\ stops \in 0 .. MaxStops
BY DEF TypeOK, Entry, Row, Circuit

(* Time passes over an entry.                                              *)
LEMMA EntryRenewed ==
  ASSUME NEW m \in Entry, NEW a \in 0 .. TTL, NEW d \in Ages,
         NEW n, n = [m EXCEPT !.age = a, !.data = d]
  PROVE  n \in Entry /\ n.age = a /\ n.data = d
BY Zenon DEF Entry

LEMMA RowRenewed ==
  ASSUME NEW r \in Row, NEW a \in 0 .. TTL, NEW d \in Ages,
         NEW n, n = [r EXCEPT !.age = a, !.data = d]
  PROVE  n \in Row /\ n.age = a /\ n.data = d /\ n.present = r.present
BY Zenon DEF Row

(* The age and the answer an entry is left with.                           *)
LEMMA OlderAge ==
  ASSUME NEW age \in 0 .. TTL, NEW data \in Ages, age + 1 < TTL
  PROVE  /\ age + 1 \in 0 .. TTL /\ Capped(data + 1, 2 * TTL) \in Ages
         /\ data < TTL + age => Capped(data + 1, 2 * TTL) = data + 1
BY QueryAssumption DEF Ages, Capped

LEMMA OlderEntry ==
  ASSUME NEW m \in Entry, FreshEntry(m),
         NEW n, n = Older(m)
  PROVE  n \in Entry /\ FreshEntry(n)
<1>1. m.age \in 0 .. TTL /\ m.data \in Ages /\ TTL \in Nat /\ TTL \in 0 .. TTL /\ 0 \in Ages
  BY QueryAssumption DEF Entry, Ages
<1>2. CASE m.age + 1 >= TTL
  <2>1. n = [m EXCEPT !.age = TTL, !.data = 0]
    BY <1>2 DEF Older
  <2>2. n \in Entry /\ n.age = TTL
    BY <1>1, <2>1, Zenon DEF Entry
  <2> QED
    BY <1>1, <2>2 DEF FreshEntry
<1>3. CASE ~(m.age + 1 >= TTL)
  <2>1. n = [m EXCEPT !.age = m.age + 1, !.data = Capped(m.data + 1, 2 * TTL)]
    BY <1>3 DEF Older
  <2>2. m.age + 1 \in 0 .. TTL /\ Capped(m.data + 1, 2 * TTL) \in Ages
    BY <1>1, <1>3, OlderAge
  <2>3. /\ n \in Entry /\ n.age = m.age + 1
        /\ n.data = Capped(m.data + 1, 2 * TTL)
    BY <1>1, <2>1, <2>2, Zenon DEF Entry
  <2>4. m.data < TTL + m.age
    BY <1>1, <1>3 DEF FreshEntry
  <2>5. Capped(m.data + 1, 2 * TTL) = m.data + 1
    BY <1>1, <1>3, <2>4, QueryAssumption DEF Capped, Ages
  <2> QED
    BY <1>1, <2>3, <2>4, <2>5 DEF FreshEntry, Ages
<1> QED
  BY <1>2, <1>3

LEMMA OlderRow ==
  ASSUME NEW r \in Row, FreshRow(r), r.present,
         NEW n, n = Older(r)
  PROVE  n \in Row /\ FreshRow(n)
<1>1. r.age \in 0 .. TTL /\ r.data \in Ages /\ TTL \in Nat /\ TTL \in 0 .. TTL /\ 0 \in Ages
  BY QueryAssumption DEF Row, Ages
<1>2. CASE r.age + 1 >= TTL
  <2>1. n = [r EXCEPT !.age = TTL, !.data = 0]
    BY <1>2 DEF Older
  <2>2. n \in Row /\ n.age = TTL
    BY <1>1, <2>1, Zenon DEF Row
  <2> QED
    BY <1>1, <2>2 DEF FreshRow
<1>3. CASE ~(r.age + 1 >= TTL)
  <2>1. n = [r EXCEPT !.age = r.age + 1, !.data = Capped(r.data + 1, 2 * TTL)]
    BY <1>3 DEF Older
  <2>2. r.age + 1 \in 0 .. TTL /\ Capped(r.data + 1, 2 * TTL) \in Ages
    BY <1>1, <1>3, OlderAge
  <2>3. /\ n \in Row /\ n.age = r.age + 1
        /\ n.data = Capped(r.data + 1, 2 * TTL)
    BY <1>1, <2>1, <2>2, Zenon DEF Row
  <2>4. r.data <= r.age /\ r.data < TTL + r.age
    BY <1>1, <1>3 DEF FreshRow, Ages
  <2>5. Capped(r.data + 1, 2 * TTL) = r.data + 1
    BY <1>1, <1>3, <2>4, OlderAge
  <2> QED
    BY <1>1, <2>3, <2>4, <2>5 DEF FreshRow, Ages
<1> QED
  BY <1>2, <1>3

LEMMA TickLooked == ASSUME LookupInv, Tick, UNCHANGED home PROVE LookupInv'
<1> USE QueryAssumption
<1>0. TypeOK /\ Aged /\ Costs
  BY DEF LookupInv
<1>1. memory' \in [Procs -> Entry] /\ \A p \in Procs : FreshEntry(memory'[p])
  BY <1>0, OlderEntry, LookupTypes DEF Tick, Aged
<1>2. row' \in Row /\ FreshRow(row')
  BY <1>0, OlderRow, LookupTypes DEF Tick, Aged
<1>3. /\ breaker' \in [Procs -> Circuit]
      /\ \A p \in Procs : /\ breaker'[p].opened = breaker[p].opened
                          /\ breaker'[p].failures = breaker[p].failures
  <2>1. \A p \in Procs : breaker[p] \in Circuit
    BY <1>0, LookupTypes
  <2>2. ASSUME NEW b \in Circuit
        PROVE  LET n == [b EXCEPT !.age = Capped(@ + 1, Cooldown)]
               IN  n \in Circuit /\ n.opened = b.opened /\ n.failures = b.failures
    BY DEF Circuit, Capped
  <2> QED
    BY <2>1, <2>2 DEF Tick
<1>4. TypeOK'
  BY <1>0, <1>1, <1>2, <1>3, LookupTypes DEF Tick, TypeOK, Entry, Row, Circuit
<1>5. Aged'
  BY <1>0, <1>1, <1>2 DEF Tick, Aged
<1>6. Costs'
  BY <1>0, <1>3 DEF Tick, Costs, Asking, ThreadsOf
<1> QED
  BY <1>4, <1>5, <1>6 DEF LookupInv

(* The circuit after a failure, which opens it at the threshold.           *)
LEMMA FailedCircuit ==
  ASSUME NEW b \in Circuit, NEW failures, NEW opens, NEW f,
         failures = Capped(b.failures + 1, Threshold), opens = (failures >= Threshold),
         f = [failures |-> failures, opened |-> b.opened \/ opens,
              age |-> IF opens THEN 0 ELSE b.age]
  PROVE  /\ f \in Circuit
         /\ b.opened => f.opened
         /\ ~b.opened /\ b.failures + 1 >= Threshold => f.opened
         /\ ~b.opened /\ b.failures + 1 < Threshold => ~f.opened /\ f.failures = b.failures + 1
<1>1. b.failures \in 0 .. Threshold /\ b.age \in 0 .. Cooldown /\ b.opened \in BOOLEAN
  BY DEF Circuit
<1>2. failures \in 0 .. Threshold /\ opens \in BOOLEAN
  BY <1>1, QueryAssumption DEF Capped
<1>3. (IF opens THEN 0 ELSE b.age) \in 0 .. Cooldown /\ (b.opened \/ opens) \in BOOLEAN
  BY <1>1, <1>2, QueryAssumption
<1>4. f \in Circuit
  BY <1>2, <1>3 DEF Circuit
<1>5. f.failures = failures /\ f.opened = (b.opened \/ opens)
  OBVIOUS
<1>6. b.opened => f.opened
  BY <1>5, Zenon
<1>7. ASSUME ~b.opened, b.failures + 1 >= Threshold PROVE f.opened
  <2>1. failures >= Threshold
    BY <1>1, <1>7, QueryAssumption DEF Capped
  <2>2. opens
    BY <2>1, Zenon
  <2> QED
    BY <1>5, <2>2, Zenon
<1>8. ASSUME ~b.opened, b.failures + 1 < Threshold PROVE ~f.opened /\ f.failures = b.failures + 1
  <2>1. failures = b.failures + 1
    BY <1>1, <1>8, QueryAssumption DEF Capped
  <2>2. ~opens
    BY <1>1, <1>8, <2>1, QueryAssumption
  <2> QED
    BY <1>5, <1>8, <2>1, <2>2, Zenon
<1> QED
  BY <1>4, <1>6, <1>7, <1>8

LEMMA FailedBreaker ==
  ASSUME TypeOK, NEW c \in Callers, Fail(c)
  PROVE  /\ home[c] \in Procs
         /\ breaker' \in [Procs -> Circuit]
         /\ outage' \in [Procs -> Nat] /\ outage' = [outage EXCEPT ![home[c]] = @ + 1]
         /\ \A q \in Procs \ {home[c]} : breaker'[q] = breaker[q]
         /\ LET b == breaker[home[c]] f == breaker'[home[c]] IN
            /\ b.opened => f.opened
            /\ ~b.opened /\ b.failures + 1 >= Threshold => f.opened
            /\ ~b.opened /\ b.failures + 1 < Threshold =>
                 ~f.opened /\ f.failures = b.failures + 1
<1>1. /\ home[c] \in Procs /\ breaker \in [Procs -> Circuit] /\ outage \in [Procs -> Nat]
  BY LookupTypes
<1>2. PICK p, b : p = home[c] /\ b = breaker[p]
  OBVIOUS
<1>3. PICK failures, opens : /\ failures = Capped(b.failures + 1, Threshold)
                             /\ opens = (failures >= Threshold)
  OBVIOUS
<1>4. PICK f : f = [failures |-> failures, opened |-> b.opened \/ opens,
                    age |-> IF opens THEN 0 ELSE b.age]
  OBVIOUS
<1>5. breaker' = [breaker EXCEPT ![p] = f]
  BY <1>2, <1>3, <1>4, Zenon DEF Fail
<1>6. /\ f \in Circuit
      /\ b.opened => f.opened
      /\ ~b.opened /\ b.failures + 1 >= Threshold => f.opened
      /\ ~b.opened /\ b.failures + 1 < Threshold => ~f.opened /\ f.failures = b.failures + 1
  <2>1. b \in Circuit
    BY <1>1, <1>2
  <2>2. opens = (failures >= Threshold) /\ failures = Capped(b.failures + 1, Threshold)
    BY <1>3
  <2> QED
    BY <2>1, <2>2, <1>4, FailedCircuit
<1>7. outage' = [outage EXCEPT ![p] = @ + 1]
  BY <1>2, Zenon DEF Fail
<1> QED
  BY <1>1, <1>2, <1>5, <1>6, <1>7

(* What one step of a caller or a process changes, in terms of types and   *)
(* ages; the circuits are the next lemma's.                                *)
LEMMA StepAged == TypeOK /\ Aged /\ Next /\ ~Tick => (TypeOK /\ Aged)'
<1> SUFFICES ASSUME TypeOK, Aged, Next, ~Tick PROVE TypeOK' /\ Aged'
  OBVIOUS
<1> USE QueryAssumption
<1>1. UNCHANGED home
  BY DEF Next
<1>2. /\ memory \in [Procs -> Entry] /\ row \in Row /\ breaker \in [Procs -> Circuit]
      /\ home \in [Callers -> Procs] /\ pc \in [Callers -> Labels]
      /\ hand \in [Callers -> Ages] /\ outage \in [Procs -> Nat]
      /\ running \subseteq Procs /\ loaded \subseteq Callers /\ same \subseteq Callers
      /\ stops \in 0 .. MaxStops
  BY LookupTypes
<1>3. /\ NoEntry \in Entry /\ FreshEntry(NoEntry)
      /\ NoRow \in Row /\ FreshRow(NoRow) /\ Closed \in Circuit
  BY DEF NoEntry, NoRow, Closed, Entry, Row, Circuit, Ages, FreshEntry, FreshRow
<1>4. ASSUME NEW a \in Ages
      PROVE  /\ [age |-> 0, data |-> a] \in Entry
             /\ a < TTL => FreshEntry([age |-> 0, data |-> a])
             /\ [present |-> TRUE, age |-> 0, data |-> a] \in Row
             /\ a = 0 => FreshRow([present |-> TRUE, age |-> 0, data |-> a])
  BY DEF Entry, Row, FreshEntry, FreshRow, Ages
<1> DEFINE Kept == UNCHANGED <<memory, row>>
           Held(c) == /\ pc[c] = "promote" => hand[c] < TTL
                      /\ pc[c] \in {"cache", "select", "write"} => hand[c] = 0
<1>5. ASSUME memory' \in [Procs -> Entry], \A p \in Procs : FreshEntry(memory'[p]),
             row' \in Row, FreshRow(row'), breaker' \in [Procs -> Circuit],
             pc' \in [Callers -> Labels], hand' \in [Callers -> Ages],
             \A c \in Callers : Held(c)',
             outage' \in [Procs -> Nat], running' \subseteq Procs,
             loaded' \subseteq Callers, same' \subseteq Callers, stops' \in 0 .. MaxStops
      PROVE  TypeOK' /\ Aged'
  <2>1. TypeOK'
    BY <1>1, <1>2, <1>5 DEF TypeOK, Entry, Row, Circuit
  <2> QED
    BY <1>5, <2>1 DEF Aged
<1>6. /\ FreshRow(row) /\ \A p \in Procs : FreshEntry(memory[p])
      /\ \A c \in Callers : Held(c)
  BY DEF Aged
<1>7. CASE PruneExpired
  BY <1>2, <1>3, <1>5, <1>6, <1>7 DEF PruneExpired
<1>8. ASSUME NEW c \in Callers, MemoryGet(c) \/ Raise(c) PROVE TypeOK' /\ Aged'
  <2>1. pc' \in [Callers -> Labels] /\ hand' \in [Callers -> Ages] /\ \A d \in Callers : Held(d)'
    BY <1>2, <1>6, <1>8, AgesKnown DEF MemoryGet, Raise, Serve, Goto, Labels
  <2> QED
    BY <1>2, <1>5, <1>6, <1>8, <2>1 DEF MemoryGet, Raise, store
<1>9. ASSUME NEW c \in Callers, DurableGet(c) PROVE TypeOK' /\ Aged'
  <2>1. row.present /\ row.age < TTL => row.data \in Ages /\ row.data < TTL
    BY <1>2, <1>6 DEF FreshRow, Row, Ages
  <2>2. pc' \in [Callers -> Labels] /\ hand' \in [Callers -> Ages] /\ \A d \in Callers : Held(d)'
    BY <1>2, <1>6, <1>9, <2>1 DEF DurableGet, Goto, Labels
  <2> QED
    BY <1>2, <1>5, <1>6, <1>9, <2>2 DEF DurableGet
<1>10. ASSUME NEW c \in Callers, Purge(c) PROVE TypeOK' /\ Aged'
  <2>1. pc' \in [Callers -> Labels] /\ \A d \in Callers : Held(d)'
    BY <1>2, <1>6, <1>10 DEF Purge, Goto, Labels
  <2> QED
    BY <1>2, <1>3, <1>5, <1>6, <1>10, <2>1 DEF Purge
<1>11. ASSUME NEW c \in Callers, Promote(c) \/ CacheAnswer(c) PROVE TypeOK' /\ Aged'
  <2>1. hand[c] \in Ages /\ hand[c] < TTL /\ home[c] \in Procs
    BY <1>2, <1>6, <1>11 DEF Promote, CacheAnswer
  <2>2. PICK e : e = [age |-> 0, data |-> hand[c]]
    OBVIOUS
  <2>3. e \in Entry /\ FreshEntry(e)
    BY <1>4, <2>1, <2>2
  <2>4. memory' = [memory EXCEPT ![home[c]] = e]
    BY <1>11, <2>2 DEF Promote, CacheAnswer
  <2>5. memory' \in [Procs -> Entry] /\ \A p \in Procs : FreshEntry(memory'[p])
    BY <1>2, <1>6, <2>1, <2>3, <2>4
  <2>6. pc' \in [Callers -> Labels] /\ hand' \in [Callers -> Ages] /\ \A d \in Callers : Held(d)'
    BY <1>2, <1>6, <1>11, AgesKnown DEF Promote, CacheAnswer, Serve, Goto, Labels
  <2> QED
    BY <1>2, <1>5, <1>6, <1>11, <2>5, <2>6 DEF Promote, CacheAnswer, store
<1>12. ASSUME NEW c \in Callers, Breaker(c) PROVE TypeOK' /\ Aged'
  <2>1. pc' \in [Callers -> Labels] /\ \A d \in Callers : Held(d)'
    BY <1>2, <1>6, <1>12 DEF Breaker, Goto, Labels
  <2>2. outage' \in [Procs -> Nat]
    BY <1>2, <1>12 DEF Breaker
  <2> QED
    BY <1>2, <1>5, <1>6, <1>12, <2>1, <2>2 DEF Breaker, store
<1>13. ASSUME NEW c \in Callers, Succeed(c) PROVE TypeOK' /\ Aged'
  <2>1. pc' \in [Callers -> Labels] /\ hand' \in [Callers -> Ages] /\ \A d \in Callers : Held(d)'
    BY <1>2, <1>6, <1>13, AgesKnown DEF Succeed, Goto, Labels
  <2>2. breaker' \in [Procs -> Circuit] /\ outage' \in [Procs -> Nat]
    BY <1>2, <1>3, <1>13 DEF Succeed
  <2> QED
    BY <1>2, <1>5, <1>6, <1>13, <2>1, <2>2 DEF Succeed, store
<1>14. ASSUME NEW c \in Callers, Fail(c) PROVE TypeOK' /\ Aged'
  <2>1. pc' \in [Callers -> Labels] /\ \A d \in Callers : Held(d)'
    BY <1>2, <1>6, <1>14 DEF Fail, Goto, Labels
  <2>2. breaker' \in [Procs -> Circuit] /\ outage' \in [Procs -> Nat]
    BY <1>2, <1>14, FailedBreaker
  <2> QED
    BY <1>2, <1>5, <1>6, <1>14, <2>1, <2>2 DEF Fail, store
<1>15. ASSUME NEW c \in Callers, DurableSelect(c) PROVE TypeOK' /\ Aged'
  <2>1. pc' \in [Callers -> Labels] /\ hand' \in [Callers -> Ages] /\ \A d \in Callers : Held(d)'
    BY <1>2, <1>6, <1>15, AgesKnown DEF DurableSelect, Serve, Goto, Labels
  <2> QED
    BY <1>2, <1>5, <1>6, <1>15, <2>1 DEF DurableSelect
<1>16. ASSUME NEW c \in Callers, DurableWrite(c) PROVE TypeOK' /\ Aged'
  <2>1. hand[c] \in Ages /\ hand[c] = 0
    BY <1>2, <1>6, <1>16 DEF DurableWrite
  <2>2. PICK r : r = [present |-> TRUE, age |-> 0, data |-> hand[c]]
    OBVIOUS
  <2>3. r \in Row /\ FreshRow(r)
    BY <1>4, <2>1, <2>2
  <2>4. row' = r \/ row' = row
    BY <1>16, <2>2 DEF DurableWrite
  <2>5. pc' \in [Callers -> Labels] /\ hand' \in [Callers -> Ages] /\ \A d \in Callers : Held(d)'
    BY <1>2, <1>6, <1>16, AgesKnown DEF DurableWrite, Serve, Goto, Labels
  <2> QED
    BY <1>2, <1>5, <1>6, <1>16, <2>3, <2>4, <2>5 DEF DurableWrite
<1>17. ASSUME NEW p \in Procs, Evict(p) \/ Stop(p) \/ Start(p) PROVE TypeOK' /\ Aged'
  <2>1. memory' \in [Procs -> Entry] /\ \A q \in Procs : FreshEntry(memory'[q])
    BY <1>2, <1>3, <1>6, <1>17 DEF Evict, Stop, Start
  <2>2. /\ breaker' \in [Procs -> Circuit] /\ outage' \in [Procs -> Nat]
        /\ running' \subseteq Procs /\ stops' \in 0 .. MaxStops
    BY <1>2, <1>3, <1>17 DEF Evict, Stop, Start
  <2> QED
    BY <1>2, <1>5, <1>6, <1>17, <2>1, <2>2 DEF Evict, Stop, Start, store
<1> QED
  BY <1>7, <1>8, <1>9, <1>10, <1>11, <1>12, <1>13, <1>14, <1>15, <1>16, <1>17
     DEF Next, Query, Answer

(* Callers come and go in the count of those asking.                       *)
LEMMA AskersCounted ==
  ASSUME NEW S, S \subseteq Callers, NEW A, A \subseteq S
  PROVE  /\ Cardinality(S) \in Nat /\ Cardinality(A) \in Nat
         /\ Cardinality(A) <= Cardinality(S)
         /\ \A c \in A : Cardinality(A \ {c}) = Cardinality(A) - 1
<1>1. IsFiniteSet(S)
  BY FiniteCallers, FS_Subset
<1>2. IsFiniteSet(A) /\ Cardinality(A) <= Cardinality(S)
  BY <1>1, FS_Subset
<1>3. Cardinality(S) \in Nat /\ Cardinality(A) \in Nat
  BY <1>1, <1>2, FS_CardinalityType
<1>4. \A c \in A : Cardinality(A \ {c}) = Cardinality(A) - 1
  BY <1>2, FS_RemoveElement
<1> QED
  BY <1>2, <1>3, <1>4

LEMMA StepCosts == TypeOK /\ Costs /\ TypeOK' /\ Next /\ ~Tick => Costs'
<1> SUFFICES ASSUME TypeOK, Costs, TypeOK', Next, ~Tick PROVE Costs'
  OBVIOUS
<1> USE QueryAssumption
<1>1. UNCHANGED home /\ \A q \in Procs : ThreadsOf(q)' = ThreadsOf(q)
  BY DEF Next, ThreadsOf
<1> SUFFICES ASSUME NEW p \in Procs
             PROVE  IF breaker'[p].opened
                    THEN outage'[p] + Cardinality(Asking(p)')
                           < Threshold + Cardinality(ThreadsOf(p))
                    ELSE /\ outage'[p] <= breaker'[p].failures
                         /\ breaker'[p].failures < Threshold
  BY <1>1 DEF Costs
<1>2. /\ home \in [Callers -> Procs] /\ pc \in [Callers -> Labels]
      /\ breaker \in [Procs -> Circuit] /\ outage \in [Procs -> Nat]
      /\ outage' \in [Procs -> Nat] /\ breaker' \in [Procs -> Circuit]
  BY LookupTypes DEF TypeOK, Circuit
<1>3. breaker[p].failures \in Nat /\ outage[p] \in Nat /\ breaker'[p].failures \in Nat
  BY <1>2 DEF Circuit
<1>4. /\ breaker[p].opened =>
           outage[p] + Cardinality(Asking(p)) < Threshold + Cardinality(ThreadsOf(p))
      /\ ~breaker[p].opened =>
           outage[p] <= breaker[p].failures /\ breaker[p].failures < Threshold
  BY DEF Costs
<1>5. /\ Asking(p) \subseteq ThreadsOf(p) /\ Asking(p)' \subseteq ThreadsOf(p)
      /\ ThreadsOf(p) \subseteq Callers
  BY <1>1 DEF Asking, ThreadsOf
<1>6. /\ Cardinality(ThreadsOf(p)) \in Nat /\ Cardinality(Asking(p)) \in Nat
      /\ Cardinality(Asking(p)') \in Nat
      /\ Cardinality(Asking(p)') <= Cardinality(ThreadsOf(p))
  BY <1>5, AskersCounted
<1>7. ASSUME Asking(p)' \subseteq Asking(p) PROVE Cardinality(Asking(p)') <= Cardinality(Asking(p))
  <2>1. Asking(p) \subseteq Callers
    BY <1>5
  <2> QED
    BY <1>7, <2>1, AskersCounted
<1>8. CASE breaker'[p] = breaker[p] /\ outage'[p] = outage[p] /\ Asking(p)' \subseteq Asking(p)
  BY <1>3, <1>4, <1>6, <1>7, <1>8
<1>9. CASE outage'[p] = 0 /\ (breaker'[p].opened \/ breaker'[p].failures < Threshold)
  <2>1. CASE breaker'[p].opened
    BY <1>6, <1>9, <2>1
  <2>2. CASE ~breaker'[p].opened
    BY <1>3, <1>9, <2>2
  <2> QED
    BY <2>1, <2>2
<1>10. CASE PruneExpired
  BY <1>1, <1>8, <1>10 DEF PruneExpired, Asking, ThreadsOf
<1>11. ASSUME NEW c \in Callers,
              MemoryGet(c) \/ DurableGet(c) \/ Purge(c) \/ Promote(c) \/ CacheAnswer(c)
                \/ DurableSelect(c) \/ DurableWrite(c) \/ Raise(c)
       PROVE  breaker'[p] = breaker[p] /\ outage'[p] = outage[p] /\ Asking(p)' \subseteq Asking(p)
  BY <1>1, <1>2, <1>11
     DEF MemoryGet, DurableGet, Purge, Promote, CacheAnswer, DurableSelect, DurableWrite,
         Raise, Serve, Goto, Asking, ThreadsOf
<1>12. ASSUME NEW c \in Callers, Breaker(c)
       PROVE  IF breaker'[p].opened
              THEN outage'[p] + Cardinality(Asking(p)') < Threshold + Cardinality(ThreadsOf(p))
              ELSE outage'[p] <= breaker'[p].failures /\ breaker'[p].failures < Threshold
  <2>1. breaker' = breaker
    BY <1>12 DEF Breaker
  <2>2. CASE home[c] # p
    <3>1. outage'[p] = outage[p]
      BY <1>2, <1>12, <2>2 DEF Breaker
    <3>2. Asking(p)' \subseteq Asking(p)
      BY <1>1, <1>2, <1>12, <2>2 DEF Breaker, Goto, Asking, ThreadsOf
    <3> QED
      BY <1>8, <2>1, <3>1, <3>2
  <2>3. CASE home[c] = p /\ State(breaker[p]) = "open"
    <3>1. outage'[p] = outage[p]
      BY <1>2, <1>12, <2>3 DEF Breaker
    <3>2. Asking(p)' \subseteq Asking(p)
      BY <1>1, <1>2, <1>12, <2>3 DEF Breaker, Goto, Asking, ThreadsOf
    <3> QED
      BY <1>8, <2>1, <3>1, <3>2
  <2>4. CASE home[c] = p /\ State(breaker[p]) = "half_open"
    <3>1. outage'[p] = 0
      BY <1>2, <1>12, <2>4 DEF Breaker
    <3>2. breaker[p].opened
      BY <2>4 DEF State
    <3> QED
      BY <1>9, <2>1, <3>1, <3>2
  <2>5. CASE home[c] = p /\ State(breaker[p]) = "closed"
    <3>1. outage'[p] = outage[p]
      BY <1>2, <1>12, <2>5 DEF Breaker
    <3>2. ~breaker[p].opened
      BY <2>5 DEF State
    <3> QED
      BY <1>4, <2>1, <3>1, <3>2
  <2> QED
    BY <2>2, <2>3, <2>4, <2>5 DEF State
<1>13. ASSUME NEW c \in Callers, Succeed(c)
       PROVE  \/ breaker'[p] = breaker[p] /\ outage'[p] = outage[p] /\ Asking(p)' \subseteq Asking(p)
              \/ outage'[p] = 0 /\ (breaker'[p].opened \/ breaker'[p].failures < Threshold)
  <2>1. CASE home[c] # p
    <3>1. breaker'[p] = breaker[p] /\ outage'[p] = outage[p]
      BY <1>2, <1>13, <2>1 DEF Succeed
    <3>2. Asking(p)' \subseteq Asking(p)
      BY <1>1, <1>2, <1>13, <2>1 DEF Succeed, Goto, Asking, ThreadsOf
    <3> QED
      BY <3>1, <3>2
  <2>2. CASE home[c] = p
    <3>1. breaker'[p] = Closed /\ outage'[p] = 0
      BY <1>2, <1>13, <2>2 DEF Succeed
    <3> QED
      BY <3>1 DEF Closed
  <2> QED
    BY <2>1, <2>2
<1>14. ASSUME NEW c \in Callers, Fail(c)
       PROVE  IF breaker'[p].opened
              THEN outage'[p] + Cardinality(Asking(p)') < Threshold + Cardinality(ThreadsOf(p))
              ELSE outage'[p] <= breaker'[p].failures /\ breaker'[p].failures < Threshold
  <2>1. CASE home[c] # p
    <3>1. breaker'[p] = breaker[p] /\ outage'[p] = outage[p]
      BY <1>2, <1>14, <2>1, FailedBreaker
    <3>2. Asking(p)' \subseteq Asking(p)
      BY <1>1, <1>2, <1>14, <2>1 DEF Fail, Goto, Asking, ThreadsOf
    <3> QED
      BY <1>8, <3>1, <3>2
  <2>2. CASE home[c] = p
    <3>1. outage'[p] = outage[p] + 1
      BY <1>2, <1>14, <2>2, FailedBreaker
    <3>2. /\ breaker[p].opened => breaker'[p].opened
          /\ ~breaker[p].opened /\ breaker[p].failures + 1 >= Threshold => breaker'[p].opened
          /\ ~breaker[p].opened /\ breaker[p].failures + 1 < Threshold =>
               ~breaker'[p].opened /\ breaker'[p].failures = breaker[p].failures + 1
      BY <1>14, <2>2, FailedBreaker
    <3>3. c \in Asking(p) /\ Asking(p)' = Asking(p) \ {c}
      BY <1>1, <1>2, <1>14, <2>2 DEF Fail, Goto, Asking, ThreadsOf
    <3>4. /\ Cardinality(Asking(p)') = Cardinality(Asking(p)) - 1
          /\ Cardinality(Asking(p)) <= Cardinality(ThreadsOf(p))
      BY <1>5, <3>3, AskersCounted
    <3>5. CASE breaker[p].opened
      BY <1>3, <1>4, <1>6, <3>1, <3>2, <3>4, <3>5
    <3>6. CASE ~breaker[p].opened /\ breaker[p].failures + 1 >= Threshold
      BY <1>3, <1>4, <1>6, <3>1, <3>2, <3>4, <3>6
    <3>7. CASE ~breaker[p].opened /\ breaker[p].failures + 1 < Threshold
      BY <1>3, <1>4, <3>1, <3>2, <3>7
    <3> QED
      BY <1>3, <3>5, <3>6, <3>7
  <2> QED
    BY <2>1, <2>2
<1>15. ASSUME NEW q \in Procs, Evict(q) \/ Stop(q)
       PROVE  breaker'[p] = breaker[p] /\ outage'[p] = outage[p] /\ Asking(p)' \subseteq Asking(p)
  BY <1>1, <1>15 DEF Evict, Stop, Asking, ThreadsOf
<1>16. ASSUME NEW q \in Procs, Start(q)
       PROVE  \/ breaker'[p] = breaker[p] /\ outage'[p] = outage[p] /\ Asking(p)' \subseteq Asking(p)
              \/ outage'[p] = 0 /\ (breaker'[p].opened \/ breaker'[p].failures < Threshold)
  BY <1>1, <1>2, <1>16 DEF Start, Asking, ThreadsOf, Closed
<1> QED
  BY <1>8, <1>9, <1>10, <1>11, <1>12, <1>13, <1>14, <1>15, <1>16 DEF Next, Query, Answer

LEMMA LookupStep == LookupInv /\ [Next]_vars => LookupInv'
<1> SUFFICES ASSUME LookupInv, [Next]_vars PROVE LookupInv'
  OBVIOUS
<1>1. CASE UNCHANGED vars
  BY <1>1 DEF vars, store, LookupInv, TypeOK, Aged, FreshRow, FreshEntry, Costs, Asking,
              ThreadsOf
<1>2. CASE Next /\ Tick
  BY <1>2, TickLooked DEF Next
<1>3. CASE Next /\ ~Tick
  BY <1>3, StepAged, StepCosts DEF LookupInv
<1> QED
  BY <1>1, <1>2, <1>3

LEMMA LookedFresh == LookupInv => BoundedStaleness
BY QueryAssumption DEF LookupInv, Aged, FreshEntry, BoundedStaleness, TypeOK, Ages

LEMMA LookedBounded == LookupInv => OutageBounded
<1> SUFFICES ASSUME LookupInv, NEW p \in Procs
             PROVE  outage[p] < Threshold + Cardinality(ThreadsOf(p))
  BY DEF OutageBounded
<1>1. outage[p] \in Nat /\ breaker[p].failures \in Nat
  BY QueryAssumption DEF LookupInv, TypeOK
<1>2. ThreadsOf(p) \subseteq Callers /\ Asking(p) \subseteq ThreadsOf(p)
  BY DEF ThreadsOf, Asking
<1>3. Cardinality(ThreadsOf(p)) \in Nat /\ Cardinality(Asking(p)) \in Nat
  BY <1>2, AskersCounted
<1>4. IF breaker[p].opened
      THEN outage[p] + Cardinality(Asking(p)) < Threshold + Cardinality(ThreadsOf(p))
      ELSE outage[p] <= breaker[p].failures /\ breaker[p].failures < Threshold
  BY DEF LookupInv, Costs
<1> QED
  BY <1>1, <1>3, <1>4, QueryAssumption

----------------------------------------------------------------------------
(* The two tiers, the circuits and the callers keep their types            *)
(* (providers/base.py, cache.py, circuit_breaker.py).                      *)
THEOREM LookupsTyped == Spec => []TypeOK
<1>1. LookupInv => TypeOK
  BY DEF LookupInv
<1> QED
  BY InitLooked, LookupStep, <1>1, PTL DEF Spec

(* No caller is handed an answer two lifetimes old, whatever is promoted,  *)
(* evicted, purged and overwritten meanwhile (TieredThreatIntelCache).     *)
THEOREM AnswersStayFresh == Spec => []BoundedStaleness
BY InitLooked, LookupStep, LookedFresh, PTL DEF Spec

(* An outage costs a process a threshold of calls and those already under  *)
(* way when its circuit opened (CircuitBreaker, query_provider).           *)
THEOREM OutagesAreBounded == Spec => []OutageBounded
BY InitLooked, LookupStep, LookedBounded, PTL DEF Spec

(* What the worker and the lookups promise apart holds of the enrichment   *)
(* that chooses between their steps (services/threat_intel).               *)
THEOREM HalvesHold == EnrichmentSpec => [](OnePlace /\ BoundedStaleness /\ OutageBounded)
<1>1. EnrichmentInit => LookupInv /\ WorkerInv
  BY InitLooked, InitHolds DEF EnrichmentInit
<1>2. LookupInv /\ WorkerInv /\ [Working \/ LookingUp]_enrichmentVars => (LookupInv /\ WorkerInv)'
  <2>1. [Working \/ LookingUp]_enrichmentVars => [Next]_vars /\ [WorkerNext]_worker
    BY DEF Working, LookingUp, enrichmentVars
  <2> QED
    BY <2>1, LookupStep, WorkerStep
<1>3. LookupInv /\ WorkerInv => OnePlace /\ BoundedStaleness /\ OutageBounded
  BY PlacesCounted, LookedFresh, LookedBounded
<1> QED
  BY <1>1, <1>2, <1>3, PTL DEF EnrichmentSpec
=============================================================================
