-------------------------- MODULE AlertConsoleProofs --------------------------
(***************************************************************************)
(* What an analyst can rely on: one alert row under every number of        *)
(* requests, statuses and sweeps, the pages of every list, the report of   *)
(* every set of providers, and the feed of every number of dashboards.     *)
(***************************************************************************)
EXTENDS AlertConsole, FiniteSetTheorems, FunctionTheorems, SequenceTheorems, TLAPS

(* What a request is about to write is what its copy of the alert changed  *)
(* against the row it loaded.                                              *)
PendingIsDirty ==
    \A p \in Requests :
        pc[p] = "commit" =>
            /\ pending[p].value = copy[p]
            /\ pending[p].columns = Dirty(p)

LEMMA ActorsApart ==
  /\ pipeline \notin Requests /\ worker \notin Requests /\ pipeline # worker
  /\ Patchers \subseteq Requests /\ Requests \subseteq Savers
  /\ pipeline \in Savers /\ worker \in Savers
BY StoreAssumption DEF Requests, Savers, Sensor

LEMMA FreshType == Fresh \in Contents
BY StoreAssumption DEF Fresh, Contents

LEMMA ClosedTypes ==
  /\ Unread \in BOOLEAN \X Contents
  /\ Nothing \in [value : Contents, columns : SUBSET Columns]
BY FreshType DEF Unread, Nothing

LEMMA AlertType ==
  ASSUME TypeOK, NEW p \in Savers
  PROVE  Alert(p) \in Contents
BY DEF Alert, TypeOK, Savers

LEMMA DirtyType ==
  ASSUME NEW p \in Savers
  PROVE  Dirty(p) \in SUBSET Columns
BY DEF Dirty

(* A commit leaves a row of the columns' types.                            *)
LEMMA WrittenType ==
  ASSUME TypeOK, NEW p \in Savers
  PROVE  Written(p) \in Contents
<1>1. pending[p].value \in Contents /\ row \in Contents
  BY DEF TypeOK
<1> DEFINE of(c) == IF c \in pending[p].columns THEN pending[p].value[c] ELSE row[c]
<1>2. of("occ") \in 1 .. MaxOcc /\ of("status") \in Statuses /\ of("ti") \in BOOLEAN
  BY <1>1 DEF Contents
<1>3. Written(p) = [occ |-> of("occ"), status |-> of("status"), ti |-> of("ti")]
  BY DEF Written, Columns
<1> QED
  BY <1>2, <1>3 DEF Contents

LEMMA GotoType ==
  ASSUME TypeOK, NEW p \in Savers,
         NEW label \in {"start", "got", "load", "apply", "commit", "done"}, Goto(p, label)
  PROVE  pc' \in [Savers -> {"start", "got", "load", "apply", "commit", "done"}]
BY DEF Goto, TypeOK

LEMMA TypeStep == TypeOK /\ [Next]_vars => TypeOK'
<1> SUFFICES ASSUME TypeOK, [Next]_vars PROVE TypeOK'
  OBVIOUS
<1> USE DEF TypeOK
<1>1. CASE MergeDuplicate
  <2>1. object' \in Contents
    BY <1>1, StoreAssumption DEF MergeDuplicate, Contents
  <2> QED
    BY <1>1, <2>1, GotoType, ActorsApart DEF MergeDuplicate
<1>2. CASE Enrich
  <2>1. object' \in Contents
    BY <1>2 DEF Enrich, Contents
  <2> QED
    BY <1>2, <2>1, GotoType, ActorsApart DEF Enrich
<1>3. CASE Prune
  <2>1. pruned' \in 0 .. Prunes
    BY <1>3, StoreAssumption DEF Prune
  <2> QED
    BY <1>3, <2>1, FreshType DEF Prune
<1>4. ASSUME NEW p \in Requests, Request(p)
      PROVE  TypeOK'
  <2>0. p \in Savers
    BY ActorsApart
  <2>1. CASE RequestGet(p)
    BY <2>0, <2>1, GotoType DEF RequestGet
  <2>2. CASE SetStatus(p)
    <3>1. PICK s \in Statuses : copy' = [copy EXCEPT ![p].status = s]
      BY <2>2 DEF SetStatus
    <3>2. copy' \in [Requests -> Contents]
      BY <3>1 DEF Contents
    <3> QED
      BY <2>0, <2>2, <3>2, GotoType DEF SetStatus
  <2>3. CASE EnrichNow(p)
    <3>1. copy' \in [Requests -> Contents]
      <4>1. CASE copy' = [copy EXCEPT ![p].ti = TRUE]
        BY <4>1 DEF Contents
      <4>2. CASE copy' = [copy EXCEPT ![p] = Fresh]
        BY <4>2, FreshType
      <4> QED
        BY <2>3, <4>1, <4>2 DEF EnrichNow
    <3>2. pc' \in [Savers -> {"start", "got", "load", "apply", "commit", "done"}]
      BY <2>0, <2>3, GotoType DEF EnrichNow
    <3> QED
      BY <2>3, <3>1, <3>2 DEF EnrichNow
  <2> QED
    BY <1>4, <2>1, <2>2, <2>3 DEF Request
<1>5. ASSUME NEW p \in Savers, Save(p)
      PROVE  TypeOK'
  <2>1. CASE Load(p)
    BY <2>1, GotoType DEF Load
  <2>2. CASE Apply(p)
    <3>1. [value |-> Alert(p), columns |-> Dirty(p)] \in [value : Contents, columns : SUBSET Columns]
      BY AlertType, DirtyType
    <3> QED
      BY <2>2, <3>1, GotoType DEF Apply
  <2>3. CASE Commit(p)
    <3>1. row' \in Contents /\ present' \in BOOLEAN /\ failed' \subseteq Savers
      BY <2>3, WrittenType DEF Commit
    <3>2. triage' \in Statuses
      BY <2>3 DEF Commit, Contents, Requests
    <3>3. pc' \in [Savers -> {"start", "got", "load", "apply", "commit", "done"}]
      BY <2>3, GotoType DEF Commit
    <3>4. /\ copy' \in [Requests -> Contents]
          /\ base' \in [Savers -> BOOLEAN \X Contents]
          /\ pending' \in [Savers -> [value : Contents, columns : SUBSET Columns]]
      BY <2>3, FreshType, ClosedTypes DEF Commit, Close
    <3> QED
      BY <2>3, <3>1, <3>2, <3>3, <3>4 DEF Commit
  <2> QED
    BY <1>5, <2>1, <2>2, <2>3 DEF Save
<1>6. CASE UNCHANGED vars
  BY <1>6 DEF vars
<1> QED
  BY <1>1, <1>2, <1>3, <1>4, <1>5, <1>6 DEF Next

LEMMA InitTypes == Init => TypeOK
<1> SUFFICES ASSUME Init PROVE TypeOK
  OBVIOUS
<1>1. 0 \in 0 .. Prunes /\ New \in Statuses
  BY StoreAssumption
<1> QED
  BY <1>1, FreshType, ClosedTypes DEF Init, TypeOK

(* Between its application and its commit nobody touches a request's copy, *)
(* its base or what it will write.                                         *)
LEMMA PendingStep == TypeOK /\ PendingIsDirty /\ [Next]_vars => PendingIsDirty'
<1> SUFFICES ASSUME TypeOK, PendingIsDirty, [Next]_vars,
                    NEW q \in Requests, pc'[q] = "commit"
             PROVE  pending'[q].value = copy'[q] /\ pending'[q].columns = Dirty(q)'
  BY DEF PendingIsDirty
<1>0. q \in Savers /\ q \notin Sensor /\ q # pipeline /\ q # worker
  BY ActorsApart, StoreAssumption DEF Sensor
<1>1. ASSUME pc[q] = "commit", copy'[q] = copy[q], base'[q] = base[q], pending'[q] = pending[q]
      PROVE  pending'[q].value = copy'[q] /\ pending'[q].columns = Dirty(q)'
  <2>1. Dirty(q)' = Dirty(q)
    BY <1>0, <1>1 DEF Dirty, Alert
  <2> QED
    BY <1>1, <2>1 DEF PendingIsDirty
<1>2. CASE MergeDuplicate \/ Enrich \/ Prune \/ UNCHANGED vars
  BY <1>0, <1>1, <1>2 DEF MergeDuplicate, Enrich, Prune, Goto, vars, TypeOK
<1>3. ASSUME NEW p \in Requests, Request(p)
      PROVE  pending'[q].value = copy'[q] /\ pending'[q].columns = Dirty(q)'
  <2>1. p # q
    BY <1>0, <1>3 DEF Request, RequestGet, SetStatus, EnrichNow, Goto, TypeOK
  <2>2. /\ pc[q] = "commit" /\ base' = base /\ pending' = pending
        /\ copy'[q] = copy[q]
    BY <1>0, <1>3, <2>1, ActorsApart
       DEF Request, RequestGet, SetStatus, EnrichNow, Goto, TypeOK
  <2> QED
    BY <1>1, <2>2
<1>4. ASSUME NEW p \in Savers, Save(p), p # q
      PROVE  pending'[q].value = copy'[q] /\ pending'[q].columns = Dirty(q)'
  <2>1. /\ pc[q] = "commit" /\ copy'[q] = copy[q]
        /\ base'[q] = base[q] /\ pending'[q] = pending[q]
    <3>1. CASE Load(p) \/ Apply(p)
      BY <1>0, <1>4, <3>1 DEF Load, Apply, Goto, TypeOK
    <3>2. CASE Commit(p)
      BY <1>0, <1>4, <3>2 DEF Commit, Close, Goto, TypeOK
    <3> QED
      BY <1>4, <3>1, <3>2 DEF Save
  <2> QED
    BY <1>1, <2>1
<1>5. CASE Save(q)
  <2>1. Apply(q)
    BY <1>0, <1>5 DEF Save, Load, Commit, Goto, TypeOK
  <2>2. pending'[q] = [value |-> Alert(q), columns |-> Dirty(q)]
    BY <1>0, <2>1 DEF Apply, TypeOK
  <2>3. Dirty(q)' = Dirty(q) /\ copy'[q] = Alert(q)
    BY <1>0, <2>1 DEF Apply, Dirty, Alert
  <2> QED
    BY <2>2, <2>3
<1> QED
  BY <1>2, <1>3, <1>4, <1>5 DEF Next

(* With one sweep at most, and while only the sensor writes: the row and   *)
(* what the savers loaded are no further than the shared object, a row is  *)
(* missing only after the sweep, and ...                                   *)
Overtaken ==
    pc[pipeline] = "commit" /\ ~base[pipeline][1] /\ ~pending[pipeline].value.ti

(* ... an insert the pipeline prepared before the enrichment either fails, *)
(* or the worker will insert first, or has not begun.                      *)
Outpaced ==
    \/ present
    \/ pc[worker] \in {"start", "load"}
    \/ pc[worker] \in {"apply", "commit"} /\ ~base[worker][1]
    \/ pc[worker] = "done" /\ worker \in failed

(* What a save writes, by what it loaded and what it holds.                *)
Unsaved(loaded, save) ==
    IF loaded[1] THEN {c \in Columns : save.value[c] # loaded[2][c]} ELSE Columns

SensorInv ==
    /\ object.ti <=> pc[worker] # "start"
    /\ ~present => pruned >= 1
    /\ row.ti => object.ti
    /\ \A p \in Sensor :
         /\ pc[p] \in {"apply", "commit"} =>
              (~base[p][1] => pruned >= 1) /\ (base[p][2].ti => object.ti)
         /\ pc[p] = "commit" =>
              /\ pending[p].columns = Unsaved(base[p], pending[p])
              /\ base[p][2].ti => pending[p].value.ti
              /\ pending[p].value.ti => object.ti
    /\ pc[worker] = "commit" => pending[worker].value.ti
    /\ Overtaken => pruned >= 1 /\ Outpaced
    /\ pc[worker] \in {"apply", "commit"} /\ base[worker][1] /\ base[worker][2].ti /\ present
         => row.ti
    /\ pc[worker] = "done" /\ worker \notin failed /\ present => row.ti

LEMMA SensorStep ==
  ASSUME Prunes <= 1, TypeOK, SensorOnly => SensorInv, [Next]_vars, SensorOnly'
  PROVE  SensorInv'
<1>0. /\ pipeline \in Savers /\ worker \in Savers /\ pipeline # worker
      /\ Sensor = {pipeline, worker} /\ Sensor \cap Requests = {}
      /\ pc \in [Savers -> {"start", "got", "load", "apply", "commit", "done"}]
      /\ base \in [Savers -> BOOLEAN \X Contents]
      /\ pending \in [Savers -> [value : Contents, columns : SUBSET Columns]]
      /\ pruned \in 0 .. Prunes /\ Prunes \in Nat /\ object \in Contents /\ row \in Contents
      /\ present \in BOOLEAN
  BY ActorsApart, StoreAssumption DEF Sensor, TypeOK, Savers
<1>1. SensorInv
  <2>1. ASSUME NEW q \in Requests, pc'[q] = "start" PROVE pc[q] = "start"
    <3>1. q \in Savers /\ q # pipeline /\ q # worker
      BY ActorsApart
    <3>2. CASE MergeDuplicate \/ Enrich \/ Prune \/ UNCHANGED vars
      BY <1>0, <2>1, <3>1, <3>2 DEF MergeDuplicate, Enrich, Prune, Goto, vars
    <3>3. ASSUME NEW p \in Requests, Request(p) PROVE pc[q] = "start"
      BY <1>0, <2>1, <3>1, <3>3 DEF Request, RequestGet, SetStatus, EnrichNow, Goto
    <3>4. ASSUME NEW p \in Savers, Save(p) PROVE pc[q] = "start"
      BY <1>0, <2>1, <3>1, <3>4 DEF Save, Load, Apply, Commit, Goto
    <3> QED
      BY <3>2, <3>3, <3>4 DEF Next
  <2> QED
    BY <2>1 DEF SensorOnly
<1>2. \/ MergeDuplicate \/ Enrich \/ Prune \/ UNCHANGED vars
      \/ \E p \in Sensor : Save(p)
  <2>1. ASSUME NEW q \in Requests, Request(q) PROVE FALSE
    <3>1. q \in Savers /\ pc'[q] = "start"
      BY ActorsApart DEF SensorOnly
    <3> QED
      BY <1>0, <2>1, <3>1 DEF Request, RequestGet, SetStatus, EnrichNow, Goto
  <2>2. ASSUME NEW q \in Savers, Save(q) PROVE q \in Sensor
    <3>1. q \in Sensor \/ pc'[q] = "start"
      BY <1>0 DEF SensorOnly, Savers
    <3> QED
      BY <1>0, <2>2, <3>1 DEF Save, Load, Apply, Commit, Goto
  <2> QED
    BY <2>1, <2>2 DEF Next
<1> USE DEF SensorInv, Overtaken, Outpaced
<1>3. CASE MergeDuplicate
  BY <1>0, <1>1, <1>3 DEF MergeDuplicate, Goto, Contents
<1>4. CASE Enrich
  BY <1>0, <1>1, <1>4 DEF Enrich, Goto, Contents
<1>5. CASE Prune
  BY <1>0, <1>1, <1>5 DEF Prune, Fresh
<1>6. CASE UNCHANGED vars
  BY <1>1, <1>6 DEF vars
<1>7. CASE Load(pipeline)
  BY <1>0, <1>1, <1>7 DEF Load, Goto
<1>8. CASE Load(worker)
  BY <1>0, <1>1, <1>8 DEF Load, Goto
<1>9. CASE Apply(pipeline)
  BY <1>0, <1>1, <1>9 DEF Apply, Goto, Dirty, Alert, Contents, Unsaved
<1>10. CASE Apply(worker)
  BY <1>0, <1>1, <1>10 DEF Apply, Goto, Dirty, Alert, Contents, Unsaved
<1>11. ASSUME NEW p \in Sensor, Commit(p)
       PROVE  /\ pc[p] = "commit" /\ UNCHANGED <<object, pruned>>
              /\ \/ /\ row' = row /\ present' = present /\ failed' = failed \cup {p}
                    /\ ~CanWrite(p)
                 \/ /\ row'.ti = IF "ti" \in pending[p].columns THEN pending[p].value.ti ELSE row.ti
                    /\ present' = (present \/ pending[p].columns # {})
                    /\ failed' = failed \ {p}
                    /\ pending[p].columns = {} \/ base[p][1] = present
  <2>1. Written(p).ti = IF "ti" \in pending[p].columns THEN pending[p].value.ti ELSE row.ti
    BY DEF Written, Columns
  <2> QED
    BY <1>11, <2>1 DEF Commit, CanWrite
<1>12. ASSUME NEW p \in Sensor, pc[p] = "commit", base[p][1]
       PROVE  "ti" \in pending[p].columns <=> pending[p].value.ti /\ ~base[p][2].ti
  <2>1. "ti" \in pending[p].columns <=> pending[p].value.ti # base[p][2].ti
    BY <1>1, <1>12 DEF Columns, Unsaved
  <2>2. pending[p].value.ti \in BOOLEAN /\ base[p][2].ti \in BOOLEAN
    BY <1>0, <1>12 DEF Contents
  <2> QED
    BY <1>1, <1>12, <2>1, <2>2
<1>13. ASSUME NEW p \in Sensor, pc[p] = "commit", ~base[p][1]
       PROVE  "ti" \in pending[p].columns
  BY <1>1, <1>13 DEF Columns, Unsaved
<1>14. CASE Commit(pipeline)
  <2>1. /\ pc'[pipeline] = "start" /\ pc'[worker] = pc[worker]
        /\ worker \in failed' <=> worker \in failed
    BY <1>0, <1>14 DEF Commit, Goto
  <2>2. present /\ row.ti => row'.ti
    BY <1>0, <1>1, <1>11, <1>12, <1>13, <1>14
  <2>3. ~present /\ present' => row'.ti \/ Overtaken
    BY <1>0, <1>1, <1>11, <1>12, <1>13, <1>14
  <2>4. (row'.ti => object.ti) /\ (present => present')
    BY <1>0, <1>1, <1>11, <1>14
  <2>5. /\ UNCHANGED <<object, pruned>>
        /\ base'[worker] = base[worker] /\ pending'[worker] = pending[worker]
    BY <1>0, <1>14 DEF Commit, Close
  <2>6. \A p \in Sensor : pc'[p] \in {"apply", "commit"} => p = worker
    BY <1>0, <2>1
  <2>7. \A p \in Sensor :
           /\ pc'[p] \in {"apply", "commit"} =>
                (~base'[p][1] => pruned' >= 1) /\ (base'[p][2].ti => object'.ti)
           /\ pc'[p] = "commit" =>
                /\ pending'[p].columns = Unsaved(base'[p], pending'[p])
                /\ base'[p][2].ti => pending'[p].value.ti
                /\ pending'[p].value.ti => object'.ti
    <3> SUFFICES ASSUME NEW p \in Sensor, p = worker, pc'[p] \in {"apply", "commit"}
                 PROVE  /\ (~base'[p][1] => pruned' >= 1) /\ (base'[p][2].ti => object'.ti)
                        /\ pc'[p] = "commit" =>
                             /\ pending'[p].columns = Unsaved(base'[p], pending'[p])
                             /\ base'[p][2].ti => pending'[p].value.ti
                             /\ pending'[p].value.ti => object'.ti
      BY <2>6
    <3>1. base'[p] = base[p] /\ pending'[p] = pending[p] /\ pc'[p] = pc[p]
      BY <2>1, <2>5
    <3>2. pc[p] = "commit" =>
            pending[p].columns = Unsaved(base[p], pending[p])
      BY <1>1
    <3>3. pc'[p] = "commit" =>
            pending'[p].columns = Unsaved(base'[p], pending'[p])
      BY <3>1, <3>2
    <3> QED
      BY <1>1, <2>5, <3>1, <3>3
  <2>8. ~Overtaken'
    BY <2>1
  <2>9. /\ ~present' => pruned' >= 1
        /\ object'.ti <=> pc'[worker] # "start"
        /\ pc'[worker] = "commit" => pending'[worker].value.ti
    BY <1>0, <1>1, <2>1, <2>4, <2>5
  <2>10. /\ pc'[worker] \in {"apply", "commit"} /\ base'[worker][1] /\ base'[worker][2].ti /\ present'
              => row'.ti
         /\ pc'[worker] = "done" /\ worker \notin failed' /\ present' => row'.ti
    BY <1>0, <1>1, <2>1, <2>2, <2>3, <2>5
  <2> QED
    BY <2>4, <2>5, <2>7, <2>8, <2>9, <2>10
<1>15. CASE Commit(worker)
  <2>1. pc'[worker] = "done" /\ pc'[pipeline] = pc[pipeline] /\ pc[worker] = "commit"
    BY <1>0, <1>15 DEF Commit, Goto
  <2>2. /\ UNCHANGED <<object, pruned>> /\ object.ti
        /\ base'[pipeline] = base[pipeline] /\ pending'[pipeline] = pending[pipeline]
    BY <1>0, <1>1, <1>15, <2>1 DEF Commit, Close
  <2>3. worker \notin failed' /\ present' => row'.ti
    BY <1>0, <1>1, <1>11, <1>12, <1>13, <1>15
  <2>4. present => present'
    BY <1>0, <1>11, <1>15
  <2>5. Overtaken => present' \/ worker \in failed'
    BY <1>0, <1>1, <1>11, <1>13, <1>15, <2>1
  <2>6. \A p \in Sensor : pc'[p] \in {"apply", "commit"} => p = pipeline
    BY <1>0, <2>1
  <2>7. row'.ti => object.ti
    BY <1>0, <1>1, <1>11, <1>15
  <2>8. \A p \in Sensor :
           /\ pc'[p] \in {"apply", "commit"} =>
                (~base'[p][1] => pruned' >= 1) /\ (base'[p][2].ti => object'.ti)
           /\ pc'[p] = "commit" =>
                /\ pending'[p].columns = Unsaved(base'[p], pending'[p])
                /\ base'[p][2].ti => pending'[p].value.ti
                /\ pending'[p].value.ti => object'.ti
    <3> SUFFICES ASSUME NEW p \in Sensor, p = pipeline, pc'[p] \in {"apply", "commit"}
                 PROVE  /\ (~base'[p][1] => pruned' >= 1) /\ (base'[p][2].ti => object'.ti)
                        /\ pc'[p] = "commit" =>
                             /\ pending'[p].columns = Unsaved(base'[p], pending'[p])
                             /\ base'[p][2].ti => pending'[p].value.ti
                             /\ pending'[p].value.ti => object'.ti
      BY <2>6
    <3>1. base'[p] = base[p] /\ pending'[p] = pending[p] /\ pc'[p] = pc[p]
      BY <2>1, <2>2
    <3>2. pc[p] = "commit" =>
            pending[p].columns = Unsaved(base[p], pending[p])
      BY <1>1
    <3>3. pc'[p] = "commit" =>
            pending'[p].columns = Unsaved(base'[p], pending'[p])
      BY <3>1, <3>2
    <3> QED
      BY <1>1, <2>2, <3>1, <3>3
  <2>9. Overtaken' => pruned' >= 1 /\ Outpaced'
    BY <1>0, <1>1, <2>1, <2>2, <2>4, <2>5
  <2>10. /\ ~present' => pruned' >= 1
         /\ object'.ti <=> pc'[worker] # "start"
    BY <1>0, <1>1, <2>1, <2>2, <2>4
  <2> QED
    BY <2>1, <2>2, <2>3, <2>7, <2>8, <2>9, <2>10
<1> QED
  BY <1>0, <1>2, <1>3, <1>4, <1>5, <1>6, <1>7, <1>8, <1>9, <1>10, <1>14, <1>15 DEF Save

----------------------------------------------------------------------------
(* The row, the objects in memory and what the savers hold keep their      *)
(* types (database/mappers.py, AlertService).                              *)
THEOREM TypeCorrect == Spec => []TypeOK
BY InitTypes, TypeStep, PTL DEF Spec

(* A PATCH that loaded what it had read changes no column but the status,  *)
(* for any number of requests and sweeps beside it.                        *)
THEOREM PatchIsNarrow == Spec => PatchWritesOnlyStatus
<1> DEFINE Narrow ==
      \A p \in Patchers :
        /\ pc[p] = "commit" /\ pc'[p] # "commit"
        /\ \A c \in {"occ", "ti"} : base[p][2][c] = copy[p][c]
        /\ base[p][1] /\ present
        => row'.occ = row.occ /\ row'.ti = row.ti
<1>1. Init => PendingIsDirty
  BY ActorsApart DEF Init, PendingIsDirty
<1>2. TypeOK /\ PendingIsDirty /\ [Next]_vars => Narrow
  <2> SUFFICES ASSUME TypeOK, PendingIsDirty, [Next]_vars, NEW p \in Patchers,
                      pc[p] = "commit", pc'[p] # "commit",
                      \A c \in {"occ", "ti"} : base[p][2][c] = copy[p][c], base[p][1]
               PROVE  row'.occ = row.occ /\ row'.ti = row.ti
    OBVIOUS
  <2>0. p \in Requests /\ p \in Savers /\ p \notin Sensor
    BY ActorsApart, StoreAssumption DEF Sensor
  <2>1. Commit(p)
    <3>1. ~MergeDuplicate /\ ~Enrich /\ ~Prune /\ ~UNCHANGED vars
      BY <2>0, ActorsApart DEF MergeDuplicate, Enrich, Prune, Goto, vars, TypeOK
    <3>2. ASSUME NEW q \in Requests, Request(q) PROVE FALSE
      BY <2>0, <3>2, ActorsApart DEF Request, RequestGet, SetStatus, EnrichNow, Goto, TypeOK
    <3>3. ASSUME NEW q \in Savers, Save(q) PROVE q = p /\ Commit(p)
      BY <2>0, <3>3 DEF Save, Load, Apply, Commit, Goto, TypeOK
    <3> QED
      BY <3>1, <3>2, <3>3 DEF Next
  <2>2. "occ" \notin pending[p].columns /\ "ti" \notin pending[p].columns
    <3>1. pending[p].columns = {c \in Columns : copy[p][c] # base[p][2][c]}
      BY <2>0 DEF PendingIsDirty, Dirty, Alert
    <3>2. base[p][2]["occ"] = copy[p]["occ"] /\ base[p][2]["ti"] = copy[p]["ti"]
      OBVIOUS
    <3> QED
      BY <3>1, <3>2
  <2>3. Written(p).occ = row.occ /\ Written(p).ti = row.ti
    BY <2>2 DEF Written, Columns
  <2> QED
    BY <2>1, <2>3 DEF Commit
<1>3. TypeOK /\ PendingIsDirty /\ [Next]_vars => [Narrow]_vars
  BY <1>2
<1> QED
  BY InitTypes, TypeStep, PendingStep, <1>1, <1>3, PTL DEF Spec, PatchWritesOnlyStatus

(* While only the sensor writes, a saved enrichment stays in the row,      *)
(* wherever merges fall, and the sweep, if it comes once at most.          *)
THEOREM EnrichmentStays ==
  ASSUME Prunes <= 1
  PROVE  Spec => []EnrichmentLands
<1> DEFINE Kept == SensorOnly => SensorInv
<1>1. Init => Kept
  <2> SUFFICES ASSUME Init PROVE SensorInv
    OBVIOUS
  <2>1. \A p \in Sensor : pc[p] = "start"
    BY DEF Init, Savers
  <2>2. worker \in Sensor /\ pipeline \in Sensor
    BY DEF Sensor
  <2> QED
    BY <2>1, <2>2 DEF Init, SensorInv, Fresh, Overtaken
<1>2. TypeOK /\ Kept /\ [Next]_vars => Kept'
  BY SensorStep
<1>3. Kept => EnrichmentLands
  BY DEF SensorInv, EnrichmentLands
<1> QED
  BY InitTypes, TypeStep, <1>1, <1>2, <1>3, PTL DEF Spec
----------------------------------------------------------------------------
(* The lists.  Rows of a finite set that all have places below its size,   *)
(* no two the same, fill every place, so any n places are those of n rows. *)
LEMMA PlacesFilled ==
  ASSUME NEW M, IsFiniteSet(M), NEW place \in [M -> 0 .. Cardinality(M) - 1],
         \A x, y \in M : place[x] = place[y] => x = y,
         NEW a \in Nat, NEW n \in Nat, a + n <= Cardinality(M)
  PROVE  Cardinality({x \in M : place[x] \in a .. a + n - 1}) = n
<1> DEFINE T == 0 .. Cardinality(M) - 1
           R == a .. a + n - 1
           P == {x \in M : place[x] \in R}
           g == [x \in P |-> place[x]]
<1>0. Cardinality(M) \in Nat
  BY FS_CardinalityType
<1>1. IsFiniteSet(T) /\ Cardinality(T) = Cardinality(M)
  <2>1. PICK m \in Int : m = Cardinality(M) - 1 /\ m >= -1
    BY <1>0
  <2>2. IsFiniteSet(0 .. m) /\ Cardinality(0 .. m) = IF 0 > m THEN 0 ELSE m - 0 + 1
    BY FS_Interval
  <2>3. Cardinality(0 .. m) = m + 1
    BY <2>1, <2>2
  <2> QED
    BY <1>0, <2>1, <2>2, <2>3
<1>2. place \in Surjection(M, T)
  <2>1. place \in Injection(M, T)
    BY Fun_IsInj
  <2> HIDE DEF T
  <2> QED
    BY <1>1, <2>1, FS_Injection
<1>3. \A k \in R : \E x \in M : place[x] = k
  <2>1. R \subseteq T
    BY <1>0
  <2> HIDE DEF T, R
  <2> QED
    BY <1>2, <2>1, Fun_SurjectionProperties
<1>4. IsFiniteSet(R) /\ Cardinality(R) = n
  BY FS_Interval
<1> HIDE DEF R
<1>5. g \in Injection(P, R)
  <2>1. g \in [P -> R]
    OBVIOUS
  <2>2. \A x, y \in P : g[x] = g[y] => x = y
    OBVIOUS
  <2> HIDE DEF g
  <2> QED
    BY <2>1, <2>2, Fun_IsInj
<1>6. g \in Surjection(P, R)
  <2>1. \A k \in R : \E x \in P : g[x] = k
    BY <1>3
  <2>2. g \in [P -> R]
    OBVIOUS
  <2> HIDE DEF g, P
  <2> QED
    BY <2>1, <2>2, Fun_IsSurj
<1> HIDE DEF g, P
<1>7. Cardinality(P) = Cardinality(R)
  BY <1>4, <1>5, <1>6, FS_Injection
<1> QED
  BY <1>4, <1>7 DEF P, R

Measured ==
    /\ \A q : IsFiniteSet(Matched(q)) /\ Matched(q) \subseteq Times
    /\ \A t : IsFiniteSet(Ahead(t)) /\ Place(t) \in Nat

LEMMA ListFinite == ListingsTypeOK => Measured
<1> SUFFICES ASSUME ListingsTypeOK PROVE Measured
  OBVIOUS
<1>1. IsFiniteSet(Times)
  BY ListingsAssumption, FS_Interval DEF Times
<1>2. \A q : Matched(q) \in SUBSET Times
  BY DEF ListingsTypeOK, Matched
<1>3. \A q : IsFiniteSet(Matched(q))
  BY <1>1, <1>2, FS_Subset
<1>4. \A t : Ahead(t) \in SUBSET Matched(query)
  BY DEF Ahead
<1>5. \A t : IsFiniteSet(Ahead(t)) /\ Place(t) \in Nat
  BY <1>3, <1>4, FS_Subset, FS_CardinalityType DEF Place
<1> QED
  BY <1>2, <1>3, <1>5 DEF Measured

LEMMA ListFiniteNext == ListingsTypeOK' => Measured'
BY ListFinite, PTL

(* The order of a list is one.                                             *)
LEMMA Listed ==
  ASSUME ListingsTypeOK, NEW t \in Matched(query), NEW u \in Matched(query)
  PROVE  /\ t # u => Before(t, u) \/ Before(u, t)
         /\ ~Before(t, t)
         /\ Before(t, u) => \A v \in Matched(query) : Before(v, t) => Before(v, u)
<1>1. \A v \in Matched(query) : v \in Nat
  BY ListFinite, ListingsAssumption DEF Times, Measured
<1> QED
  BY <1>1 DEF Before

(* A page with a row left behind it is full.                               *)
LEMMA PageFull ==
  ASSUME ListingsTypeOK, NEW t \in Matched(query), Place(t) >= offset + query.limit
  PROVE  Cardinality(Slice) = query.limit
<1> DEFINE M == Matched(query)
           place == [u \in M |-> Place(u)]
<1>0. IsFiniteSet(M) /\ Cardinality(M) \in Nat
  BY ListFinite, FS_CardinalityType DEF Measured
<1>1. ASSUME NEW u \in M  PROVE Place(u) \in 0 .. Cardinality(M) - 1
  <2>1. Ahead(u) \in SUBSET M /\ u \notin Ahead(u)
    BY Listed DEF Ahead
  <2>2. Ahead(u) # M
    BY <2>1
  <2>3. Cardinality(Ahead(u)) <= Cardinality(M) /\ Cardinality(Ahead(u)) # Cardinality(M)
    BY <1>0, <2>1, <2>2, FS_Subset
  <2>4. Place(u) \in Nat
    BY ListFinite DEF Measured
  <2> QED
    BY <1>0, <2>3, <2>4 DEF Place
<1>2. ASSUME NEW u \in M, NEW v \in M, Before(u, v)  PROVE Place(u) # Place(v)
  <2>1. Ahead(u) \in SUBSET Ahead(v)
    BY <1>2, Listed DEF Ahead
  <2>2. u \in Ahead(v) /\ u \notin Ahead(u)
    BY <1>2, Listed DEF Ahead
  <2>3. IsFiniteSet(Ahead(v))
    BY ListFinite DEF Measured
  <2> QED
    BY <2>1, <2>2, <2>3, FS_Subset DEF Place
<1>3. place \in [M -> 0 .. Cardinality(M) - 1]
  BY <1>1
<1>4. \A u, v \in M : place[u] = place[v] => u = v
  BY <1>2, Listed
<1>5. offset \in Nat /\ query.limit \in Nat
  BY ListingsAssumption DEF ListingsTypeOK, Queries
<1>6. offset + query.limit <= Cardinality(M)
  BY <1>0, <1>1, <1>5
<1>7. Cardinality({u \in M : place[u] \in offset .. offset + query.limit - 1}) = query.limit
  <2> HIDE DEF M, place
  <2> QED
    BY <1>0, <1>3, <1>4, <1>5, <1>6, PlacesFilled
<1>8. Slice = {u \in M : place[u] \in offset .. offset + query.limit - 1}
  BY DEF Slice
<1> QED
  BY <1>7, <1>8

LEMMA ListingsTypes == ListingsTypeOK /\ [ListingsNext]_listings => ListingsTypeOK'
<1> SUFFICES ASSUME ListingsTypeOK, [ListingsNext]_listings PROVE ListingsTypeOK'
  OBVIOUS
<1> USE DEF ListingsTypeOK
<1>1. ASSUME NEW kind \in Kinds, NEW t \in Times, AddRow(kind, t)  PROVE ListingsTypeOK'
  <2>1. (CHOOSE s \in AlertStatuses : TRUE) \in AlertStatuses
    BY ListingsAssumption
  <2> QED
    BY <1>1, <2>1 DEF AddRow
<1>2. ASSUME NEW t \in DOMAIN rows, GrowOld(t)  PROVE ListingsTypeOK'
  BY <1>2 DEF GrowOld
<1>3. ASSUME NEW t \in DOMAIN rows, Sweep(t)  PROVE ListingsTypeOK'
  BY <1>3 DEF Sweep
<1>4. ASSUME NEW t \in DOMAIN rows, NEW status \in AlertStatuses, SetTriage(t, status)
      PROVE  ListingsTypeOK'
  BY <1>4 DEF SetTriage
<1>5. ASSUME NEW q \in Queries, FirstPage(q)  PROVE ListingsTypeOK'
  BY <1>5, ListFinite DEF FirstPage, Measured
<1>6. ASSUME ReadPage  PROVE ListingsTypeOK'
  BY <1>6, ListFinite DEF ReadPage, Slice, Measured
<1>7. ASSUME AnswerPage  PROVE ListingsTypeOK'
  <2>1. query.limit \in Nat
    BY ListingsAssumption DEF Queries
  <2> QED
    BY <1>7, <2>1 DEF AnswerPage
<1>8. ASSUME Leave  PROVE ListingsTypeOK'
  BY <1>8 DEF Leave, Queries
<1>9. CASE UNCHANGED listings
  BY <1>9 DEF listings
<1> HIDE DEF ListingsTypeOK
<1> QED
  BY <1>1, <1>2, <1>3, <1>4, <1>5, <1>6, <1>7, <1>8, <1>9 DEF ListingsNext

(* Between two requests a row that is due has at least as many rows ahead  *)
(* of it as the client has skipped; while an answer is on its way the rows *)
(* behind its page wait for the next, and the page is full.                *)
Walk ==
    /\ due \subseteq Matched(query)
    /\ ~shifted =>
         /\ turn = "asking" => \A t \in due : Place(t) >= offset
         /\ turn = "listed" => \A t \in due \ page :
                                 Place(t) >= offset + query.limit /\ Cardinality(page) = query.limit
         /\ turn = "done" => due = {}

(* A row keeps its place or loses ground when no row ahead of it leaves.   *)
LEMMA WalkKept ==
  ASSUME ListingsTypeOK, ListingsTypeOK', Walk, UNCHANGED <<listing, query, offset, turn, page>>,
         due' \subseteq due, due' \subseteq Matched(query)', shifted => shifted',
         ~shifted' => \A t \in due' : \A u \in Matched(query) :
                        Before(u, t) => u \in Matched(query)'
  PROVE  Walk'
<1>1. ASSUME NEW t \in due', ~shifted'  PROVE Place(t) <= Place(t)'
  <2>1. Ahead(t) \in SUBSET Ahead(t)'
    BY <1>1 DEF Ahead, Before
  <2>2. IsFiniteSet(Ahead(t)')
    BY ListFiniteNext DEF Measured
  <2> QED
    BY <2>1, <2>2, FS_Subset DEF Place
<1>2. /\ offset \in Nat /\ query.limit \in Nat
      /\ \A t : Place(t) \in Nat /\ Place(t)' \in Nat
  <2>1. offset \in Nat /\ query.limit \in Nat
    BY ListingsAssumption DEF ListingsTypeOK, Queries
  <2>2. \A t : Place(t) \in Nat
    BY ListFinite DEF Measured
  <2>3. \A t : Place(t)' \in Nat
    BY ListFiniteNext DEF Measured
  <2> QED
    BY <2>1, <2>2, <2>3
<1>3. ASSUME NEW t \in due', ~shifted', NEW n \in Nat, Place(t) >= n  PROVE Place(t)' >= n
  BY <1>1, <1>2, <1>3
<1>4. ~shifted' => /\ turn' = "asking" => \A t \in due' : Place(t)' >= offset
                   /\ turn' = "listed" => \A t \in due' \ page :
                        Place(t)' >= offset + query.limit /\ Cardinality(page) = query.limit
                   /\ turn' = "done" => due' = {}
  BY <1>2, <1>3 DEF Walk
<1> QED
  BY <1>4 DEF Walk

LEMMA WalkStep == ListingsTypeOK /\ Walk /\ [ListingsNext]_listings => Walk'
<1> SUFFICES ASSUME ListingsTypeOK, Walk, [ListingsNext]_listings PROVE Walk'
  OBVIOUS
<1>t. ListingsTypeOK'
  BY ListingsTypes
<1>d. due \subseteq Matched(query) /\ Matched(query) \subseteq DOMAIN rows
  BY DEF Walk, Matched
<1>n. \A t \in DOMAIN rows : t \in Nat
  BY ListingsAssumption DEF ListingsTypeOK, Times
<1>l. offset \in Nat /\ query.limit \in Nat \ {0}
  BY ListingsAssumption DEF ListingsTypeOK, Queries
<1>1. ASSUME NEW kind \in Kinds, NEW t \in Times, AddRow(kind, t)  PROVE Walk'
  <2>1. UNCHANGED <<listing, query, offset, turn, page, due, shifted>>
    BY <1>1 DEF AddRow
  <2>2. Matched(query) \subseteq Matched(query)'
    BY <1>1 DEF AddRow, Matched
  <2> QED
    BY <1>d, <1>t, <2>1, <2>2, WalkKept
<1>2. ASSUME NEW t \in DOMAIN rows, GrowOld(t)  PROVE Walk'
  <2>1. /\ UNCHANGED <<listing, query, offset, turn, page, shifted>>
        /\ due' = IF query.recent THEN due \ {t} ELSE due
        /\ rows' = [rows EXCEPT ![t].aged = TRUE]
        /\ listing = "alerts" /\ \A u \in DOMAIN rows : u < t => rows[u].aged
    BY <1>2 DEF GrowOld
  <2>2. \A u \in Matched(query) : u # t \/ ~query.recent => u \in Matched(query)'
    BY <2>1 DEF Matched, Matching, ListingsTypeOK
  <2>3. due' \subseteq due /\ due' \subseteq Matched(query)'
    BY <1>d, <2>1, <2>2
  <2>4. ASSUME NEW v \in due', NEW u \in Matched(query), Before(u, v)  PROVE u \in Matched(query)'
    <3>1. CASE query.recent
      <4>1. v \in DOMAIN rows /\ ~rows[v].aged /\ v # t
        BY <1>d, <2>1, <2>3, <3>1 DEF Matched, Matching
      <4>2. t < v /\ v < u
        BY <1>d, <1>n, <2>1, <2>4, <4>1 DEF Before
      <4> QED
        BY <1>d, <1>n, <2>2, <4>1, <4>2
    <3> QED
      BY <2>2, <3>1
  <2> QED
    BY <1>t, <2>1, <2>3, <2>4, WalkKept
<1>3. ASSUME NEW t \in DOMAIN rows, Sweep(t)  PROVE Walk'
  <2> DEFINE kept == {u \in DOMAIN rows : u > t}
  <2>1. /\ UNCHANGED <<listing, query, offset, turn, page>>
        /\ rows' = [u \in kept |-> rows[u]] /\ due' = due \cap kept
        /\ shifted' = (shifted \/ listing = "packets")
    BY <1>3 DEF Sweep
  <2>2. Matched(query)' = Matched(query) \cap kept
    BY <2>1 DEF Matched
  <2>3. due' \subseteq due /\ due' \subseteq Matched(query)'
    BY <1>d, <2>1, <2>2
  <2>4. ASSUME ~shifted', NEW v \in due', NEW u \in Matched(query), Before(u, v)
        PROVE  u \in Matched(query)'
    <3>1. v > t /\ v \in DOMAIN rows
      BY <1>d, <2>1
    <3>2. listing = "alerts"
      BY <2>1, <2>4 DEF ListingsTypeOK
    <3>3. u > t
      BY <1>d, <1>n, <2>4, <3>1, <3>2 DEF Before
    <3> QED
      BY <1>d, <2>2, <3>3
  <2> QED
    BY <1>t, <2>1, <2>3, <2>4, WalkKept
<1>4. ASSUME NEW t \in DOMAIN rows, NEW status \in AlertStatuses, SetTriage(t, status)
      PROVE  Walk'
  <2> DEFINE leaves == query.status = rows[t].status
  <2>1. /\ UNCHANGED <<listing, query, offset, turn, page>>
        /\ rows' = [rows EXCEPT ![t].status = status]
        /\ due' = (IF leaves THEN due \ {t} ELSE due)
        /\ shifted' = (shifted \/ leaves)
    BY <1>4 DEF SetTriage
  <2>2. \A u \in Matched(query) : u # t \/ ~leaves => u \in Matched(query)'
    BY <2>1 DEF Matched, Matching, ListingsTypeOK
  <2>3. due' \subseteq due /\ due' \subseteq Matched(query)'
    BY <1>d, <2>1, <2>2
  <2>4. ~shifted' => \A v \in due' : \A u \in Matched(query) : Before(u, v) => u \in Matched(query)'
    BY <2>1, <2>2
  <2> QED
    BY <1>t, <2>1, <2>3, <2>4, WalkKept
<1>5. ASSUME NEW q \in Queries, FirstPage(q)  PROVE Walk'
  <2>1. /\ turn' = "asking" /\ query' = q /\ offset' = 0 /\ due' = Matched(q)
        /\ UNCHANGED rows
    BY <1>5 DEF FirstPage
  <2>2. due' \subseteq Matched(query)'
    BY <2>1 DEF Matched
  <2>3. \A t : Place(t)' \in Nat
    BY <1>t, ListFiniteNext DEF Measured
  <2> QED
    BY <2>1, <2>2, <2>3 DEF Walk
<1>6. ASSUME ReadPage  PROVE Walk'
  <2>1. /\ turn = "asking" /\ turn' = "listed" /\ page' = Slice
        /\ UNCHANGED <<listing, rows, query, offset, due, shifted>>
    BY <1>6 DEF ReadPage
  <2>2. ASSUME ~shifted, NEW t \in due \ Slice  PROVE Place(t) >= offset + query.limit
    <3>1. Place(t) >= offset /\ t \in Matched(query) /\ Place(t) \in Nat
      BY <1>d, <2>1, <2>2, ListFinite DEF Walk, Measured
    <3>2. Place(t) \notin offset .. offset + query.limit - 1
      BY <2>2, <3>1 DEF Slice
    <3> QED
      BY <1>l, <3>1, <3>2
  <2>3. ASSUME ~shifted, NEW t \in due \ Slice  PROVE Cardinality(Slice) = query.limit
    BY <1>d, <2>2, <2>3, PageFull
  <2>4. /\ Matched(query)' = Matched(query) /\ \A t : Place(t)' = Place(t)
    BY <2>1 DEF Matched, Place, Ahead, Before
  <2> QED
    BY <1>d, <2>1, <2>2, <2>3, <2>4 DEF Walk
<1>7. ASSUME AnswerPage  PROVE Walk'
  <2>1. /\ turn = "listed" /\ turn' = (IF HasMore THEN "asking" ELSE "done")
        /\ due' = due \ page /\ offset' = offset + query.limit
        /\ UNCHANGED <<listing, rows, query, shifted>>
    BY <1>7 DEF AnswerPage
  <2>2. /\ Matched(query)' = Matched(query) /\ \A t : Place(t)' = Place(t)
    BY <2>1 DEF Matched, Place, Ahead, Before
  <2>3. CASE shifted \/ due' = {}
    BY <1>d, <2>1, <2>2, <2>3 DEF Walk
  <2>4. ASSUME ~shifted, NEW t \in due'  PROVE HasMore /\ Place(t) >= offset + query.limit
    <3>1. Place(t) >= offset + query.limit /\ Cardinality(page) = query.limit
      BY <2>1, <2>4 DEF Walk
    <3>2. Place(t) < Total
      <4>1. t \in Matched(query) /\ t \notin Ahead(t) /\ Ahead(t) \in SUBSET Matched(query)
        BY <1>d, <2>1, <2>4, Listed DEF Ahead
      <4>2. IsFiniteSet(Matched(query)) /\ Place(t) \in Nat
        BY ListFinite DEF Measured
      <4>3. /\ Cardinality(Ahead(t)) <= Cardinality(Matched(query))
            /\ Cardinality(Ahead(t)) # Cardinality(Matched(query))
            /\ Cardinality(Matched(query)) \in Nat
        BY <4>1, <4>2, FS_Subset, FS_CardinalityType
      <4> QED
        BY <4>2, <4>3 DEF Place, Total
    <3>3. Place(t) \in Nat /\ Total \in Nat
      BY ListFinite, FS_CardinalityType DEF Total, Measured
    <3> QED
      BY <1>l, <3>1, <3>2, <3>3 DEF HasMore
  <2>5. CASE ~shifted /\ due' # {}
    <3>1. turn' = "asking"
      BY <2>1, <2>4, <2>5
    <3> QED
      BY <1>d, <2>1, <2>2, <2>4, <3>1 DEF Walk
  <2> QED
    BY <2>3, <2>5
<1>8. ASSUME Leave  PROVE Walk'
  BY <1>8 DEF Leave, Walk
<1>9. CASE UNCHANGED listings
  <2>1. due' = due /\ shifted' = shifted /\ turn' = turn /\ page' = page /\ offset' = offset /\ query' = query
    BY <1>9 DEF listings
  <2>2. Matched(query)' = Matched(query) /\ \A t : Place(t)' = Place(t)
    BY <1>9 DEF listings, Matched, Place, Ahead, Before
  <2> QED
    BY <2>1, <2>2 DEF Walk
<1> QED
  BY <1>1, <1>2, <1>3, <1>4, <1>5, <1>6, <1>7, <1>8, <1>9 DEF ListingsNext

LEMMA ListingsInitInv == ListingsInit => ListingsTypeOK /\ Walk
<1> SUFFICES ASSUME ListingsInit PROVE ListingsTypeOK /\ Walk
  OBVIOUS
<1>1. ListingsTypeOK
  BY DEF ListingsInit, ListingsTypeOK, Queries
<1>2. Walk
  BY DEF ListingsInit, Walk
<1> QED
  BY <1>1, <1>2

(* GET /alerts and GET /packets: the table, the query and the page keep    *)
(* their types.                                                            *)
THEOREM ListsTyped == ListingsSpec => []ListingsTypeOK
BY ListingsInitInv, ListingsTypes, PTL DEF ListingsSpec

(* A client that follows has_more to the end has seen every row that       *)
(* matched and stood all along, unless a row left ahead of its offset.     *)
THEOREM PagesMissNothing == ListingsSpec => []NoneMissed
<1>1. ListingsTypeOK /\ Walk => NoneMissed
  BY DEF Walk, NoneMissed
<1> QED
  BY ListingsInitInv, ListingsTypes, WalkStep, <1>1, PTL DEF ListingsSpec

----------------------------------------------------------------------------
(* The report.  A finite set has a member that a measure of its members    *)
(* puts last: the greatest number, and with the measure turned round the   *)
(* least.                                                                  *)
LEMMA LastIsThere ==
  ASSUME NEW S, IsFiniteSet(S), S # {}, NEW m \in [S -> Int],
         \A x, y \in S : m[x] = m[y] => x = y
  PROVE  \E x \in S : \A y \in S : m[x] >= m[y]
<1> DEFINE Above(x) == {y \in S : m[y] > m[x]}
           place == [x \in S |-> Cardinality(Above(x))]
<1>0. Cardinality(S) \in Nat /\ Cardinality(S) # 0
  BY FS_CardinalityType, FS_EmptySet
<1>m. \A x \in S : m[x] \in Int
  OBVIOUS
<1>1. \A x \in S : Above(x) \in SUBSET S /\ x \notin Above(x)
  BY <1>m
<1>2. \A x \in S : IsFiniteSet(Above(x)) /\ Cardinality(Above(x)) \in Nat
  BY <1>1, FS_Subset, FS_CardinalityType
<1>3. ASSUME NEW x \in S  PROVE Cardinality(Above(x)) \in 0 .. Cardinality(S) - 1
  <2>1. Above(x) # S
    BY <1>1
  <2>2. Cardinality(Above(x)) <= Cardinality(S) /\ Cardinality(Above(x)) # Cardinality(S)
    BY <1>1, <2>1, FS_Subset
  <2> HIDE DEF Above
  <2> QED
    BY <1>0, <1>2, <2>2
<1>4. ASSUME NEW x \in S, NEW y \in S, m[x] < m[y]
      PROVE  Cardinality(Above(x)) # Cardinality(Above(y))
  <2>1. ASSUME NEW z \in S, m[z] > m[y]  PROVE m[z] > m[x]
    <3>1. m[x] \in Int /\ m[y] \in Int /\ m[z] \in Int
      BY <1>m
    <3> QED
      BY <3>1, <1>4, <2>1
  <2>2. Above(y) \in SUBSET Above(x)
    BY <2>1
  <2>3. y \in Above(x)
    BY <1>4, <1>m
  <2>4. y \notin Above(y)
    BY <1>1
  <2> HIDE DEF Above
  <2> QED
    BY <1>2, <2>2, <2>3, <2>4, FS_Subset
<1>5. \A x, y \in S : place[x] = place[y] => x = y
  <2> SUFFICES ASSUME NEW x \in S, NEW y \in S, place[x] = place[y], x # y PROVE FALSE
    OBVIOUS
  <2>1. m[x] < m[y] \/ m[y] < m[x]
    BY <1>m
  <2>2. place[x] = Cardinality(Above(x)) /\ place[y] = Cardinality(Above(y))
    OBVIOUS
  <2> HIDE DEF place, Above
  <2> QED
    BY <1>4, <2>1, <2>2
<1>6. place \in [S -> 0 .. Cardinality(S) - 1]
  BY <1>3
<1>7. ASSUME NEW x \in S, place[x] \in 0 .. 0  PROVE Above(x) = {}
  <2>1. place[x] = Cardinality(Above(x))
    OBVIOUS
  <2>2. Cardinality(Above(x)) = 0
    BY <1>7, <2>1
  <2> HIDE DEF place, Above
  <2> QED
    BY <1>2, <2>2, FS_EmptySet
<1> HIDE DEF place
<1>8. Cardinality({x \in S : place[x] \in 0 .. 0 + 1 - 1}) = 1
  BY <1>0, <1>5, <1>6, PlacesFilled
<1>9. PICK x \in S : Above(x) = {}
  <2>1. {x \in S : place[x] \in 0 .. 0 + 1 - 1} # {}
    BY <1>8, FS_EmptySet
  <2>2. PICK x \in S : place[x] \in 0 .. 0
    BY <2>1
  <2> QED
    BY <1>7, <2>2
<1>10. \A y \in S : m[x] >= m[y]
  BY <1>9, <1>m
<1> QED
  BY <1>10

LEMMA GreatestIsThere ==
  ASSUME NEW S \in SUBSET Nat, IsFiniteSet(S), S # {}
  PROVE  \E x \in S : \A y \in S : x >= y
<1> DEFINE m == [x \in S |-> x]
<1>1. m \in [S -> Int] /\ \A x \in S : m[x] = x
  OBVIOUS
<1> HIDE DEF m
<1>2. \A x, y \in S : m[x] = m[y] => x = y
  BY <1>1
<1>3. PICK x \in S : \A y \in S : m[x] >= m[y]
  BY <1>1, <1>2, LastIsThere
<1>4. \A y \in S : x >= y
  BY <1>1, <1>3
<1> QED
  BY <1>4

LEMMA LeastIsThere ==
  ASSUME NEW S \in SUBSET Nat, IsFiniteSet(S), S # {}
  PROVE  \E x \in S : \A y \in S : x <= y
<1> DEFINE m == [x \in S |-> -x]
<1>1. m \in [S -> Int] /\ \A x \in S : m[x] = -x
  OBVIOUS
<1> HIDE DEF m
<1>2. \A x, y \in S : m[x] = m[y] => x = y
  BY <1>1
<1>3. PICK x \in S : \A y \in S : m[x] >= m[y]
  BY <1>1, <1>2, LastIsThere
<1>4. \A y \in S : x <= y
  BY <1>1, <1>3
<1> QED
  BY <1>4

(* The candidates are listed, and in turn comes one that was not asked.    *)
LEMMA Listing == DOMAIN Candidates \subseteq Nat /\ IsFiniteSet(DOMAIN Candidates)
<1> DEFINE S == {p \in Plugins : /\ p.bucket # ""
                                 /\ \A i \in DOMAIN Builtins : Builtins[i].class # p.class}
           B == {Builtins[i] : i \in DOMAIN Builtins}
<1>1. IsFiniteSet(S)
  <2>1. S \in SUBSET Plugins
    OBVIOUS
  <2> HIDE DEF S
  <2> QED
    BY <2>1, ReportAssumption, FS_Subset
<1>2. DiscoveredProviders = SetToSeq(S)
  BY DEF DiscoveredProviders
<1> HIDE DEF S
<1>3. PICK n \in Nat : n = Cardinality(S)
  BY <1>1, FS_CardinalityType
<1>4. SetToSeq(S) \in [1 .. n -> S]
  <2>1. \E f \in [1 .. n -> S] : IsInjective(f)
    BY <1>1, <1>3, FS_CardinalityType DEF ExistsBijection, Bijection, Injection
  <2> QED
    BY <1>3, <2>1 DEF SetToSeq
<1>5. DiscoveredProviders \in Seq(S \cup B)
  BY <1>2, <1>4
<1>6. Builtins \in Seq(S \cup B)
  BY ReportAssumption
<1>7. Candidates \in Seq(S \cup B)
  BY <1>5, <1>6 DEF Candidates
<1>8. PICK m \in Nat : DOMAIN Candidates = 1 .. m
  BY <1>7
<1> QED
  BY <1>8, FS_Interval

LEMMA NextAsked ==
  ASSUME ReportTypeOK, Unasked # {}
  PROVE  /\ NextUp \in Unasked /\ NextUp \in providers
         /\ setting.enabled /\ Candidates[NextUp].config \in setting.providers
<1>1. Unasked \in SUBSET Nat /\ Unasked \subseteq providers /\ IsFiniteSet(Unasked)
  BY Listing, FS_Subset DEF ReportTypeOK, BuildProviders, Unasked
<1>2. NextUp \in Unasked
  BY <1>1, LeastIsThere DEF NextUp
<1> QED
  BY <1>1, <1>2 DEF ReportTypeOK, BuildProviders

(* Whoever is asked about may be.                                          *)
LEMMA AskedAboutEligible ==
  ASSUME ReportTypeOK, EligibleIps # {}
  PROVE  AskedAbout = "public" \/ (setting.private /\ AskedAbout = "private")
BY DEF EligibleIps, AskedAbout, IsEligible

(* The verdicts, from the mildest to the worst.                            *)
LEMMA Milder ==
  /\ ~Worse("unknown", "unknown")
  /\ \A w \in {"clean", "suspicious", "malicious"} : ~Worse("unknown", w) /\ ~Worse("clean", w)
  /\ \A w \in {"suspicious", "malicious"} : ~Worse("suspicious", w)
  /\ ~Worse("malicious", "malicious")
BY DEF Worse, Verdicts

LEMMA ClassifyGrows ==
  ASSUME NEW m \in Nat, NEW x \in Nat, x <= m, m # Nil
  PROVE  ~Worse(Classify(x), Classify(m)) /\ ~Worse(Classify(Nil), Classify(m))
<1>1. Malicious \in Nat /\ Suspicious \in Nat
  BY ReportAssumption
<1>2. Classify(Nil) = "unknown"
  BY DEF Classify
<1>3. CASE m >= Malicious
  BY <1>1, <1>2, <1>3, Milder DEF Classify
<1>4. CASE m < Malicious /\ m >= Suspicious
  BY <1>1, <1>2, <1>4, Milder DEF Classify
<1>5. CASE m < Malicious /\ m < Suspicious
  BY <1>1, <1>2, <1>5, Milder DEF Classify
<1> QED
  BY <1>1, <1>3, <1>4, <1>5

ReportInv ==
    /\ ReportTypeOK /\ OnlyPublicAsked
    /\ asking = "reported" => report.verdict = Classify(AggregateScore)

(* An answer is typed, whatever a provider gives.                          *)
LEMMA AnswerTyped ==
  ASSUME NEW p, NEW a, a \in Answers(p) \/ \E s \in {"skipped", "circuit_open", "error"} : a = Failed(s)
  PROVE  /\ a.status \in {"ok", "skipped", "circuit_open", "error"}
         /\ a.score \in Opinions \cup {Nil}
BY DEF Answers, Failed

LEMMA ReportInitInv == ReportInit => ReportInv
BY DEF ReportInit, ReportInv, ReportTypeOK, NoAnswers, Addresses, OnlyPublicAsked

LEMMA ReportStep == ReportInv /\ [ReportNext]_reporting => ReportInv'
<1> SUFFICES ASSUME ReportInv, [ReportNext]_reporting PROVE ReportInv'
  OBVIOUS
<1>t. ReportTypeOK /\ OnlyPublicAsked
  BY DEF ReportInv
<1>1. ASSUME NEW ips \in Addresses \X Addresses, EnrichAlert(ips)  PROVE ReportInv'
  BY <1>1, <1>t DEF EnrichAlert, ReportInv, ReportTypeOK, BuildProviders, NoAnswers, OnlyPublicAsked
<1>2. ASSUME NothingToAsk  PROVE ReportInv'
  BY <1>2, <1>t DEF NothingToAsk, ReportInv, ReportTypeOK, BuildProviders, OnlyPublicAsked
<1>3. ASSUME QueryProvider  PROVE ReportInv'
  <2> DEFINE p == Candidates[NextUp]
  <2>1. /\ asking = "asking" /\ EligibleIps # {} /\ Unasked # {}
        /\ UNCHANGED <<setting, providers, suspect, asking, report>>
    BY <1>3 DEF QueryProvider
  <2>2. PICK a : /\ Told(a)
                 /\ a \in Answers(p) \/ \E s \in {"skipped", "circuit_open", "error"} : a = Failed(s)
    BY <1>3 DEF QueryProvider, Skipped, Cached, Looked, Unanswered
  <2>3. sent' = sent \/ Left(p)
    BY <1>3 DEF QueryProvider, Looked, Unanswered
  <2>4. /\ NextUp \in providers /\ setting.enabled /\ p.config \in setting.providers
        /\ AskedAbout = "public" \/ (setting.private /\ AskedAbout = "private")
    BY <1>t, <2>1, NextAsked, AskedAboutEligible
  <2>5. /\ a.status \in {"ok", "skipped", "circuit_open", "error"}
        /\ a.score \in Opinions \cup {Nil}
    BY <2>2, AnswerTyped
  <2>6. ReportTypeOK'
    <3>1. results' = [i \in DOMAIN results \cup {NextUp} |-> IF i = NextUp THEN a ELSE results[i]]
      BY <2>2 DEF Told
    <3>2. PICK n \in providers : n = NextUp
      BY <2>4
    <3>3. DOMAIN results' = DOMAIN results \cup {n} /\ DOMAIN results' \subseteq providers
      BY <1>t, <3>1, <3>2 DEF ReportTypeOK
    <3>4. ASSUME NEW i \in DOMAIN results'
          PROVE  /\ results'[i].status \in {"ok", "skipped", "circuit_open", "error"}
                 /\ results'[i].score \in Opinions \cup {Nil}
      BY <1>t, <2>5, <3>1, <3>2, <3>3 DEF ReportTypeOK
    <3> QED
      BY <1>t, <2>1, <3>3, <3>4 DEF ReportTypeOK, BuildProviders
  <2>7. OnlyPublicAsked'
    <3>1. CASE sent' = sent
      BY <1>t, <2>1, <3>1 DEF OnlyPublicAsked
    <3>2. CASE Left(p)
      <4>1. sent' = sent \cup {<<p.config, AskedAbout>>}
        BY <3>2 DEF Left
      <4> HIDE DEF p
      <4> QED
        BY <1>t, <2>1, <2>4, <4>1 DEF OnlyPublicAsked
    <3> QED
      BY <2>3, <3>1, <3>2
  <2> QED
    BY <2>1, <2>6, <2>7 DEF ReportInv
<1>4. ASSUME LookupRaises  PROVE ReportInv'
  <2> DEFINE p == Candidates[NextUp]
  <2>1. /\ EligibleIps # {} /\ Unasked # {} /\ asking' = "raised" /\ Left(p)
        /\ UNCHANGED <<setting, providers, suspect, results, report>>
    BY <1>4 DEF LookupRaises
  <2>2. /\ setting.enabled /\ p.config \in setting.providers
        /\ AskedAbout = "public" \/ (setting.private /\ AskedAbout = "private")
    BY <1>t, <2>1, NextAsked, AskedAboutEligible
  <2>3. sent' = sent \cup {<<p.config, AskedAbout>>}
    BY <2>1 DEF Left
  <2> HIDE DEF p
  <2>4. OnlyPublicAsked'
    BY <1>t, <2>1, <2>2, <2>3 DEF OnlyPublicAsked
  <2>5. ReportTypeOK'
    BY <1>t, <2>1 DEF ReportTypeOK, BuildProviders
  <2> QED
    BY <2>1, <2>4, <2>5 DEF ReportInv
<1>5. ASSUME Aggregate  PROVE ReportInv'
  <2>1. /\ asking' = "reported" /\ UNCHANGED <<setting, providers, suspect, results, sent>>
        /\ report'.verdict = Classify(AggregateScore)
    BY <1>5 DEF Aggregate
  <2>2. AggregateScore' = AggregateScore
    BY <2>1 DEF AggregateScore, Scores
  <2> QED
    BY <1>t, <2>1, <2>2 DEF ReportInv, ReportTypeOK, BuildProviders, OnlyPublicAsked, Classify
<1>6. CASE UNCHANGED reporting
  <2>1. AggregateScore' = AggregateScore
    BY <1>6 DEF AggregateScore, Scores, reporting
  <2> QED
    BY <1>6, <2>1 DEF reporting, ReportInv, ReportTypeOK, BuildProviders, OnlyPublicAsked, Classify
<1> QED
  BY <1>1, <1>2, <1>3, <1>4, <1>5, <1>6 DEF ReportNext

LEMMA ReportAlways == ReportSpec => []ReportInv
BY ReportInitInv, ReportStep, PTL DEF ReportSpec

(* The factory's providers, the addresses and the answers keep their       *)
(* types.                                                                  *)
THEOREM ReportTyped == ReportSpec => []ReportTypeOK
<1>1. ReportInv => ReportTypeOK
  BY DEF ReportInv
<1> QED
  BY ReportAlways, <1>1, PTL

(* aggregate() and is_eligible(): the verdict is no milder than that of    *)
(* any provider that answered, and only an address that is public, or was  *)
(* opted in, leaves for a provider that was enabled and funded.            *)
THEOREM ReportsAreSound == ReportSpec => []ReportIsSound
<1>1. ReportInv => WorstIsShown
  <2> SUFFICES ASSUME ReportInv, asking = "reported"
               PROVE  /\ \A i \in DOMAIN results : ~Worse(Classify(results[i].score), report.verdict)
                      /\ report.verdict # "unknown" => Scores # {}
    BY DEF WorstIsShown
  <2>1. ReportTypeOK /\ report.verdict = Classify(AggregateScore)
    BY DEF ReportInv
  <2>2. Scores \in SUBSET Nat
    BY <2>1, ReportAssumption DEF Scores, ReportTypeOK
  <2>3. CASE Scores = {}
    <3>1. report.verdict = "unknown"
      BY <2>1, <2>3 DEF AggregateScore, Classify
    <3>2. \A i \in DOMAIN results : Classify(results[i].score) = "unknown"
      BY <2>3 DEF Scores, Classify
    <3> QED
      BY <3>1, <3>2, Milder
  <2>4. CASE Scores # {}
    <3>1. IsFiniteSet(Scores)
      <4>1. DOMAIN results \in SUBSET DOMAIN Candidates
        BY <2>1 DEF ReportTypeOK, BuildProviders
      <4>2. IsFiniteSet(DOMAIN results)
        BY <4>1, Listing, FS_Subset
      <4> DEFINE D == {i \in DOMAIN results : results[i].score # Nil}
                 f == [i \in D |-> results[i].score]
      <4>3. IsFiniteSet(D)
        <5>1. D \in SUBSET DOMAIN results
          OBVIOUS
        <5> HIDE DEF D
        <5> QED
          BY <4>2, <5>1, FS_Subset
      <4>4. f \in Surjection(D, Scores)
        <5>1. f \in [D -> Scores] /\ \A s \in Scores : \E i \in D : f[i] = s
          BY DEF Scores
        <5> HIDE DEF f, D
        <5> QED
          BY <5>1, Fun_IsSurj
      <4> HIDE DEF f, D
      <4> QED
        BY <4>3, <4>4, FS_Surjection
    <3>2. AggregateScore \in Scores /\ \A s \in Scores : s <= AggregateScore
      <4>1. \E x \in Scores : \A y \in Scores : x >= y
        BY <2>2, <2>4, <3>1, GreatestIsThere
      <4>2. Max(Scores) \in Scores /\ \A y \in Scores : Max(Scores) >= y
        BY <4>1 DEF Max
      <4>3. AggregateScore = Max(Scores)
        BY <2>4 DEF AggregateScore
      <4> QED
        BY <2>2, <4>2, <4>3
    <3>3. AggregateScore # Nil /\ AggregateScore \in Nat
      BY <2>2, <3>2 DEF Scores
    <3>4. ASSUME NEW i \in DOMAIN results  PROVE ~Worse(Classify(results[i].score), report.verdict)
      <4>1. CASE results[i].score = Nil
        BY <2>1, <3>3, <4>1, ClassifyGrows
      <4>2. CASE results[i].score # Nil
        <5>1. PICK x \in Nat : x = results[i].score /\ x <= AggregateScore
          BY <2>2, <3>2, <4>2 DEF Scores
        <5> QED
          BY <2>1, <3>3, <5>1, ClassifyGrows
      <4> QED
        BY <4>1, <4>2
    <3> QED
      BY <2>4, <3>4
  <2> QED
    BY <2>3, <2>4
<1>2. ReportInv => OnlyPublicAsked
  BY DEF ReportInv
<1> QED
  BY ReportAlways, <1>1, <1>2, PTL DEF ReportIsSound

-----------------------------------------------------------------------------
(* The live feed.                                                          *)

(* What a query answers lists alerts of the database, each once and none   *)
(* before a newer one.                                                     *)
Sorted(list) ==
    \A l, m \in DOMAIN list :
        l < m => list[l] # list[m] /\ stamps[list[l]] >= stamps[list[m]]

(* What has been sent is at or behind the watermark, and what a broadcast  *)
(* still has to send to a client is ahead of all it has.                   *)
Behind ==
    /\ poll = "send" => \A i \in ToSet(fresh) : stamps[i] <= watermark
    /\ \A c \in Clients : \A n \in DOMAIN deltas[c] :
         /\ stamps[deltas[c][n]] <= watermark
         /\ poll = "send" /\ c \in targets =>
              \A i \in ToSet(fresh) : stamps[deltas[c][n]] < stamps[i]

(* A client that is still there stays registered from its connection on.   *)
Enrolled ==
    \A c \in Clients \ gone :
        handler[c] # "new" => handler[c] # "closed" /\ c \in registered

(* Before the watermark moves the query holds what is new, but for alerts  *)
(* that came in since and are newer than all it holds.                     *)
InQuery ==
    poll = "resume" =>
        \A i \in committed \ (late \cup cut \cup ToSet(fresh)) :
          stamps[i] > watermark => \A j \in ToSet(fresh) : stamps[j] < stamps[i]

(* While a broadcast is under way its clients have been sent what is       *)
(* behind the watermark, or are about to be.                               *)
SentBehind ==
    \A c \in Clients \ gone : \A i \in committed \ (known[c] \cup late \cup cut) :
        handler[c] # "new" /\ stamps[i] <= watermark =>
            \/ i \in ToSet(deltas[c])
            \/ poll = "send" /\ c \in targets /\ i \in ToSet(fresh)

FeedInv ==
    FeedTypeOK /\ Sorted(fresh) /\ DeltasAdvance /\ Behind /\ Enrolled /\ InQuery /\ SentBehind

(* Alerts and their stamps are numbers.                                    *)
LEMMA Stamped ==
    ASSUME FeedTypeOK
    PROVE  /\ committed = 1 .. Len(stamps) /\ Len(stamps) \in Nat
           /\ \A i \in committed : i \in Nat /\ stamps[i] \in Nat
           /\ watermark \in Nat
           /\ \A i \in ToSet(fresh) : i \in committed
           /\ \A c \in Clients : \A n \in DOMAIN deltas[c] : deltas[c][n] \in committed
<1>1. stamps \in Seq(1 .. MaxStamp) /\ watermark \in Nat
  BY DEF FeedTypeOK
<1>2. committed = 1 .. Len(stamps) /\ Len(stamps) \in Nat
  BY <1>1 DEF committed
<1>3. \A i \in committed : i \in Nat /\ stamps[i] \in Nat
  BY <1>1, <1>2, FeedAssumption, ElementOfSeq
<1>4. \A i \in ToSet(fresh) : i \in committed
  BY DEF FeedTypeOK, ToSet
<1>5. \A c \in Clients : \A n \in DOMAIN deltas[c] : deltas[c][n] \in committed
  BY ElementOfSeq, LenProperties DEF FeedTypeOK
<1> QED
  BY <1>1, <1>2, <1>3, <1>4, <1>5

(* A commit adds one alert, and leaves the stamps of those there were.     *)
LEMMA Committed ==
    ASSUME FeedTypeOK, AlertSaved
    PROVE  \E t \in 1 .. MaxStamp :
             /\ stamps' = Append(stamps, t)
             /\ committed' = committed \cup {Len(stamps')} /\ Len(stamps') \notin committed
             /\ stamps'[Len(stamps')] = t
             /\ \A i \in committed : stamps'[i] = stamps[i]
             /\ late' = IF ReadPast(t) THEN late \cup {Len(stamps')} ELSE late
<1>1. PICK t \in 1 .. MaxStamp :
        /\ stamps' = Append(stamps, t)
        /\ late' = IF ReadPast(t) THEN late \cup {Len(stamps')} ELSE late
  BY DEF AlertSaved
<1>2. stamps \in Seq(1 .. MaxStamp)
  BY DEF FeedTypeOK
<1>3. /\ stamps' \in Seq(1 .. MaxStamp) /\ Len(stamps') = Len(stamps) + 1
      /\ stamps'[Len(stamps')] = t /\ \A i \in 1 .. Len(stamps) : stamps'[i] = stamps[i]
  BY <1>1, <1>2, AppendProperties
<1>4. committed = 1 .. Len(stamps) /\ committed' = 1 .. Len(stamps') /\ Len(stamps) \in Nat
  BY <1>2, <1>3, LenProperties DEF committed
<1>5. committed' = committed \cup {Len(stamps')} /\ Len(stamps') \notin committed
  BY <1>3, <1>4
<1> QED
  BY <1>1, <1>3, <1>4, <1>5

(* The answer to a query.                                                  *)
LEMMA AnswerIs ==
    ASSUME NEW S \in SUBSET committed, FeedTypeOK, NEW list \in NewestFirst(S, PollLimit)
    PROVE  list \in Seq(committed) /\ Sorted(list) /\ ToSet(list) \subseteq S
<1> DEFINE k == Min({PollLimit, Cardinality(S)})
<1>1. IsFiniteSet(S) /\ Cardinality(S) \in Nat
  <2>1. IsFiniteSet(committed)
    BY Stamped, FS_Interval
  <2>2. IsFiniteSet(S)
    BY <2>1, FS_Subset
  <2> QED
    BY <2>2, FS_CardinalityType
<1>2. k \in Nat
  <2>1. \E x \in {PollLimit, Cardinality(S)} : \A y \in {PollLimit, Cardinality(S)} : x =< y
    BY <1>1, FeedAssumption
  <2>2. k \in {PollLimit, Cardinality(S)}
    BY <2>1 DEF Min
  <2> QED
    BY <1>1, <2>2, FeedAssumption
<1>3. /\ list \in [1 .. k -> S]
      /\ \A l, m \in 1 .. k : l < m => list[l] # list[m] /\ stamps[list[l]] >= stamps[list[m]]
  BY DEF NewestFirst
<1> HIDE DEF k
<1>4. list \in Seq(S) /\ DOMAIN list = 1 .. k
  BY <1>2, <1>3
<1>5. list \in Seq(committed)
  BY <1>4, SeqMonotonic
<1> QED
  BY <1>3, <1>4, <1>5 DEF Sorted, ToSet

(* The front of an answer, and a frame, which lists it the other way       *)
(* round.                                                                  *)
LEMMA FrontIs ==
    ASSUME FeedTypeOK, Sorted(fresh), NEW n \in 0 .. Len(fresh)
    PROVE  /\ SubSeq(fresh, 1, n) \in Seq(committed)
           /\ DOMAIN SubSeq(fresh, 1, n) = 1 .. n
           /\ \A m \in 1 .. n : SubSeq(fresh, 1, n)[m] = fresh[m]
           /\ Sorted(SubSeq(fresh, 1, n))
           /\ ToSet(SubSeq(fresh, 1, n)) = {fresh[m] : m \in 1 .. n}
<1>1. fresh \in Seq(committed) /\ Len(fresh) \in Nat /\ DOMAIN fresh = 1 .. Len(fresh)
  BY LenProperties DEF FeedTypeOK
<1>2. \A m \in 1 .. n : fresh[m] \in committed
  BY <1>1, ElementOfSeq
<1>3. PICK f : f = SubSeq(fresh, 1, n)
  OBVIOUS
<1>4. f \in Seq(committed) /\ Len(f) = n /\ \A m \in 1 .. n : f[m] = fresh[m]
  BY <1>1, <1>2, <1>3, SubSeqProperties
<1>5. DOMAIN f = 1 .. n
  BY <1>4
<1>6. Sorted(f)
  BY <1>1, <1>4, <1>5 DEF Sorted
<1>7. ToSet(f) = {fresh[m] : m \in 1 .. n}
  BY <1>4, <1>5 DEF ToSet
<1> QED
  BY <1>3, <1>4, <1>5, <1>6, <1>7

LEMMA FrameIs ==
    ASSUME FeedTypeOK, Sorted(fresh)
    PROVE  /\ Reverse(fresh) \in Seq(committed) /\ ToSet(Reverse(fresh)) = ToSet(fresh)
           /\ \A m, n \in DOMAIN Reverse(fresh) :
                m < n => /\ Reverse(fresh)[m] # Reverse(fresh)[n]
                         /\ stamps[Reverse(fresh)[m]] <= stamps[Reverse(fresh)[n]]
<1>1. fresh \in Seq(committed) /\ Len(fresh) \in Nat /\ DOMAIN fresh = 1 .. Len(fresh)
  BY LenProperties DEF FeedTypeOK
<1>2. PICK f : f = Reverse(fresh)
  OBVIOUS
<1>3. /\ f \in Seq(committed) /\ DOMAIN f = 1 .. Len(fresh)
      /\ \A m \in 1 .. Len(fresh) : f[m] = fresh[(Len(fresh) - m) + 1]
  BY <1>1, <1>2 DEF Reverse
<1>4. ToSet(f) = ToSet(fresh)
  <2>1. \A m \in 1 .. Len(fresh) :
          /\ (Len(fresh) - m) + 1 \in 1 .. Len(fresh)
          /\ fresh[m] = f[(Len(fresh) - m) + 1]
    BY <1>1, <1>3
  <2>2. \A m \in 1 .. Len(fresh) : f[m] \in ToSet(fresh) /\ fresh[m] \in ToSet(f)
    BY <1>1, <1>3, <2>1 DEF ToSet
  <2> QED
    BY <1>1, <1>3, <2>2 DEF ToSet
<1>5. ASSUME NEW m \in DOMAIN f, NEW n \in DOMAIN f, m < n
      PROVE  f[m] # f[n] /\ stamps[f[m]] <= stamps[f[n]]
  <2> DEFINE l == (Len(fresh) - m) + 1
             o == (Len(fresh) - n) + 1
  <2>1. l \in DOMAIN fresh /\ o \in DOMAIN fresh /\ o < l /\ f[m] = fresh[l] /\ f[n] = fresh[o]
    BY <1>1, <1>3, <1>5
  <2>2. fresh[o] # fresh[l] /\ stamps[fresh[o]] >= stamps[fresh[l]]
    BY <2>1 DEF Sorted
  <2>3. stamps[fresh[o]] \in Nat /\ stamps[fresh[l]] \in Nat
    BY <1>1, <2>1, Stamped, ElementOfSeq
  <2> QED
    BY <2>1, <2>2, <2>3
<1> QED
  BY <1>2, <1>3, <1>4, <1>5

----------------------------------------------------------------------------
LEMMA InitFeed == FeedInit => FeedInv
<1> SUFFICES ASSUME FeedInit PROVE FeedInv
  OBVIOUS
<1>1. FeedTypeOK
  BY FeedAssumption DEF FeedInit, FeedTypeOK, committed
<1>2. committed = {} /\ fresh = <<>> /\ ToSet(fresh) = {}
  BY DEF FeedInit, committed, ToSet
<1> QED
  BY <1>1, <1>2
     DEF FeedInit, FeedInv, Sorted, DeltasAdvance, Behind, Enrolled, InQuery, SentBehind

(* Types, and the order of what a query answered.                          *)
LEMMA FeedTypeStep == FeedTypeOK /\ Sorted(fresh) /\ [FeedNext]_feed => FeedTypeOK' /\ Sorted(fresh)'
<1> SUFFICES ASSUME FeedTypeOK, Sorted(fresh), [FeedNext]_feed PROVE FeedTypeOK' /\ Sorted(fresh)'
  OBVIOUS
<1>1. ASSUME UNCHANGED <<stamps, fresh, deltas, late, cut>>,
             watermark' \in Nat, poll' \in {"sleep", "query", "resume", "send", "stats"},
             targets' \subseteq Clients, dead' \subseteq gone', registered' \subseteq Clients,
             handler' \in [Clients -> {"new", "stats", "initial", "receiving", "closed"}],
             gone' \subseteq Clients, known' \in [Clients -> SUBSET committed]
      PROVE  FeedTypeOK' /\ Sorted(fresh)'
  BY <1>1 DEF FeedTypeOK, Sorted, committed
<1>2. CASE UNCHANGED feed
  BY <1>1, <1>2 DEF feed, sensor, poller, client, FeedTypeOK
<1>3. CASE AlertSaved
  <2>1. PICK t \in 1 .. MaxStamp :
          /\ stamps' = Append(stamps, t)
          /\ committed' = committed \cup {Len(stamps')} /\ Len(stamps') \notin committed
          /\ \A i \in committed : stamps'[i] = stamps[i]
          /\ late' = IF ReadPast(t) THEN late \cup {Len(stamps')} ELSE late
    BY <1>3, Committed
  <2>2. stamps' \in Seq(1 .. MaxStamp)
    BY <2>1, AppendProperties DEF FeedTypeOK
  <2>3. committed \subseteq committed' /\ Seq(committed) \subseteq Seq(committed')
    BY <2>1, SeqMonotonic
  <2>4. UNCHANGED <<poller, registered, client>>
    BY <1>3 DEF AlertSaved
  <2>5. /\ fresh' \in Seq(committed') /\ deltas' \in [Clients -> Seq(committed')]
        /\ known' \in [Clients -> SUBSET committed']
        /\ late' \subseteq committed' /\ cut' \subseteq committed'
    BY <2>1, <2>3, <2>4 DEF FeedTypeOK, poller, client
  <2>6. Sorted(fresh)'
    <3>1. \A m \in DOMAIN fresh : fresh[m] \in committed
      BY ElementOfSeq, LenProperties DEF FeedTypeOK
    <3> QED
      BY <2>1, <2>4, <3>1 DEF Sorted, poller
  <2> QED
    BY <2>2, <2>4, <2>5, <2>6 DEF FeedTypeOK, poller, client
<1>4. ASSUME NEW c \in Clients, Connect(c) \/ Handle(c) PROVE FeedTypeOK' /\ Sorted(fresh)'
  <2>1. /\ UNCHANGED <<stamps, fresh, deltas, late, cut, watermark, poll, targets, dead, gone>>
        /\ registered' \subseteq Clients
        /\ handler' \in [Clients -> {"new", "stats", "initial", "receiving", "closed"}]
        /\ known' = known \/ known' = [known EXCEPT ![c] = committed]
    BY <1>4 DEF Connect, Handle, SendStats, SendInitial, NoticeGone, Disconnect, sensor, poller, FeedTypeOK
  <2>2. known' \in [Clients -> SUBSET committed]
    BY <2>1 DEF FeedTypeOK
  <2> QED
    BY <1>1, <2>1, <2>2 DEF FeedTypeOK
<1>5. ASSUME NEW c \in Clients, Vanish(c) PROVE FeedTypeOK' /\ Sorted(fresh)'
  <2>1. /\ UNCHANGED <<stamps, fresh, late, cut, watermark, poll, targets, dead, registered, handler>>
        /\ gone' = gone \cup {c}
        /\ deltas' = [deltas EXCEPT ![c] = <<>>] /\ known' = [known EXCEPT ![c] = {}]
    BY <1>5 DEF Vanish, sensor, poller
  <2>2. deltas' \in [Clients -> Seq(committed)] /\ known' \in [Clients -> SUBSET committed]
    <3>1. <<>> \in Seq(committed)
      OBVIOUS
    <3> QED
      BY <2>1, <3>1 DEF FeedTypeOK
  <2> QED
    BY <2>1, <2>2 DEF FeedTypeOK, Sorted, committed
<1>6. CASE PollBegin
  BY <1>1, <1>6 DEF PollBegin, sensor, client, FeedTypeOK
<1>7. CASE PollQuery
  <2>1. UNCHANGED <<stamps, late, watermark, targets, dead, registered, client>>
    BY <1>7 DEF PollQuery, sensor
  <2>2. CASE poll' = "sleep" /\ UNCHANGED <<fresh, cut>>
    BY <1>1, <2>1, <2>2 DEF client, FeedTypeOK
  <2> DEFINE found == {i \in committed : stamps[i] >= watermark}
  <2>3. ASSUME NEW list \in NewestFirst(found, PollLimit), fresh' = list, poll' = "resume",
               cut' = cut \cup {i \in found \ ToSet(list) : stamps[i] > watermark}
        PROVE  FeedTypeOK' /\ Sorted(fresh)'
    <3>1. list \in Seq(committed) /\ Sorted(list)
      BY AnswerIs
    <3>2. committed' = committed /\ cut' \subseteq committed
      BY <2>1, <2>3 DEF committed, FeedTypeOK
    <3> HIDE DEF found
    <3> QED
      BY <2>1, <2>3, <3>1, <3>2 DEF FeedTypeOK, client, Sorted
  <2> QED
    BY <1>7, <2>2, <2>3 DEF PollQuery
<1>8. CASE PollResume
  <2>1. PICK n \in 0 .. Len(fresh) :
          /\ fresh' = SubSeq(fresh, 1, n)
          /\ IF n = 0 THEN poll' = "sleep" /\ UNCHANGED <<watermark, targets>>
             ELSE /\ watermark' = stamps[fresh[1]]
                  /\ targets' = registered /\ poll' = "send"
    BY <1>8 DEF PollResume
  <2>2. UNCHANGED <<stamps, late, dead, cut, registered, client>> /\ committed' = committed
    BY <1>8 DEF PollResume, sensor, committed
  <2>3. fresh' \in Seq(committed) /\ Sorted(fresh')
    BY <2>1, FrontIs
  <2>4. watermark' \in Nat
    <3>1. n # 0 => fresh[1] \in committed
      BY <2>1, ElementOfSeq, LenProperties DEF FeedTypeOK
    <3> QED
      BY <2>1, <3>1, Stamped
  <2> QED
    BY <2>1, <2>2, <2>3, <2>4 DEF FeedTypeOK, client, Sorted
<1>9. CASE BroadcastEnd
  <2>1. <<>> \in Seq(committed)
    OBVIOUS
  <2> QED
    BY <1>9, <2>1 DEF BroadcastEnd, sensor, client, FeedTypeOK, committed, Sorted
<1>10. CASE StatsFrame
  BY <1>1, <1>10 DEF StatsFrame, sensor, client, FeedTypeOK
<1>11. ASSUME NEW c \in Clients, SendDelta(c) PROVE FeedTypeOK' /\ Sorted(fresh)'
  <2>1. /\ UNCHANGED <<stamps, late, watermark, poll, fresh, cut, registered, handler, gone, known>>
        /\ targets' = targets \ {c} /\ dead' \subseteq gone
        /\ deltas' = deltas \/ deltas' = [deltas EXCEPT ![c] = @ \o Reverse(fresh)]
    BY <1>11 DEF SendDelta, sensor, FeedTypeOK
  <2>2. PICK f \in Seq(committed) : f = Reverse(fresh)
    BY FrameIs
  <2>3. deltas[c] \o f \in Seq(committed)
    BY ConcatProperties DEF FeedTypeOK
  <2>4. deltas' \in [Clients -> Seq(committed)]
    BY <2>1, <2>2, <2>3 DEF FeedTypeOK
  <2> QED
    BY <2>1, <2>4 DEF FeedTypeOK, committed, Sorted
<1> QED
  BY <1>2, <1>3, <1>4, <1>5, <1>6, <1>7, <1>8, <1>9, <1>10, <1>11 DEF FeedNext, Poll

(* Deltas stay in order: the watermark only moves ahead, to what is about  *)
(* to be sent.                                                             *)
LEMMA BehindStep == FeedInv /\ [FeedNext]_feed => DeltasAdvance' /\ Behind'
<1> SUFFICES ASSUME FeedInv, [FeedNext]_feed PROVE DeltasAdvance' /\ Behind'
  OBVIOUS
<1> USE DEF FeedInv
<1>0. /\ watermark \in Nat /\ deltas \in [Clients -> Seq(committed)]
      /\ \A i \in committed : stamps[i] \in Nat
      /\ \A i \in ToSet(fresh) : i \in committed
      /\ \A c \in Clients : \A n \in DOMAIN deltas[c] : deltas[c][n] \in committed
  BY Stamped DEF FeedTypeOK
<1>1. ASSUME UNCHANGED <<stamps, watermark, poll, fresh, targets, deltas>>
      PROVE  DeltasAdvance' /\ Behind'
  BY <1>1 DEF DeltasAdvance, Behind
<1>2. ASSUME UNCHANGED <<stamps, watermark, deltas>>, poll' # "send"
      PROVE  DeltasAdvance' /\ Behind'
  BY <1>2 DEF DeltasAdvance, Behind
<1>3. CASE UNCHANGED feed
  BY <1>1, <1>3 DEF feed, sensor, poller, client
<1>4. CASE AlertSaved
  <2>1. \A i \in committed : stamps'[i] = stamps[i]
    BY <1>4, Committed
  <2>2. UNCHANGED <<watermark, poll, fresh, targets, deltas>>
    BY <1>4 DEF AlertSaved, poller, client
  <2>3. DeltasAdvance'
    BY <1>0, <2>1, <2>2 DEF DeltasAdvance
  <2>4. Behind'
    BY <1>0, <2>1, <2>2 DEF Behind
  <2> QED
    BY <2>3, <2>4
<1>5. ASSUME NEW c \in Clients, Connect(c) \/ Handle(c) PROVE DeltasAdvance' /\ Behind'
  BY <1>1, <1>5 DEF Connect, Handle, SendStats, SendInitial, NoticeGone, sensor, poller
<1>6. ASSUME NEW c \in Clients, Vanish(c) PROVE DeltasAdvance' /\ Behind'
  <2>1. /\ UNCHANGED <<stamps, watermark, poll, fresh, targets>>
        /\ deltas' = [deltas EXCEPT ![c] = <<>>]
    BY <1>6 DEF Vanish, sensor, poller
  <2>2. deltas'[c] = <<>> /\ \A d \in Clients \ {c} : deltas'[d] = deltas[d]
    BY <1>0, <2>1
  <2>3. DOMAIN deltas'[c] = {}
    BY <2>2
  <2>4. DeltasAdvance'
    BY <2>1, <2>2, <2>3 DEF DeltasAdvance
  <2>5. Behind'
    BY <2>1, <2>2, <2>3 DEF Behind
  <2> QED
    BY <2>4, <2>5
<1>7. CASE PollBegin \/ PollQuery \/ BroadcastEnd \/ StatsFrame
  BY <1>2, <1>7 DEF PollBegin, PollQuery, BroadcastEnd, StatsFrame, sensor, client
<1>8. CASE PollResume
  <2>1. PICK n \in 0 .. Len(fresh) :
          /\ \A m \in DOMAIN fresh : m <= n <=> stamps[fresh[m]] > watermark
          /\ fresh' = SubSeq(fresh, 1, n)
          /\ IF n = 0 THEN poll' = "sleep" /\ UNCHANGED <<watermark, targets>>
             ELSE /\ watermark' = stamps[fresh[1]]
                  /\ targets' = registered /\ poll' = "send"
    BY <1>8 DEF PollResume
  <2>2. UNCHANGED <<stamps, deltas>>
    BY <1>8 DEF PollResume, sensor, client
  <2>3. CASE n = 0
    BY <1>2, <2>1, <2>2, <2>3
  <2>4. CASE n # 0
    <3>1. DOMAIN fresh = 1 .. Len(fresh) /\ Len(fresh) \in Nat
      BY LenProperties DEF FeedTypeOK
    <3>2. \A m \in 1 .. n :
            /\ stamps[fresh[m]] \in Nat /\ stamps[fresh[m]] > watermark
            /\ stamps[fresh[m]] <= watermark'
      <4> TAKE m \in 1 .. n
      <4>1. m \in DOMAIN fresh /\ 1 \in DOMAIN fresh /\ fresh[m] \in committed /\ fresh[1] \in committed
        BY <2>4, <3>1, ElementOfSeq DEF FeedTypeOK
      <4>2. m = 1 \/ stamps[fresh[1]] >= stamps[fresh[m]]
        BY <3>1, <4>1 DEF Sorted
      <4> QED
        BY <1>0, <2>1, <2>4, <4>1, <4>2
    <3>3. ToSet(fresh') = {fresh[m] : m \in 1 .. n}
      BY <2>1, FrontIs
    <3>4. /\ \A i \in ToSet(fresh') : stamps[i] \in Nat /\ stamps[i] > watermark /\ stamps[i] <= watermark'
          /\ watermark' \in Nat /\ watermark <= watermark'
      <4>1. 1 \in 1 .. n /\ watermark' = stamps[fresh[1]]
        BY <2>1, <2>4, <3>1
      <4> QED
        BY <1>0, <3>2, <3>3, <4>1
    <3>5. \A c \in Clients : \A l \in DOMAIN deltas[c] :
            /\ stamps[deltas[c][l]] <= watermark'
            /\ \A i \in ToSet(fresh') : stamps[deltas[c][l]] < stamps[i]
      BY <1>0, <3>4 DEF Behind
    <3>6. DeltasAdvance'
      BY <2>2 DEF DeltasAdvance
    <3> QED
      BY <2>2, <3>4, <3>5, <3>6 DEF Behind
  <2> QED
    BY <2>3, <2>4
<1>9. ASSUME NEW c \in Clients, SendDelta(c) PROVE DeltasAdvance' /\ Behind'
  <2>1. /\ UNCHANGED <<stamps, watermark, poll, fresh>> /\ targets' = targets \ {c}
        /\ poll = "send" /\ c \in targets
    BY <1>9 DEF SendDelta, sensor
  <2>2. CASE c \in gone
    BY <1>9, <2>1, <2>2 DEF SendDelta, DeltasAdvance, Behind
  <2>3. CASE c \notin gone
    <3>1. PICK f \in Seq(committed) :
            /\ f = Reverse(fresh) /\ ToSet(f) = ToSet(fresh)
            /\ \A m, n \in DOMAIN f : m < n => f[m] # f[n] /\ stamps[f[m]] <= stamps[f[n]]
      BY FrameIs
    <3>2. PICK d \in Seq(committed) : d = deltas[c]
      BY <1>0
    <3>3. PICK e \in Seq(committed) : e = d \o f
      BY ConcatProperties
    <3>4. deltas'[c] = e /\ \A o \in Clients \ {c} : deltas'[o] = deltas[o]
      BY <1>0, <1>9, <2>3, <3>1, <3>2, <3>3 DEF SendDelta
    <3>5. /\ Len(d) \in Nat /\ Len(f) \in Nat /\ Len(e) = Len(d) + Len(f)
          /\ \A i \in 1 .. Len(d) + Len(f) : e[i] = IF i <= Len(d) THEN d[i] ELSE f[i - Len(d)]
          /\ DOMAIN d = 1 .. Len(d) /\ DOMAIN f = 1 .. Len(f) /\ DOMAIN e = 1 .. Len(d) + Len(f)
      BY <3>3, ConcatProperties, LenProperties
    <3>6. \A n \in DOMAIN f : stamps[f[n]] \in Nat /\ f[n] \in ToSet(fresh) /\ stamps[f[n]] <= watermark
      BY <1>0, <2>1, <3>1 DEF ToSet, Behind
    <3>7. \A n \in DOMAIN d :
            /\ stamps[d[n]] \in Nat /\ stamps[d[n]] <= watermark
            /\ \A m \in DOMAIN f : stamps[d[n]] < stamps[f[m]]
      BY <1>0, <2>1, <3>2, <3>6 DEF Behind
    <3>8. \A n \in DOMAIN e : stamps[e[n]] <= watermark
      <4> TAKE n \in DOMAIN e
      <4>1. CASE n <= Len(d)
        BY <3>5, <3>7, <4>1
      <4>2. CASE ~(n <= Len(d))
        <5>1. n - Len(d) \in DOMAIN f /\ e[n] = f[n - Len(d)]
          BY <3>5, <4>2
        <5> QED
          BY <3>6, <5>1
      <4> QED
        BY <4>1, <4>2
    <3>9. \A m, n \in DOMAIN d : m < n => d[m] # d[n] /\ stamps[d[m]] <= stamps[d[n]]
      BY <3>2 DEF DeltasAdvance
    <3>10. ASSUME NEW m \in DOMAIN e, NEW n \in DOMAIN e, m < n
           PROVE  e[m] # e[n] /\ stamps[e[m]] <= stamps[e[n]]
      <4>1. CASE n <= Len(d)
        <5>1. m \in DOMAIN d /\ n \in DOMAIN d /\ e[m] = d[m] /\ e[n] = d[n]
          BY <3>5, <3>10, <4>1
        <5> QED
          BY <3>9, <3>10, <5>1
      <4>2. CASE m <= Len(d) /\ n > Len(d)
        <5>1. /\ m \in DOMAIN d /\ n - Len(d) \in DOMAIN f
              /\ e[m] = d[m] /\ e[n] = f[n - Len(d)]
          BY <3>5, <4>2
        <5>2. stamps[e[m]] < stamps[e[n]] /\ stamps[e[m]] \in Nat /\ stamps[e[n]] \in Nat
          BY <3>6, <3>7, <5>1
        <5> QED
          BY <5>2
      <4>3. CASE m > Len(d)
        <5>1. m - Len(d) \in DOMAIN f /\ n - Len(d) \in DOMAIN f /\ m - Len(d) < n - Len(d)
          BY <3>5, <3>10, <4>3
        <5>2. e[m] = f[m - Len(d)] /\ e[n] = f[n - Len(d)]
          BY <3>5, <3>10, <4>3
        <5> QED
          BY <3>1, <5>1, <5>2
      <4> QED
        BY <3>5, <4>1, <4>2, <4>3
    <3>11. DeltasAdvance'
      BY <2>1, <3>4, <3>10 DEF DeltasAdvance
    <3> QED
      BY <2>1, <3>4, <3>8, <3>11 DEF Behind
  <2> QED
    BY <2>2, <2>3
<1> QED
  BY <1>3, <1>4, <1>5, <1>6, <1>7, <1>8, <1>9 DEF FeedNext, Poll

LEMMA EnrolledStep == FeedInv /\ [FeedNext]_feed => Enrolled'
<1> SUFFICES ASSUME FeedInv, [FeedNext]_feed PROVE Enrolled'
  OBVIOUS
<1> USE DEF FeedInv
<1>0. /\ Enrolled /\ dead \subseteq gone /\ gone \subseteq Clients
      /\ handler \in [Clients -> {"new", "stats", "initial", "receiving", "closed"}]
  BY DEF FeedTypeOK
<1>1. ASSUME UNCHANGED <<gone, handler>>, \A c \in Clients \ gone : c \in registered => c \in registered'
      PROVE  Enrolled'
  BY <1>0, <1>1 DEF Enrolled
<1>2. CASE UNCHANGED feed \/ AlertSaved
  BY <1>1, <1>2 DEF feed, AlertSaved, client
<1>3. CASE Poll
  BY <1>0, <1>1, <1>3
     DEF Poll, PollBegin, PollQuery, PollResume, SendDelta, BroadcastEnd, StatsFrame, client
<1>4. ASSUME NEW c \in Clients, Connect(c) \/ Handle(c) PROVE Enrolled'
  BY <1>0, <1>4 DEF Connect, Handle, SendStats, SendInitial, NoticeGone, Disconnect, Enrolled
<1>5. ASSUME NEW c \in Clients, Vanish(c) PROVE Enrolled'
  BY <1>0, <1>5 DEF Vanish, Enrolled
<1> QED
  BY <1>2, <1>3, <1>4, <1>5 DEF FeedNext

(* A commit that no poll has read past is newer than all there is to read. *)
LEMMA QueryStep == FeedInv /\ [FeedNext]_feed => InQuery'
<1> SUFFICES ASSUME FeedInv, [FeedNext]_feed PROVE InQuery'
  OBVIOUS
<1> USE DEF FeedInv
<1>0. /\ watermark \in Nat /\ \A i \in committed : stamps[i] \in Nat
      /\ \A i \in ToSet(fresh) : i \in committed
  BY Stamped
<1>1. ASSUME poll' # "resume" PROVE InQuery'
  BY <1>1 DEF InQuery
<1>2. ASSUME UNCHANGED <<stamps, watermark, late, cut, fresh, poll>> PROVE InQuery'
  BY <1>2 DEF InQuery, committed
<1>3. CASE UNCHANGED feed
  BY <1>2, <1>3 DEF feed, sensor, poller
<1>4. CASE AlertSaved
  <2>1. PICK t \in 1 .. MaxStamp :
          /\ committed' = committed \cup {Len(stamps')} /\ stamps'[Len(stamps')] = t
          /\ \A i \in committed : stamps'[i] = stamps[i]
          /\ late' = IF ReadPast(t) THEN late \cup {Len(stamps')} ELSE late
    BY <1>4, Committed
  <2>2. UNCHANGED <<watermark, cut, fresh, poll>>
    BY <1>4 DEF AlertSaved, poller
  <2>3. t \in Nat /\ (Len(stamps') \notin late' => \A j \in ToSet(fresh) : stamps[j] < t)
    BY <1>0, <2>1, FeedAssumption DEF ReadPast
  <2>4. late \subseteq late'
    BY <2>1
  <2> QED
    BY <1>0, <2>1, <2>2, <2>3, <2>4 DEF InQuery
<1>5. ASSUME NEW c \in Clients, Connect(c) \/ Handle(c) \/ Vanish(c) \/ SendDelta(c)
      PROVE  InQuery'
  BY <1>2, <1>5
     DEF Connect, Handle, SendStats, SendInitial, NoticeGone, Vanish, SendDelta, sensor, poller
<1>6. CASE PollBegin \/ PollResume \/ BroadcastEnd \/ StatsFrame
  <2>1. poll' # "resume"
    BY <1>6 DEF PollBegin, PollResume, BroadcastEnd, StatsFrame
  <2> QED
    BY <1>1, <2>1
<1>7. CASE PollQuery
  <2> DEFINE found == {i \in committed : stamps[i] >= watermark}
  <2>1. CASE poll' # "resume"
    BY <1>1, <2>1
  <2>2. CASE poll' = "resume"
    <3>1. PICK list \in NewestFirst(found, PollLimit) :
            /\ fresh' = list
            /\ cut' = cut \cup {i \in found \ ToSet(list) : stamps[i] > watermark}
      BY <1>7, <2>2 DEF PollQuery
    <3>2. UNCHANGED <<watermark, stamps, late>> /\ committed' = committed
      BY <1>7 DEF PollQuery, sensor, committed
    <3>3. \A i \in committed : stamps[i] > watermark => i \in cut' \cup ToSet(fresh')
      BY <1>0, <3>1
    <3> QED
      BY <3>2, <3>3 DEF InQuery
  <2> QED
    BY <2>1, <2>2
<1> QED
  BY <1>3, <1>4, <1>5, <1>6, <1>7 DEF FeedNext, Poll

LEMMA SentStep == FeedInv /\ [FeedNext]_feed => SentBehind'
<1> SUFFICES ASSUME FeedInv, [FeedNext]_feed PROVE SentBehind'
  OBVIOUS
<1> USE DEF FeedInv
<1>0. /\ watermark \in Nat /\ \A i \in committed : stamps[i] \in Nat
      /\ \A i \in ToSet(fresh) : i \in committed
      /\ handler \in [Clients -> {"new", "stats", "initial", "receiving", "closed"}]
      /\ known \in [Clients -> SUBSET committed] /\ deltas \in [Clients -> Seq(committed)]
  BY Stamped DEF FeedTypeOK
<1>1. ASSUME UNCHANGED <<stamps, watermark, late, gone, known, deltas>>, cut \subseteq cut',
             \A c \in Clients : handler'[c] = "new" <=> handler[c] = "new",
             poll = "send" => poll' = "send" /\ UNCHANGED <<targets, fresh>>
      PROVE  SentBehind'
  BY <1>1 DEF SentBehind, committed
<1>2. CASE UNCHANGED feed
  BY <1>1, <1>2 DEF feed, sensor, poller, client
<1>3. CASE AlertSaved
  <2>1. PICK t \in 1 .. MaxStamp :
          /\ committed' = committed \cup {Len(stamps')} /\ stamps'[Len(stamps')] = t
          /\ \A i \in committed : stamps'[i] = stamps[i]
          /\ late' = IF ReadPast(t) THEN late \cup {Len(stamps')} ELSE late
    BY <1>3, Committed
  <2>2. UNCHANGED <<watermark, cut, fresh, poll, targets, gone, known, deltas, handler>>
    BY <1>3 DEF AlertSaved, poller, client
  <2>3. t <= watermark => Len(stamps') \in late'
    BY <2>1 DEF ReadPast
  <2>4. late \subseteq late'
    BY <2>1
  <2> QED
    BY <2>1, <2>2, <2>3, <2>4 DEF SentBehind
<1>4. ASSUME NEW c \in Clients, Connect(c) PROVE SentBehind'
  <2>1. /\ UNCHANGED <<stamps, late, watermark, cut, fresh, poll, targets, gone, deltas>>
        /\ known'[c] = committed /\ committed' = committed
        /\ \A d \in Clients \ {c} : known'[d] = known[d] /\ handler'[d] = handler[d]
    BY <1>0, <1>4 DEF Connect, sensor, poller, committed
  <2> QED
    BY <2>1 DEF SentBehind
<1>5. ASSUME NEW c \in Clients, Handle(c) PROVE SentBehind'
  <2>1. \A d \in Clients : handler'[d] = "new" <=> handler[d] = "new"
    BY <1>0, <1>5 DEF Handle, SendStats, SendInitial, NoticeGone, Disconnect
  <2> QED
    BY <1>1, <1>5, <2>1 DEF Handle, SendStats, SendInitial, NoticeGone, sensor, poller
<1>6. ASSUME NEW c \in Clients, Vanish(c) PROVE SentBehind'
  <2>1. /\ UNCHANGED <<stamps, late, watermark, cut, fresh, poll, targets, handler>>
        /\ gone' = gone \cup {c} /\ committed' = committed
        /\ \A d \in Clients \ {c} : known'[d] = known[d] /\ deltas'[d] = deltas[d]
    BY <1>0, <1>6 DEF Vanish, sensor, poller, committed
  <2> QED
    BY <2>1 DEF SentBehind
<1>7. CASE PollBegin \/ PollQuery \/ StatsFrame
  BY <1>1, <1>7 DEF PollBegin, PollQuery, StatsFrame, sensor, client
<1>8. CASE BroadcastEnd
  <2>1. /\ targets = {} /\ committed' = committed
        /\ UNCHANGED <<stamps, late, watermark, cut, gone, known, deltas, handler>>
    BY <1>8 DEF BroadcastEnd, sensor, client, committed
  <2> QED
    BY <2>1 DEF SentBehind
<1>9. ASSUME NEW c \in Clients, SendDelta(c) PROVE SentBehind'
  <2>1. /\ UNCHANGED <<stamps, late, watermark, cut, fresh, poll, gone, known, handler>>
        /\ targets' = targets \ {c} /\ committed' = committed
    BY <1>9 DEF SendDelta, sensor, committed
  <2>2. CASE c \in gone
    BY <1>9, <2>1, <2>2 DEF SendDelta, SentBehind
  <2>3. CASE c \notin gone
    <3>1. PICK f \in Seq(committed) : f = Reverse(fresh) /\ ToSet(f) = ToSet(fresh)
      BY FrameIs
    <3>2. PICK d \in Seq(committed) : d = deltas[c]
      BY <1>0
    <3>3. deltas'[c] = d \o f /\ \A o \in Clients \ {c} : deltas'[o] = deltas[o]
      BY <1>0, <1>9, <2>3, <3>1, <3>2 DEF SendDelta
    <3>4. ToSet(d \o f) = ToSet(d) \cup ToSet(fresh)
      <4>1. Range(d \o f) = Range(d) \cup Range(f)
        BY RangeConcatenation
      <4>2. \A l : Range(l) = ToSet(l)
        BY DEF Range, ToSet
      <4> QED
        BY <3>1, <4>1, <4>2
    <3>5. /\ ToSet(fresh) \subseteq ToSet(deltas'[c])
          /\ \A o \in Clients : ToSet(deltas[o]) \subseteq ToSet(deltas'[o])
      BY <3>2, <3>3, <3>4
    <3> QED
      BY <2>1, <3>5 DEF SentBehind
  <2> QED
    BY <2>2, <2>3
<1>10. CASE PollResume
  <2>1. PICK n \in 0 .. Len(fresh) :
          /\ \A m \in DOMAIN fresh : m <= n <=> stamps[fresh[m]] > watermark
          /\ fresh' = SubSeq(fresh, 1, n)
          /\ IF n = 0 THEN poll' = "sleep" /\ UNCHANGED <<watermark, targets>>
             ELSE /\ watermark' = stamps[fresh[1]]
                  /\ targets' = registered /\ poll' = "send"
    BY <1>10 DEF PollResume
  <2>2. /\ UNCHANGED <<stamps, late, cut, gone, known, deltas, handler>> /\ poll = "resume"
        /\ committed' = committed
    BY <1>10 DEF PollResume, sensor, client, committed
  <2>3. CASE n = 0
    BY <2>1, <2>2, <2>3 DEF SentBehind
  <2>4. CASE n # 0
    <3>1. ToSet(fresh') = {fresh[m] : m \in 1 .. n}
      BY <2>1, FrontIs
    <3>2. DOMAIN fresh = 1 .. Len(fresh) /\ Len(fresh) \in Nat
      BY LenProperties DEF FeedTypeOK
    <3>3. fresh[1] \in ToSet(fresh) /\ fresh[1] \in committed
      <4>1. 1 \in DOMAIN fresh
        BY <2>1, <2>4, <3>2
      <4> QED
        BY <1>0, <4>1 DEF ToSet
    <3>4. ASSUME NEW c \in Clients \ gone, NEW i \in committed \ (known[c] \cup late \cup cut),
                 handler[c] # "new", stamps[i] <= watermark'
          PROVE  \/ i \in ToSet(deltas[c])
                 \/ c \in targets' /\ i \in ToSet(fresh')
      <4>1. CASE stamps[i] <= watermark
        BY <2>2, <3>4, <4>1 DEF SentBehind
      <4>2. CASE ~(stamps[i] <= watermark)
        <5>1. stamps[i] > watermark
          BY <1>0, <4>2
        <5>2. i \in ToSet(fresh)
          <6> SUFFICES ASSUME i \notin ToSet(fresh) PROVE FALSE
            OBVIOUS
          <6>1. stamps[fresh[1]] < stamps[i]
            BY <2>2, <3>3, <5>1 DEF InQuery
          <6> QED
            BY <1>0, <2>1, <2>4, <3>3, <3>4, <6>1
        <5>3. PICK m \in DOMAIN fresh : i = fresh[m]
          BY <5>2 DEF ToSet
        <5>4. m \in 1 .. n
          BY <2>1, <3>2, <5>1, <5>3
        <5>5. c \in targets'
          BY <2>1, <2>4, <3>4 DEF Enrolled
        <5> QED
          BY <3>1, <5>3, <5>4, <5>5
      <4> QED
        BY <4>1, <4>2
    <3> QED
      BY <2>1, <2>2, <2>4, <3>4 DEF SentBehind
  <2> QED
    BY <2>3, <2>4
<1> QED
  BY <1>2, <1>3, <1>4, <1>5, <1>6, <1>7, <1>8, <1>9, <1>10 DEF FeedNext, Poll

LEMMA FeedStep == FeedInv /\ [FeedNext]_feed => FeedInv'
BY FeedTypeStep, BehindStep, EnrolledStep, QueryStep, SentStep DEF FeedInv

(* The broadcaster and its registry keep their types, and no frame lists   *)
(* what the database does not hold.                                        *)
THEOREM FeedTyped == FeedSpec => []FeedTypeOK
<1>1. FeedInv => FeedTypeOK
  BY DEF FeedInv
<1> QED
  BY <1>1, InitFeed, FeedStep, PTL DEF FeedSpec

(* Every alert is pushed once, in the order of the stamps, and none is     *)
(* passed over but one committed when a poll had read past its stamp or    *)
(* left out by a query (poll_once).                                        *)
THEOREM FeedPushesOnce == FeedSpec => []PushedOnce
<1>1. FeedInv => PushedOnce
  BY DEF FeedInv, SentBehind, PushedOnce, NothingPassedOver
<1> QED
  BY <1>1, InitFeed, FeedStep, PTL DEF FeedSpec

----------------------------------------------------------------------------
(* The console is its parts: what moves the console is a step of one part  *)
(* and a stutter of the others, so what each part promises alone it        *)
(* promises the analyst who works with all of them.                        *)
THEOREM PartsOfTheConsole == ConsoleSpec => Spec /\ ListingsSpec /\ ReportSpec /\ FeedSpec
<1>1. ConsoleInit => Init /\ ListingsInit /\ ReportInit /\ FeedInit
  BY DEF ConsoleInit
<1>2. ASSUME [ConsoleNext]_consoleVars
      PROVE  /\ [Next]_vars /\ [ListingsNext]_listings
             /\ [ReportNext]_reporting /\ [FeedNext]_feed
  <2>1. CASE Writing
    BY <2>1 DEF Writing
  <2>2. CASE Paging
    BY <2>2 DEF Paging
  <2>3. CASE Reporting
    BY <2>3 DEF Reporting
  <2>4. CASE Feeding
    BY <2>4 DEF Feeding
  <2>5. CASE UNCHANGED consoleVars
    BY <2>5 DEF consoleVars
  <2> QED
    BY <1>2, <2>1, <2>2, <2>3, <2>4, <2>5 DEF ConsoleNext
<1> QED
  BY <1>1, <1>2, PTL DEF ConsoleSpec, Spec, ListingsSpec, ReportSpec, FeedSpec
===============================================================================
