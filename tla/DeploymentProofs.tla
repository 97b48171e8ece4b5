---------------------------- MODULE DeploymentProofs ----------------------------
(***************************************************************************)
(* What the parts of a deployment promise, for every value of their        *)
(* constants: requests and the ids of their lines; the log; the            *)
(* configuration; the schema of the database; what an alert says and who   *)
(* is told; what the database keeps; and what the dashboard shows.  Each   *)
(* part has its invariant here.  At the end, a deployment is each of its   *)
(* parts, and what it promises follows.                                    *)
(***************************************************************************)
EXTENDS Deployment, FiniteSetTheorems, FunctionTheorems, SequenceTheorems, TLAPS

-----------------------------------------------------------------------------
(* Requests and the ids of their lines.                                    *)

(* What an id may be.                                                      *)
Tags == Nat \cup {Client, None}
Streams == {"security", "application", "audit", "failure"}
FinderSteps == {"idle", "fired", "raised", "done"}
RequestSteps == {"idle", "received", "admitted", "counted", "found", "set", "enriched", "stored"}

TracingTypeOK ==
    /\ current \in [Threads -> Tags]
    /\ about \in [Threads -> Jobs \cup {None}]
    /\ at \in [Threads -> FinderSteps \cup RequestSteps \cup {"enriching"}]
    /\ minted \in Nat /\ fired \in 0 .. MaxFindings
    /\ queue \in Seq([job : Findings, id : Tags])
    /\ lines \subseteq [job : Jobs, id : Tags, stream : Streams]
    /\ idOf \in [Jobs -> Tags]

(* A job in hand is one that has begun, and the id of the thread is its    *)
(* own; a thread at rest has none.  A finder has a finding, a request      *)
(* itself.                                                                 *)
InScope ==
    \A t \in Threads :
      IF at[t] = "idle" THEN current[t] = None /\ about[t] = None
      ELSE /\ about[t] \in (IF t \in Requests THEN {t} ELSE 1 .. fired)
           /\ current[t] = idOf[about[t]] /\ idOf[about[t]] # None

(* So does an alert that waits for the worker.                             *)
InQueue ==
    \A i \in DOMAIN queue :
      /\ queue[i].job \in 1 .. fired
      /\ queue[i].id = idOf[queue[i].job] /\ idOf[queue[i].job] # None

(* The numbers of the ids are those minted so far, each of one job; what   *)
(* is no number a request brought along.                                   *)
Minted ==
    /\ \A i \in Findings : i > fired => idOf[i] = None
    /\ \A i \in Findings : idOf[i] # Client
    /\ \A i \in Jobs : idOf[i] \in Nat => idOf[i] <= minted
    /\ \A i, j \in Jobs : i # j /\ idOf[i] \in Nat => idOf[i] # idOf[j]

(* A line about a job is one of a job that has begun.                      *)
Told ==
    \A line \in lines :
      IF line.stream = "failure" THEN line.id = None
      ELSE line.id = idOf[line.job] /\ idOf[line.job] # None

TracingInv == TracingTypeOK /\ InScope /\ InQueue /\ Minted /\ Told

(* A request that has not come yet has no id.                              *)
Unheard ==
    \A r \in Requests : call[r] = None => at[r] = "idle" /\ idOf[r] = None

LEMMA TracingStart == TracingInit => TracingInv
<1> SUFFICES ASSUME TracingInit PROVE TracingInv
  OBVIOUS
<1> USE TracingAssumption DEF TracingInit, Tags, Threads, Jobs, Findings
<1>1. TracingTypeOK
  BY DEF TracingTypeOK, FinderSteps
<1>2. InScope /\ InQueue /\ Minted /\ Told
  BY DEF InScope, InQueue, Minted, Told
<1> QED
  BY <1>1, <1>2 DEF TracingInv

(* Every step of a thread on its job but the first: it goes on or leaves   *)
(* the scope, may log under the id it has, and a finder may hand the job   *)
(* over with that id.                                                      *)
LEMMA OnTheJob ==
  ASSUME TracingInv, NEW t \in Threads, at[t] # "idle",
         UNCHANGED <<minted, fired, idOf>>,
         \/ LeaveScope(t)
         \/ /\ \E place \in FinderSteps \cup RequestSteps :
                 place # "idle" /\ at' = [at EXCEPT ![t] = place]
            /\ UNCHANGED <<current, about>>,
         lines' \subseteq lines \cup {Line(about[t], None, "failure")}
                   \cup {Line(about[t], current[t], s) : s \in Streams \ {"failure"}},
         \/ UNCHANGED queue
         \/ /\ t \in Finders
            /\ queue' = Append(queue, [job |-> about[t], id |-> current[t]])
  PROVE  TracingInv'
<1> USE TracingAssumption DEF TracingInv, Tags, Threads, Jobs, Findings
<1>1. /\ about[t] \in Jobs /\ current[t] \in Tags /\ current[t] = idOf[about[t]]
      /\ idOf[about[t]] # None /\ (t \notin Requests => about[t] \in 1 .. fired)
  <2>1. /\ about[t] \in (IF t \in Requests THEN {t} ELSE 1 .. fired)
        /\ current[t] = idOf[about[t]] /\ idOf[about[t]] # None
    BY DEF InScope
  <2>2. 1 .. fired \subseteq Findings /\ current[t] \in Tags
    BY DEF TracingTypeOK
  <2> QED
    BY <2>1, <2>2
<1>2. TracingTypeOK'
  <2>1. current' \in [Threads -> Tags] /\ about' \in [Threads -> Jobs \cup {None}]
    BY DEF TracingTypeOK, LeaveScope
  <2>2. at' \in [Threads -> FinderSteps \cup RequestSteps \cup {"enriching"}]
    BY DEF TracingTypeOK, LeaveScope, FinderSteps
  <2>3. lines' \subseteq [job : Jobs, id : Tags, stream : Streams]
    <3>1. \A s \in Streams : /\ Line(about[t], current[t], s) \in [job : Jobs, id : Tags, stream : Streams]
                            /\ Line(about[t], None, s) \in [job : Jobs, id : Tags, stream : Streams]
      BY <1>1 DEF Line
    <3>2. "failure" \in Streams
      BY DEF Streams
    <3>3. lines \subseteq [job : Jobs, id : Tags, stream : Streams]
      BY DEF TracingTypeOK
    <3> QED
      BY <3>1, <3>2, <3>3
  <2>4. queue' \in Seq([job : Findings, id : Tags])
    <3>1. CASE UNCHANGED queue
      BY <3>1 DEF TracingTypeOK
    <3>2. CASE t \in Finders /\ queue' = Append(queue, [job |-> about[t], id |-> current[t]])
      <4>1. about[t] \in Findings
        BY <1>1, <3>2 DEF TracingTypeOK, Finders
      <4>2. [job |-> about[t], id |-> current[t]] \in [job : Findings, id : Tags]
        BY <1>1, <4>1
      <4> QED
        BY <3>2, <4>2 DEF TracingTypeOK
    <3> QED
      BY <3>1, <3>2
  <2> QED
    BY <2>1, <2>2, <2>3, <2>4 DEF TracingTypeOK
<1>3. InScope'
  BY <1>1 DEF InScope, TracingTypeOK, LeaveScope
<1>4. InQueue'
  <2>1. CASE UNCHANGED queue
    BY <2>1 DEF InQueue
  <2>2. CASE t \in Finders /\ queue' = Append(queue, [job |-> about[t], id |-> current[t]])
    <3>1. about[t] \in 1 .. fired
      BY <1>1, <2>2 DEF Finders
    <3> QED
      BY <1>1, <2>2, <3>1 DEF InQueue, TracingTypeOK
  <2> QED
    BY <2>1, <2>2
<1>5. Minted'
  BY DEF Minted
<1>6. Told'
  BY <1>1 DEF Told, Line, Streams
<1> QED
  BY <1>2, <1>3, <1>4, <1>5, <1>6

(* A finding gets an id of its own.                                        *)
LEMMA FindingStarts ==
  ASSUME TracingInv, NEW t \in Finders, Fire(t)
  PROVE  TracingInv'
<1> USE TracingAssumption DEF TracingInv, Tags, Threads, Jobs, Findings, Fire, EnterScope
<1> DEFINE job == fired + 1
           id == minted + 1
<1>1. /\ job \in Findings /\ job \notin Requests /\ id \in Nat /\ t \notin Requests /\ t \in Threads
      /\ current' = [current EXCEPT ![t] = id] /\ idOf' = [idOf EXCEPT ![job] = id]
      /\ minted' = id /\ fired' = job
  BY DEF TracingTypeOK
<1>2. TracingTypeOK'
  <2>1. lines' \subseteq [job : Jobs, id : Tags, stream : Streams]
    BY <1>1 DEF TracingTypeOK, Line, Streams
  <2>2. current' \in [Threads -> Tags] /\ idOf' \in [Jobs -> Tags] /\ about' \in [Threads -> Jobs \cup {None}]
    BY <1>1 DEF TracingTypeOK
  <2>3. at' \in [Threads -> FinderSteps \cup RequestSteps \cup {"enriching"}]
    BY DEF TracingTypeOK, FinderSteps
  <2> QED
    BY <1>1, <2>1, <2>2, <2>3 DEF TracingTypeOK
<1>3. \A j \in Jobs : j # job => idOf'[j] = idOf[j]
  BY <1>1 DEF TracingTypeOK
<1>4. idOf'[job] = id /\ idOf[job] = None /\ id # None
  BY <1>1 DEF TracingTypeOK, Minted
<1>5. InScope'
  <2> SUFFICES ASSUME NEW u \in Threads
               PROVE  IF at'[u] = "idle" THEN current'[u] = None /\ about'[u] = None
                      ELSE /\ about'[u] \in (IF u \in Requests THEN {u} ELSE 1 .. fired')
                           /\ current'[u] = idOf'[about'[u]] /\ idOf'[about'[u]] # None
    BY DEF InScope
  <2>1. CASE u = t
    BY <1>1, <1>4, <2>1 DEF TracingTypeOK
  <2>2. CASE u # t
    <3>1. at'[u] = at[u] /\ about'[u] = about[u] /\ current'[u] = current[u]
      BY <1>1, <2>2 DEF TracingTypeOK
    <3>2. CASE at[u] = "idle"
      BY <3>1, <3>2 DEF InScope
    <3>3. CASE at[u] # "idle"
      <4>1. /\ about[u] \in (IF u \in Requests THEN {u} ELSE 1 .. fired)
            /\ current[u] = idOf[about[u]] /\ idOf[about[u]] # None
        BY <3>3 DEF InScope
      <4>2. about[u] \in Jobs /\ about[u] # job
        BY <1>1, <4>1 DEF TracingTypeOK
      <4> QED
        BY <1>1, <1>3, <3>1, <3>3, <4>1, <4>2 DEF TracingTypeOK
    <3> QED
      BY <3>2, <3>3
  <2> QED
    BY <2>1, <2>2
<1>6. InQueue'
  BY <1>1, <1>3 DEF InQueue, TracingTypeOK
<1>7. Minted'
  <2>1. \A i \in Findings : i > job => idOf'[i] = None
    BY <1>1, <1>3 DEF Minted, TracingTypeOK
  <2>2. \A i \in Findings : idOf'[i] # Client
    BY <1>1, <1>3, <1>4 DEF Minted
  <2>3. \A i \in Jobs : idOf'[i] \in Nat => idOf'[i] <= id
    <3>1. minted \in Nat /\ id <= id /\ \A n \in Nat : n <= minted => n <= id
      BY DEF TracingTypeOK
    <3> QED
      BY <1>1, <1>3, <1>4, <3>1 DEF Minted
  <2>4. \A i, j \in Jobs : i # j /\ idOf'[i] \in Nat => idOf'[i] # idOf'[j]
    <3>1. \A i \in Jobs : i # job => idOf'[i] # id
      <4>1. \A i \in Jobs : i # job /\ idOf'[i] \in Nat => idOf'[i] <= minted
        BY <1>3 DEF Minted
      <4>2. minted \in Nat /\ id \in Nat /\ ~(id <= minted)
        BY DEF TracingTypeOK
      <4> QED
        BY <4>1, <4>2
    <3> QED
      BY <1>1, <1>3, <1>4, <3>1 DEF Minted
  <2> QED
    BY <1>1, <2>1, <2>2, <2>3, <2>4 DEF Minted
<1>8. Told'
  BY <1>1, <1>3, <1>4 DEF Told, Line, TracingTypeOK
<1> QED
  BY <1>2, <1>5, <1>6, <1>7, <1>8

(* The head of a queue is one of its own, and the rest stands.             *)
LEMMA QueueTaken ==
  ASSUME NEW S, NEW q \in Seq(S), q # <<>>
  PROVE  /\ 1 \in DOMAIN q /\ Head(q) = q[1] /\ q[1] \in S /\ Len(q) \in Nat
         /\ Tail(q) \in Seq(S) /\ DOMAIN Tail(q) = 1 .. Len(q) - 1
         /\ \A i \in 1 .. Len(q) - 1 : i + 1 \in DOMAIN q /\ Tail(q)[i] = q[i + 1]
OBVIOUS

(* The worker enters the scope its alert came from.                        *)
LEMMA AlertTaken ==
  ASSUME TracingInv, TakeAlert
  PROVE  TracingInv'
<1> DEFINE alert == Head(queue)
<1>1. /\ queue \in Seq([job : Findings, id : Tags]) /\ queue # <<>>
      /\ "worker" \in Threads /\ "worker" \notin Requests /\ fired \in 0 .. MaxFindings
  BY TracingAssumption DEF TracingInv, TracingTypeOK, TakeAlert, Threads
<1>2. /\ Len(queue) \in Nat /\ 1 \in DOMAIN queue /\ alert = queue[1]
      /\ Tail(queue) \in Seq([job : Findings, id : Tags])
      /\ queue[1] \in [job : Findings, id : Tags]
      /\ DOMAIN Tail(queue) = 1 .. Len(queue) - 1
      /\ \A i \in 1 .. Len(queue) - 1 : i + 1 \in DOMAIN queue /\ Tail(queue)[i] = queue[i + 1]
  BY <1>1, QueueTaken
<1> USE TracingAssumption DEF TracingInv, Tags, Threads, Jobs, Findings, TakeAlert, EnterScope
<1>3. /\ alert.job \in 1 .. fired /\ alert.id = idOf[alert.job] /\ idOf[alert.job] # None
      /\ alert.id \in Tags /\ alert.job \in Jobs
  BY <1>2 DEF InQueue
<1>4. /\ current' = [current EXCEPT !["worker"] = alert.id] /\ minted' = minted
      /\ about' = [about EXCEPT !["worker"] = alert.job] /\ queue' = Tail(queue)
      /\ at' = [at EXCEPT !["worker"] = "enriching"] /\ UNCHANGED <<fired, lines, idOf>>
  BY <1>3
<1> HIDE DEF alert, TakeAlert, EnterScope
<1>5. TracingTypeOK'
  BY <1>2, <1>3, <1>4 DEF TracingTypeOK
<1>6. InScope'
  BY <1>1, <1>3, <1>4 DEF InScope, TracingTypeOK
<1>7. InQueue'
  BY <1>1, <1>2, <1>4 DEF InQueue
<1>8. Minted' /\ Told'
  BY <1>4 DEF Minted, Told
<1> QED
  BY <1>5, <1>6, <1>7, <1>8

(* A request comes with an id, or gets one of its own.                     *)
LEMMA RequestStarts ==
  ASSUME TracingInv, Unheard, NEW r \in Requests, Receive(r)
  PROVE  TracingInv' /\ idOf'[r] # None /\ \A j \in Jobs : j # r => idOf'[j] = idOf[j]
<1> USE TracingAssumption DEF TracingInv, Tags, Threads, Jobs, Findings
<1>1. PICK c \in Calls[r] : EnterScope(r, r, IF c.traced THEN Client ELSE None)
  BY DEF Receive
<1> DEFINE id == IF c.traced THEN Client ELSE minted + 1
<1>2. /\ id \in Tags /\ id # None /\ idOf[r] = None /\ r \in Threads /\ minted \in Nat
      /\ minted' \in Nat /\ minted <= minted'
      /\ id \in Nat => id = minted + 1 /\ minted' = minted + 1
      /\ r \notin Nat /\ r \in Jobs
  BY <1>1 DEF EnterScope, Unheard, TracingTypeOK, Receive
<1>3. /\ current' = [current EXCEPT ![r] = id] /\ about' = [about EXCEPT ![r] = r]
      /\ at' = [at EXCEPT ![r] = "received"] /\ UNCHANGED <<fired, queue, lines>>
      /\ idOf' = [idOf EXCEPT ![r] = id]
  <2>1. current' = [current EXCEPT ![r] = id]
    BY <1>1 DEF EnterScope
  <2> QED
    BY <1>1, <1>2, <2>1 DEF EnterScope, Receive, TracingTypeOK
<1> HIDE DEF id
<1>4. idOf'[r] = id /\ \A j \in Jobs : j # r => idOf'[j] = idOf[j]
  BY <1>2, <1>3 DEF TracingTypeOK
<1>5. TracingTypeOK'
  BY <1>2, <1>3 DEF TracingTypeOK, RequestSteps
<1>6. InScope'
  <2> SUFFICES ASSUME NEW u \in Threads
               PROVE  IF at'[u] = "idle" THEN current'[u] = None /\ about'[u] = None
                      ELSE /\ about'[u] \in (IF u \in Requests THEN {u} ELSE 1 .. fired')
                           /\ current'[u] = idOf'[about'[u]] /\ idOf'[about'[u]] # None
    BY DEF InScope
  <2>1. CASE u = r
    BY <1>2, <1>3, <2>1 DEF TracingTypeOK
  <2>2. CASE u # r
    <3>1. at'[u] = at[u] /\ about'[u] = about[u] /\ current'[u] = current[u] /\ fired' = fired
      BY <1>2, <1>3, <2>2 DEF TracingTypeOK
    <3>2. CASE at[u] = "idle"
      BY <3>1, <3>2 DEF InScope
    <3>3. CASE at[u] # "idle"
      <4>1. /\ about[u] \in (IF u \in Requests THEN {u} ELSE 1 .. fired)
            /\ current[u] = idOf[about[u]] /\ idOf[about[u]] # None
        BY <3>3 DEF InScope
      <4>2. about[u] \in Jobs /\ about[u] # r
        BY <1>2, <2>2, <4>1 DEF TracingTypeOK
      <4> QED
        BY <1>4, <3>1, <3>3, <4>1, <4>2
    <3> QED
      BY <3>2, <3>3
  <2> QED
    BY <2>1, <2>2
<1>7. InQueue'
  <2>1. \A i \in 1 .. fired : i \in Jobs /\ i # r
    BY <1>2 DEF TracingTypeOK
  <2> QED
    BY <1>3, <1>4, <2>1 DEF InQueue
<1>8. Minted'
  <2>1. \A i \in Findings : i # r /\ i \in Jobs /\ idOf'[i] = idOf[i]
    BY <1>2, <1>4
  <2>2. \A i \in Jobs : i # r /\ idOf'[i] \in Nat => idOf'[i] <= minted
    BY <1>4 DEF Minted
  <2>3. \A i \in Jobs : idOf'[i] \in Nat => idOf'[i] <= minted'
    BY <1>2, <1>4, <2>2
  <2>4. \A i \in Jobs : i # r /\ id \in Nat => idOf'[i] # id
    <3>1. id \in Nat => ~(id <= minted)
      BY <1>2
    <3> QED
      BY <2>2, <3>1
  <2>5. \A i, j \in Jobs : i # j /\ idOf'[i] \in Nat => idOf'[i] # idOf'[j]
    BY <1>4, <2>4 DEF Minted
  <2> QED
    BY <1>3, <2>1, <2>3, <2>5 DEF Minted
<1>9. Told'
  BY <1>2, <1>3, <1>4 DEF Told, TracingTypeOK
<1> QED
  BY <1>2, <1>4, <1>5, <1>6, <1>7, <1>8, <1>9

(* Finders and worker leave the requests alone.                            *)
LEMMA FindersAlone ==
  ASSUME TracingInv, TracingNext, NEW r \in Requests
  PROVE  at'[r] = at[r] /\ idOf'[r] = idOf[r]
<1>1. r \notin Finders \cup {"worker"} /\ r \notin Findings
  BY TracingAssumption DEF Findings
<1>2. fired \in Nat /\ MaxFindings \in Nat
  BY TracingAssumption DEF TracingInv, TracingTypeOK
<1>3. ASSUME NEW t \in Finders, Fire(t) PROVE at'[r] = at[r] /\ idOf'[r] = idOf[r]
  <2>1. fired + 1 \in Findings
    BY <1>2, <1>3 DEF Fire, Findings
  <2> QED
    BY <1>1, <1>3, <2>1 DEF Fire, TracingInv, TracingTypeOK, Threads, Jobs
<1>4. ASSUME NEW t \in Finders, RaiseAlert(t) \/ Submit(t) \/ Finish(t) \/ Abort(t)
      PROVE  at'[r] = at[r] /\ idOf'[r] = idOf[r]
  BY <1>1, <1>4 DEF RaiseAlert, Submit, Finish, Abort, LeaveScope, TracingInv, TracingTypeOK, Threads
<1>5. CASE TakeAlert \/ EnrichAlert
  BY <1>1, <1>5 DEF TakeAlert, EnrichAlert, LeaveScope, TracingInv, TracingTypeOK, Threads
<1> QED
  BY <1>3, <1>4, <1>5 DEF TracingNext

(* A step of a finder or of the worker.                                    *)
LEMMA TracingStep ==
  ASSUME TracingInv, TracingNext
  PROVE  TracingInv'
<1> USE DEF Threads, Finders
<1>1. ASSUME NEW t \in Finders, Fire(t) PROVE TracingInv'
  BY <1>1, FindingStarts
<1>2. ASSUME NEW t \in Finders, RaiseAlert(t) PROVE TracingInv'
  BY <1>2, OnTheJob DEF RaiseAlert, Logged, FinderSteps, Streams
<1>3. ASSUME NEW t \in Finders, Submit(t) PROVE TracingInv'
  BY <1>3, OnTheJob DEF Submit, FinderSteps
<1>4. ASSUME NEW t \in Finders, Finish(t) PROVE TracingInv'
  BY <1>4, OnTheJob DEF Finish, LeaveScope, Logged, Streams
<1>5. ASSUME NEW t \in Finders, Abort(t) PROVE TracingInv'
  BY <1>5, OnTheJob DEF Abort, LeaveScope, TracingInv, TracingTypeOK
<1>6. CASE TakeAlert
  BY <1>6, AlertTaken
<1>7. CASE EnrichAlert
  BY <1>7, OnTheJob DEF EnrichAlert, LeaveScope, Logged, Streams
<1> QED
  BY <1>1, <1>2, <1>3, <1>4, <1>5, <1>6, <1>7 DEF TracingNext

----------------------------------------------------------------------------
(* A request inside its chain: what it is about has been seen, and past    *)
(* the gates it was let in.                                                *)
LetIn(c) == c.form = "valid" /\ ~Refused(c)
Now == [row |-> row, database |-> database]
SawRow(r) == \E s \in seen[r] : s.row
SawNoRow(r) == \E s \in seen[r] : ~s.row
SawFailure(r) == \E s \in seen[r] : ~s.database

InChain(r) ==
    /\ call[r] \in Calls[r] /\ answer[r] = None
    /\ Now \in seen[r]
    /\ at[r] # "received" => LetIn(call[r])
    /\ at[r] = "found" => SawRow(r)

(* Or not come yet, or answered.                                           *)
Sound(r) ==
    IF at[r] # "idle" THEN InChain(r)
    ELSE IF call[r] = None THEN answer[r] = None /\ idOf[r] = None
    ELSE answer[r] # None => Fits(r)

RequestsTypeOK ==
    /\ call \in [Requests -> (UNION {Calls[r] : r \in Requests}) \cup {None}]
    /\ answer \in [Requests -> [status : Nat, id : Tags, secured : BOOLEAN] \cup {None}]
    /\ row \in BOOLEAN /\ database \in BOOLEAN /\ built \in BOOLEAN
    /\ seen \in [Requests -> SUBSET [row : BOOLEAN, database : BOOLEAN]]

RequestsInv ==
    /\ TracingInv /\ RequestsTypeOK
    /\ \A r \in Requests : Sound(r)

LEMMA RequestsStart == RequestsInit => RequestsInv
<1> SUFFICES ASSUME RequestsInit PROVE RequestsInv
  OBVIOUS
<1>1. TracingInv
  BY TracingStart DEF RequestsInit
<1>2. RequestsTypeOK
  <2>1. row \in BOOLEAN /\ database \in BOOLEAN /\ built \in BOOLEAN
    BY Zenon DEF RequestsInit
  <2>2. /\ call \in [Requests -> (UNION {Calls[r] : r \in Requests}) \cup {None}]
        /\ answer \in [Requests -> [status : Nat, id : Tags, secured : BOOLEAN] \cup {None}]
        /\ seen \in [Requests -> SUBSET [row : BOOLEAN, database : BOOLEAN]]
    BY DEF RequestsInit
  <2> QED
    BY <2>1, <2>2 DEF RequestsTypeOK
<1>3. ASSUME NEW r \in Requests PROVE Sound(r)
  BY DEF RequestsInit, TracingInit, Sound, Threads, Jobs
<1> QED
  BY <1>1, <1>2, <1>3 DEF RequestsInv

LEMMA NobodyUnheard == RequestsInv => Unheard
<1> SUFFICES ASSUME RequestsInv, NEW r \in Requests, call[r] = None
             PROVE  at[r] = "idle" /\ idOf[r] = None
  BY DEF Unheard
<1>1. Sound(r) /\ call[r] \notin Calls[r]
  BY RequestsAssumption DEF RequestsInv
<1> QED
  BY <1>1 DEF Sound, InChain

(* What a request has seen, it has seen.                                   *)
SeenGoesOn ==
    \/ UNCHANGED <<row, database, seen>>
    \/ seen' = Meanwhile /\ row' \in BOOLEAN /\ database' \in BOOLEAN

LEMMA SeenMore ==
  ASSUME RequestsInv, SeenGoesOn, NEW r \in Requests
  PROVE  /\ seen[r] \subseteq seen'[r]
         /\ at[r] = "idle" => seen'[r] = seen[r]
         /\ at[r] # "idle" => Now' \in seen'[r]
         /\ seen' \in [Requests -> SUBSET [row : BOOLEAN, database : BOOLEAN]]
         /\ row' \in BOOLEAN /\ database' \in BOOLEAN
<1>1. CASE UNCHANGED <<row, database, seen>>
  BY <1>1 DEF RequestsInv, RequestsTypeOK, Sound, InChain, Now
<1>2. CASE seen' = Meanwhile /\ row' \in BOOLEAN /\ database' \in BOOLEAN
  BY <1>2 DEF RequestsInv, RequestsTypeOK, Meanwhile, Now
<1> QED
  BY <1>1, <1>2 DEF SeenGoesOn

(* A request that does not move stays sound, whatever happens around it.   *)
LEMMA OthersStaySound ==
  ASSUME RequestsInv, SeenGoesOn, NEW r \in Requests,
         at'[r] = at[r], call'[r] = call[r], answer'[r] = answer[r], idOf'[r] = idOf[r]
  PROVE  Sound(r)'
<1>1. Sound(r)
  BY DEF RequestsInv
<1>2. CASE at[r] # "idle"
  <2>1. InChain(r) /\ seen[r] \subseteq seen'[r] /\ Now' \in seen'[r]
    BY <1>1, <1>2, SeenMore DEF Sound
  <2>2. InChain(r)'
    BY <2>1 DEF InChain, LetIn, Refused, SawRow
  <2> QED
    BY <1>2, <2>2 DEF Sound
<1>3. CASE at[r] = "idle"
  <2>1. seen'[r] = seen[r]
    BY <1>3, SeenMore
  <2> QED
    BY <1>1, <1>3, <2>1 DEF Sound, Fits, Refused
<1> QED
  BY <1>2, <1>3

(* What an answer must be so as to be true, and where a request may go on. *)
Earned(r, status) ==
    /\ status \in {200, 401, 404, 422, 503}
    /\ status = 503 => call[r].endpoint = "page" \/ SawFailure(r)'
    /\ status = 404 => SawNoRow(r)'
    /\ status = 200 /\ call[r].endpoint \in Named => SawRow(r)'
    /\ call[r].endpoint \in {"live", "config"} /\ call[r].form = "valid" => status \in {200, 401}
    /\ status = 401 <=> Refused(call[r]) /\ call[r].form # "malformed"

Lost(r) ==
    /\ LetIn(call[r]) /\ call[r].endpoint \notin {"live", "config"}
    /\ ~database /\ UNCHANGED <<row, database>>

GoesOn(r, place) ==
    /\ place \in RequestSteps \ {"idle", "received"} /\ LetIn(call[r])
    /\ place = "found" => SawRow(r)'

(* Every step of a request but its first is an answer that is true, a      *)
(* failure of the database, or a step on.                                  *)
LEMMA ServedSoundly ==
  ASSUME RequestsInv, SeenGoesOn, NEW r \in Requests, at[r] # "idle",
         UNCHANGED <<fired, queue, idOf, call>>, built' \in BOOLEAN,
         \/ \E status \in Nat : Respond(r, status) /\ Earned(r, status)
         \/ Fail(r) /\ Lost(r)
         \/ \E place \in RequestSteps :
              /\ Pass(r, place) /\ GoesOn(r, place)
              /\ lines' \in {lines, Logged(r, {"audit"})}
  PROVE  RequestsInv'
<1> USE TracingAssumption
<1>0. /\ TracingInv /\ RequestsTypeOK /\ \A q \in Requests : Sound(q)
      /\ InChain(r) /\ r \in Threads
  BY DEF RequestsInv, Sound, Threads
<1>1. /\ call[r] \in Calls[r] /\ call[r] # None /\ answer[r] = None
      /\ about[r] = r /\ current[r] = idOf[r] /\ idOf[r] \in Tags /\ current \in [Threads -> Tags]
      /\ seen[r] \subseteq seen'[r] /\ Now' \in seen'[r]
  <2>1. current[r] = idOf[r] /\ about[r] = r
    BY <1>0 DEF TracingInv, InScope
  <2>2. idOf[r] \in Tags /\ current \in [Threads -> Tags]
    BY <1>0 DEF TracingInv, TracingTypeOK, Jobs
  <2> QED
    BY <1>0, <2>1, <2>2, RequestsAssumption, SeenMore DEF InChain
<1>2. \A s \in {{"audit"}} : Logged(r, s) \subseteq lines
                  \cup {Line(about[r], current[r], t) : t \in Streams \ {"failure"}}
  BY DEF Logged, Streams
<1>3. ASSUME NEW value, NEW place, answer' = [answer EXCEPT ![r] = value], at' = [at EXCEPT ![r] = place],
             NEW q \in Requests, q # r
      PROVE  Sound(q)'
  <2>1. at'[q] = at[q] /\ call'[q] = call[q] /\ answer'[q] = answer[q] /\ idOf'[q] = idOf[q]
    BY <1>0, <1>3 DEF RequestsTypeOK, TracingInv, TracingTypeOK, Threads
  <2> QED
    BY <2>1, OthersStaySound
<1>4. ASSUME answer' \in [Requests -> [status : Nat, id : Tags, secured : BOOLEAN] \cup {None}]
      PROVE  RequestsTypeOK'
  BY <1>0, <1>4, SeenMore DEF RequestsTypeOK
<1>5. CASE \E status \in Nat : Respond(r, status) /\ Earned(r, status)
  <2>1. PICK status \in Nat : Respond(r, status) /\ Earned(r, status)
    BY <1>5
  <2>2. TracingInv'
    BY <1>0, <1>2, <2>1, OnTheJob DEF Respond, LeaveScope
  <2>3. /\ answer' = [answer EXCEPT ![r] = Response(status, idOf[r], TRUE)]
        /\ at' = [at EXCEPT ![r] = "idle"]
    BY <1>1, <2>1 DEF Respond, LeaveScope
  <2>4. Response(status, idOf[r], TRUE) \in [status : Nat, id : Tags, secured : BOOLEAN]
    BY <1>1 DEF Response
  <2>5. Sound(r)'
    <3>1. answer'[r] = Response(status, idOf[r], TRUE) /\ at'[r] = "idle"
      BY <1>0, <2>3 DEF RequestsTypeOK, TracingInv, TracingTypeOK
    <3>2. status # 500 /\ status \in {200, 401, 404, 422, 503}
      BY <2>1 DEF Earned
    <3>3. Fits(r)'
      BY <2>1, <3>1, <3>2 DEF Fits, Earned, Response, SawFailure, SawRow, SawNoRow, Refused
    <3> QED
      BY <1>1, <3>1, <3>3 DEF Sound
  <2> QED
    <3>1. ASSUME NEW q \in Requests, q # r PROVE Sound(q)'
      BY <1>3, <2>3, <3>1
    <3>2. RequestsTypeOK'
      BY <1>0, <1>4, <2>3, <2>4 DEF RequestsTypeOK
    <3> QED
      BY <2>2, <2>5, <3>1, <3>2 DEF RequestsInv
<1>6. CASE Fail(r) /\ Lost(r)
  <2>1. LeaveScope(r) /\ current'[r] = None
    BY <1>0, <1>1, <1>6 DEF Fail, LeaveScope
  <2>2. TracingInv'
    <3>1. lines' \subseteq lines \cup {Line(about[r], None, "failure")}
                   \cup {Line(about[r], current[r], s) : s \in Streams \ {"failure"}}
      BY <1>1, <1>2, <1>6, <2>1 DEF Fail
    <3>2. UNCHANGED minted
      BY <2>1 DEF LeaveScope
    <3> QED
      BY <1>0, <2>1, <3>1, <3>2, OnTheJob
  <2>3. /\ answer' = [answer EXCEPT ![r] = Response(500, None, FALSE)]
        /\ at' = [at EXCEPT ![r] = "idle"]
    BY <1>6, <2>1 DEF Fail, LeaveScope
  <2>4. Response(500, None, FALSE) \in [status : Nat, id : Tags, secured : BOOLEAN]
    BY DEF Response, Tags
  <2>5. Sound(r)'
    <3>1. answer'[r] = Response(500, None, FALSE) /\ at'[r] = "idle"
      BY <1>0, <2>3 DEF RequestsTypeOK, TracingInv, TracingTypeOK
    <3>2. SawFailure(r)'
      BY <1>1, <1>6 DEF SawFailure, Lost, Now
    <3>3. Fits(r)'
      BY <1>6, <3>1, <3>2 DEF Fits, Lost, LetIn, Response, SawFailure, Refused
    <3> QED
      BY <1>1, <3>1, <3>3 DEF Sound
  <2> QED
    <3>1. ASSUME NEW q \in Requests, q # r PROVE Sound(q)'
      BY <1>3, <2>3, <3>1
    <3>2. RequestsTypeOK'
      BY <1>0, <1>4, <2>3, <2>4 DEF RequestsTypeOK
    <3> QED
      BY <2>2, <2>5, <3>1, <3>2 DEF RequestsInv
<1>7. CASE \E place \in RequestSteps :
              /\ Pass(r, place) /\ GoesOn(r, place)
              /\ lines' \in {lines, Logged(r, {"audit"})}
  <2>1. PICK place \in RequestSteps :
              /\ Pass(r, place) /\ GoesOn(r, place)
              /\ lines' \in {lines, Logged(r, {"audit"})}
    BY <1>7
  <2>2. place # "idle" /\ place # "received" /\ at' = [at EXCEPT ![r] = place] /\ UNCHANGED answer
    BY <2>1 DEF GoesOn, Pass
  <2>3. TracingInv'
    BY <1>0, <1>2, <2>1, <2>2, OnTheJob DEF Pass
  <2>4. Sound(r)'
    <3>1. at'[r] = place
      BY <1>0, <2>2 DEF TracingInv, TracingTypeOK
    <3> QED
      BY <1>1, <2>1, <2>2, <3>1 DEF Sound, InChain, GoesOn, LetIn, Refused
  <2> QED
    <3>0. answer' = [answer EXCEPT ![r] = answer[r]]
      BY <1>0, <2>2 DEF RequestsTypeOK
    <3>1. ASSUME NEW q \in Requests, q # r PROVE Sound(q)'
      BY <1>3, <2>2, <3>0, <3>1
    <3>2. RequestsTypeOK'
      BY <1>0, <1>4, <2>2 DEF RequestsTypeOK
    <3> QED
      BY <2>3, <2>4, <3>1, <3>2 DEF RequestsInv
<1> QED
  BY <1>5, <1>6, <1>7

(* What the handlers' common steps amount to.  While a request is admitted *)
(* or later the gates are behind it.                                       *)
Served(r) ==
    \/ \E status \in Nat : Respond(r, status) /\ Earned(r, status)
    \/ Fail(r) /\ Lost(r)
    \/ \E place \in RequestSteps :
         /\ Pass(r, place) /\ GoesOn(r, place)
         /\ lines' \in {lines, Logged(r, {"audit"})}

Handling(r) == at[r] \notin {"idle", "received"}

LEMMA PastTheGates ==
  ASSUME RequestsInv, NEW r \in Requests, Handling(r)
  PROVE  /\ LetIn(call[r]) /\ at[r] # "idle" /\ Now \in seen[r]
         /\ call[r].form = "valid" /\ ~Refused(call[r])
         /\ row \in BOOLEAN /\ database \in BOOLEAN
         /\ at[r] = "found" => SawRow(r)
BY DEF RequestsInv, Sound, InChain, Handling, LetIn, RequestsTypeOK

LEMMA WhatIsSeen ==
  ASSUME NEW r \in Requests, Now \in seen[r]
  PROVE  /\ row => SawRow(r)
         /\ ~row => SawNoRow(r)
         /\ ~database => SawFailure(r)
BY Zenon DEF Now, SawRow, SawNoRow, SawFailure

LEMMA InsideKeeps ==
  ASSUME RequestsInv, UNCHANGED Inside, NEW r \in Requests
  PROVE  /\ SeenGoesOn /\ UNCHANGED <<fired, queue, idOf, call>> /\ built' \in BOOLEAN
         /\ SawRow(r)' = SawRow(r) /\ SawNoRow(r)' = SawNoRow(r)
         /\ SawFailure(r)' = SawFailure(r)
BY DEF Inside, SeenGoesOn, RequestsInv, RequestsTypeOK, SawRow, SawNoRow, SawFailure

(* The answers of the handlers, one by one.                                *)
LEMMA AnswersServed ==
  ASSUME RequestsInv, NEW r \in Requests, Handling(r), UNCHANGED Inside,
         NEW status \in {200, 404, 503}, Respond(r, status),
         status = 200 /\ call[r].endpoint \in Named => row \/ SawRow(r),
         status = 404 => ~row /\ call[r].endpoint \notin {"live", "config"},
         status = 503 => \/ call[r].endpoint = "page"
                         \/ call[r].endpoint = "health" /\ ~database
  PROVE  RequestsInv'
<1>1. LetIn(call[r]) /\ at[r] # "idle" /\ ~Refused(call[r])
  BY PastTheGates
<1>2. /\ status = 404 => SawNoRow(r)
      /\ status = 200 /\ call[r].endpoint \in Named => SawRow(r)
      /\ status = 503 => call[r].endpoint = "page" \/ SawFailure(r)
  BY PastTheGates, WhatIsSeen
<1>3. Earned(r, status)
  BY <1>1, <1>2, InsideKeeps DEF Earned
<1>4. status \in Nat
  OBVIOUS
<1> QED
  BY <1>1, <1>3, <1>4, InsideKeeps, ServedSoundly

LEMMA FailureServed ==
  ASSUME RequestsInv, NEW r \in Requests, Handling(r), UNCHANGED Inside,
         Fail(r), ~database, call[r].endpoint \notin {"live", "config"}
  PROVE  RequestsInv'
<1>1. LetIn(call[r]) /\ at[r] # "idle"
  BY PastTheGates
<1>2. Lost(r)
  BY <1>1 DEF Lost, Inside
<1> QED
  BY <1>1, <1>2, InsideKeeps, ServedSoundly

LEMMA StepServed ==
  ASSUME RequestsInv, NEW r \in Requests, Handling(r), UNCHANGED Inside,
         NEW place \in RequestSteps \ {"idle", "received"}, Pass(r, place),
         place = "found" => row,
         lines' \in {lines, Logged(r, {"audit"})}
  PROVE  RequestsInv'
<1>1. LetIn(call[r]) /\ at[r] # "idle"
  BY PastTheGates
<1>2. place = "found" => SawRow(r)
  BY PastTheGates, WhatIsSeen
<1>3. GoesOn(r, place)
  BY <1>1, <1>2, InsideKeeps DEF GoesOn
<1>4. place \in RequestSteps
  OBVIOUS
<1> QED
  BY <1>1, <1>3, <1>4, InsideKeeps, ServedSoundly

(* A row that is asked for.                                                *)
LEMMA FindServed ==
  ASSUME RequestsInv, NEW r \in Requests, Handling(r),
         NEW place \in {"answer", "found"}, Find(r, place),
         call[r].endpoint \notin {"live", "config"}
  PROVE  RequestsInv'
<1>1. UNCHANGED Inside
  BY DEF Find, Ask
<1>2. CASE ~database
  BY <1>1, <1>2, FailureServed DEF Find, Ask
<1>3. CASE database /\ ~row
  BY <1>1, <1>3, AnswersServed DEF Find, Ask
<1>4. CASE database /\ row /\ place = "answer"
  BY <1>1, <1>4, AnswersServed DEF Find, Ask
<1>5. CASE database /\ row /\ place = "found"
  <2>1. Pass(r, "found") /\ UNCHANGED lines
    BY <1>5 DEF Find, Ask
  <2>2. "found" \in RequestSteps \ {"idle", "received"}
    BY DEF RequestSteps
  <2> QED
    BY <1>1, <1>5, <2>1, <2>2, StepServed
<1> QED
  BY <1>2, <1>3, <1>4, <1>5

(* save makes the row, or fails.                                           *)
LEMMA SaveServed ==
  ASSUME RequestsInv, NEW r \in Requests, Handling(r),
         call[r].endpoint \notin {"live", "config"},
         \/ Save(r, Respond(r, 200))
         \/ Save(r, Pass(r, "stored") /\ UNCHANGED lines)
  PROVE  RequestsInv'
<1>1. /\ LetIn(call[r]) /\ ~Refused(call[r]) /\ at[r] # "idle"
      /\ row \in BOOLEAN /\ database \in BOOLEAN /\ built \in BOOLEAN
  BY PastTheGates DEF RequestsInv, RequestsTypeOK
<1>2. UNCHANGED <<fired, queue, idOf, call, database, built, faults>> /\ seen' = Meanwhile
  BY DEF Save
<1>3. row' \in BOOLEAN
  BY <1>1 DEF Save
<1>4. SeenGoesOn
  BY <1>1, <1>2, <1>3 DEF SeenGoesOn
<1>5. CASE ~database
  <2>1. Fail(r) /\ UNCHANGED row
    BY <1>5 DEF Save
  <2>2. Lost(r)
    BY <1>1, <1>2, <1>5, <2>1 DEF Lost
  <2> QED
    BY <1>1, <1>2, <1>4, <2>1, <2>2, ServedSoundly
<1>6. CASE database /\ Save(r, Respond(r, 200))
  <2>1. Respond(r, 200) /\ row' = TRUE
    BY <1>6 DEF Save
  <2>2. Now' \in seen'[r]
    BY <1>1, <1>4, SeenMore
  <2>3. SawRow(r)'
    BY <2>1, <2>2, Zenon DEF SawRow, Now
  <2>4. Earned(r, 200)
    BY <1>1, <2>3 DEF Earned
  <2> QED
    BY <1>1, <1>2, <1>4, <2>1, <2>4, ServedSoundly
<1>7. CASE database /\ Save(r, Pass(r, "stored") /\ UNCHANGED lines)
  <2>1. Pass(r, "stored") /\ UNCHANGED lines
    BY <1>7 DEF Save
  <2>2. GoesOn(r, "stored") /\ "stored" \in RequestSteps
    BY <1>1 DEF GoesOn, RequestSteps
  <2> QED
    BY <1>1, <1>2, <1>4, <2>1, <2>2, ServedSoundly
<1> QED
  BY <1>1, <1>5, <1>6, <1>7

(* The gates.                                                              *)
LEMMA AdmitServed ==
  ASSUME RequestsInv, NEW r \in Requests, Admit(r)
  PROVE  RequestsInv'
<1>1. UNCHANGED Inside /\ at[r] = "received"
  BY DEF Admit
<1>2. call[r].form \in {"malformed", "invalid", "valid"}
  BY <1>1, RequestsAssumption DEF RequestsInv, Sound, InChain
<1>3. CASE call[r].form # "malformed" /\ ~Refused(call[r]) /\ call[r].form # "invalid"
  <2>1. Pass(r, "admitted") /\ UNCHANGED lines
    BY <1>3 DEF Admit
  <2>2. GoesOn(r, "admitted") /\ "admitted" \in RequestSteps
    BY <1>2, <1>3 DEF GoesOn, RequestSteps, LetIn
  <2> QED
    BY <1>1, <2>1, <2>2, InsideKeeps, ServedSoundly
<1>4. CASE \/ call[r].form = "malformed"
           \/ ~Refused(call[r]) /\ call[r].form = "invalid"
  <2>1. Respond(r, 422)
    BY <1>4 DEF Admit
  <2>2. Earned(r, 422)
    BY <1>4 DEF Earned
  <2> QED
    BY <1>1, <2>1, <2>2, InsideKeeps, ServedSoundly
<1>5. CASE call[r].form # "malformed" /\ Refused(call[r])
  <2>1. Respond(r, 401)
    BY <1>5 DEF Admit
  <2>2. Earned(r, 401)
    BY <1>5 DEF Earned
  <2> QED
    BY <1>1, <2>1, <2>2, InsideKeeps, ServedSoundly
<1> QED
  BY <1>3, <1>4, <1>5, Zenon

LEMMA ReceiveServed ==
  ASSUME RequestsInv, NEW r \in Requests, Receive(r)
  PROVE  RequestsInv'
<1>1. PICK c \in Calls[r] :
           /\ call' = [call EXCEPT ![r] = c]
           /\ EnterScope(r, r, IF c.traced THEN Client ELSE None)
  BY DEF Receive
<1>2. /\ at[r] = "idle" /\ call[r] = None /\ at' = [at EXCEPT ![r] = "received"]
      /\ seen' = [seen EXCEPT ![r] = {Now}]
      /\ UNCHANGED <<answer, row, database, built>>
  BY DEF Receive, Now
<1>3. /\ TracingInv' /\ idOf'[r] # None
      /\ \A j \in Jobs : j # r => idOf'[j] = idOf[j]
  BY NobodyUnheard, RequestStarts DEF RequestsInv
<1>4. TracingInv /\ RequestsTypeOK /\ Now \in [row : BOOLEAN, database : BOOLEAN]
  BY DEF RequestsInv, RequestsTypeOK, Now
<1>5. RequestsTypeOK'
  BY <1>1, <1>2, <1>4 DEF RequestsTypeOK
<1>6. Sound(r)'
  <2>1. call'[r] = c /\ at'[r] = "received" /\ seen'[r] = {Now} /\ Now' = Now
    BY <1>1, <1>2, <1>4 DEF RequestsTypeOK, TracingInv, TracingTypeOK, Threads, Now
  <2>2. answer[r] = None
    BY <1>2 DEF RequestsInv, Sound
  <2> QED
    BY <1>2, <2>1, <2>2 DEF Sound, InChain
<1>7. ASSUME NEW q \in Requests, q # r PROVE Sound(q)'
  <2>1. /\ call'[q] = call[q] /\ at'[q] = at[q] /\ seen'[q] = seen[q] /\ answer'[q] = answer[q]
        /\ idOf'[q] = idOf[q] /\ Now' = Now
    BY <1>1, <1>2, <1>3, <1>4, <1>7
       DEF RequestsTypeOK, TracingInv, TracingTypeOK, Threads, Now, Jobs
  <2>2. Sound(q)
    BY DEF RequestsInv
  <2> QED
    BY <2>1, <2>2 DEF Sound, InChain, Fits, Refused, LetIn, SawRow
<1> QED
  BY <1>3, <1>5, <1>6, <1>7 DEF RequestsInv

LEMMA ServeServed ==
  ASSUME RequestsInv, NEW r \in Requests, Serve(r)
  PROVE  RequestsInv'
<1> USE DEF Handles
<1>1. Handling(r)
  BY DEF Serve, Liveness, GetConfig, ServeDashboard, Readiness, ListRows, GetOne, GetEvidence,
         UpdateStatus, ToggleRule, EnrichNow, Handling
<1>2. CASE Liveness(r) \/ GetConfig(r)
  BY <1>1, <1>2, AnswersServed DEF Liveness, GetConfig, Named
<1>3. CASE ServeDashboard(r)
  BY <1>1, <1>3, AnswersServed DEF ServeDashboard, Named
<1>4. CASE Readiness(r)
  <2>1. CASE Handles(r, "health", "admitted") /\ Ask(r, Pass(r, "counted") /\ UNCHANGED lines)
    <3>1. CASE database
      BY <1>1, <2>1, <3>1, StepServed DEF Ask, RequestSteps
    <3>2. CASE ~database
      BY <1>1, <2>1, <3>2, FailureServed DEF Ask
    <3> QED
      BY <3>1, <3>2
  <2>2. CASE /\ Handles(r, "health", "counted")
             /\ Respond(r, IF database THEN 200 ELSE 503) /\ UNCHANGED Inside
    <3>1. PICK status \in {200, 503} : Respond(r, status) /\ (status = 503 => ~database)
      BY <2>2
    <3> QED
      BY <1>1, <2>2, <3>1, AnswersServed DEF Named
  <2> QED
    BY <1>4, <2>1, <2>2 DEF Readiness
<1>5. CASE ListRows(r)
  BY <1>1, <1>5, AnswersServed, FailureServed DEF ListRows, Ask, Named
<1>6. CASE GetOne(r)
  BY <1>1, <1>6, FindServed DEF GetOne
<1>7. CASE GetEvidence(r)
  <2>1. CASE Handles(r, "evidence", "admitted") /\ Find(r, "found")
    BY <1>1, <2>1, FindServed
  <2>2. CASE Handles(r, "evidence", "found") /\ Ask(r, Respond(r, 200))
    <3>1. SawRow(r)
      BY <1>1, <2>2, PastTheGates
    <3>2. CASE database
      BY <1>1, <2>2, <3>1, <3>2, AnswersServed DEF Ask
    <3>3. CASE ~database
      BY <1>1, <2>2, <3>3, FailureServed DEF Ask
    <3> QED
      BY <3>2, <3>3
  <2> QED
    BY <1>7, <2>1, <2>2 DEF GetEvidence
<1>8. CASE UpdateStatus(r)
  BY <1>1, <1>8, FindServed, SaveServed DEF UpdateStatus
<1>9. CASE ToggleRule(r)
  <2>1. CASE Handles(r, "toggle", "found") /\ Ask(r, Pass(r, "set") /\ UNCHANGED lines)
    <3>1. CASE database
      BY <1>1, <2>1, <3>1, StepServed DEF Ask, RequestSteps
    <3>2. CASE ~database
      BY <1>1, <2>1, <3>2, FailureServed DEF Ask
    <3> QED
      BY <3>1, <3>2
  <2> QED
    BY <1>1, <1>9, <2>1, FindServed DEF ToggleRule
<1>10. CASE EnrichNow(r)
  <2>1. CASE /\ Handles(r, "enrich", "found")
             /\ Ask(r, \/ Pass(r, "stored") /\ UNCHANGED lines
                       \/ row /\ Pass(r, "enriched") /\ lines' = Logged(r, {"audit"}))
    <3>1. CASE database
      BY <1>1, <2>1, <3>1, StepServed DEF Ask, RequestSteps
    <3>2. CASE ~database
      BY <1>1, <2>1, <3>2, FailureServed DEF Ask
    <3> QED
      BY <3>1, <3>2
  <2> QED
    BY <1>1, <1>10, <2>1, FindServed, SaveServed DEF EnrichNow
<1> QED
  BY <1>2, <1>3, <1>4, <1>5, <1>6, <1>7, <1>8, <1>9, <1>10 DEF Serve

LEMMA RequestsStep ==
  ASSUME RequestsInv, [RequestsNext]_requests
  PROVE  RequestsInv'
<1>1. CASE TracingNext /\ UNCHANGED <<call, answer, row, database, built, faults, seen>>
  <2>1. TracingInv' /\ RequestsTypeOK'
    BY <1>1, TracingStep DEF RequestsInv, RequestsTypeOK
  <2>2. SeenGoesOn
    BY <1>1 DEF SeenGoesOn
  <2>3. \A r \in Requests : at'[r] = at[r] /\ idOf'[r] = idOf[r]
    BY <1>1, FindersAlone DEF RequestsInv
  <2>4. ASSUME NEW r \in Requests PROVE Sound(r)'
    BY <1>1, <2>2, <2>3, OthersStaySound
  <2> QED
    BY <2>1, <2>4 DEF RequestsInv
<1>2. ASSUME NEW r \in Requests, Receive(r) \/ Admit(r) \/ Serve(r) PROVE RequestsInv'
  BY <1>2, ReceiveServed, AdmitServed, ServeServed
<1>3. CASE Change
  <2>1. row' \in BOOLEAN /\ database' \in BOOLEAN /\ built' \in BOOLEAN
    <3>1. row \in BOOLEAN /\ database \in BOOLEAN /\ built \in BOOLEAN
      BY DEF RequestsInv, RequestsTypeOK
    <3> QED
      BY <1>3, <3>1, Zenon DEF Change
  <2>2. SeenGoesOn /\ UNCHANGED <<tracing, call, answer>>
    BY <1>3, <2>1 DEF SeenGoesOn, Change
  <2>3. TracingInv'
    BY <2>2 DEF RequestsInv, TracingInv, tracing, TracingTypeOK, InScope, InQueue, Minted, Told
  <2>4. ASSUME NEW r \in Requests PROVE Sound(r)'
    BY <2>2, OthersStaySound DEF tracing
  <2>5. RequestsTypeOK'
    <3>1. seen' \in [Requests -> SUBSET [row : BOOLEAN, database : BOOLEAN]]
      <4>1. seen' = Meanwhile
        BY <1>3 DEF Change
      <4>2. seen \in [Requests -> SUBSET [row : BOOLEAN, database : BOOLEAN]]
        BY DEF RequestsInv, RequestsTypeOK
      <4> DEFINE now == [row |-> row', database |-> database']
      <4>3. now \in [row : BOOLEAN, database : BOOLEAN]
        BY <2>1
      <4> HIDE DEF now
      <4>4. Meanwhile = [q \in Requests |-> IF at[q] = "idle" THEN seen[q] ELSE seen[q] \cup {now}]
        BY DEF Meanwhile, now
      <4> QED
        BY <4>1, <4>2, <4>3, <4>4
    <3> QED
      BY <2>1, <2>2, <3>1 DEF RequestsInv, RequestsTypeOK
  <2> QED
    BY <2>3, <2>4, <2>5 DEF RequestsInv
<1>4. CASE UNCHANGED requests
  <2>1. UNCHANGED <<current, about, at, minted, fired, queue, lines, idOf>>
    BY <1>4 DEF requests, tracing
  <2>2. TracingInv'
    BY <2>1 DEF RequestsInv, TracingInv, TracingTypeOK, InScope, InQueue, Minted, Told
  <2>3. SeenGoesOn /\ RequestsTypeOK' /\ UNCHANGED <<call, answer>>
    BY <1>4 DEF SeenGoesOn, requests, RequestsInv, RequestsTypeOK
  <2>4. ASSUME NEW r \in Requests PROVE Sound(r)'
    BY <2>1, <2>3, OthersStaySound
  <2> QED
    BY <2>2, <2>3, <2>4 DEF RequestsInv
<1> QED
  BY <1>1, <1>2, <1>3, <1>4 DEF RequestsNext

(* An answer is true of some moment of its request.                        *)
THEOREM AnswersAreTrue == RequestsSpec => []AnswersFit
<1>1. RequestsInv => AnswersFit
  BY DEF RequestsInv, Sound, InChain, AnswersFit
<1> QED
  BY RequestsStart, RequestsStep, <1>1, PTL DEF RequestsSpec

(* Every line of a job carries the id it began with, and ids are shared    *)
(* only by requests that brought them.                                     *)
LEMMA IdsTellApart == TracingInv => LinesAreTraced
<1> SUFFICES ASSUME TracingInv PROVE LinesAreTraced
  OBVIOUS
<1>1. \A line \in lines :
         IF line.stream = "failure" THEN line.id = None ELSE line.id = idOf[line.job]
  BY DEF TracingInv, Told
<1>2. ASSUME NEW i \in Jobs, NEW j \in Jobs, i # j, idOf[i] # None, idOf[i] = idOf[j]
      PROVE  {i, j} \subseteq Requests /\ idOf[i] = Client
  <2>1. idOf[i] \in Tags /\ idOf[i] \notin Nat
    BY <1>2 DEF TracingInv, TracingTypeOK, Minted
  <2>2. idOf[i] = Client /\ idOf[j] = Client
    BY <1>2, <2>1 DEF Tags
  <2> QED
    BY <1>2, <2>2 DEF TracingInv, Minted, Jobs
<1> QED
  BY <1>1, <1>2 DEF LinesAreTraced

THEOREM IdsFollowJobs == RequestsSpec => []LinesAreTraced
<1>1. RequestsInv => LinesAreTraced
  BY IdsTellApart DEF RequestsInv
<1> QED
  BY RequestsStart, RequestsStep, <1>1, PTL DEF RequestsSpec

-----------------------------------------------------------------------------
(* The log.                                                                *)

(* The loggers are as the first setup left them, and the lines are what    *)
(* their handlers made of the record.                                      *)
LoggingInv ==
    /\ settings \in {"absent", "broken", "files"} /\ process \in Services
    /\ setups \in Nat
    /\ setups > 0 => handlers = [l \in Loggers |-> HandlersOf(l)] /\ service = process
    /\ written # <<>> =>
         /\ setups > 0 /\ record \in Records
         /\ written = [i \in DOMAIN HandlersOf(record.logger) |->
                         Format(record, HandlersOf(record.logger)[i])]

LEMMA LoggingStart == LoggingInit => LoggingInv
BY DEF LoggingInit, LoggingInv

LEMMA LoggingStep == LoggingInv /\ [LoggingNext]_logging => LoggingInv'
<1> SUFFICES ASSUME LoggingInv, [LoggingNext]_logging PROVE LoggingInv'
  OBVIOUS
<1>1. CASE SetupLogging
  <2>1. /\ UNCHANGED <<settings, process, record, written>> /\ setups' = setups + 1
        /\ IF setups > 0 THEN UNCHANGED <<handlers, service>>
           ELSE handlers' = [l \in Loggers |-> HandlersOf(l)] /\ service' = process
    BY <1>1 DEF SetupLogging
  <2>2. handlers' = [l \in Loggers |-> HandlersOf(l)] /\ service' = process
    BY <2>1 DEF LoggingInv
  <2>3. \A l : HandlersOf(l)' = HandlersOf(l)
    BY <2>1 DEF HandlersOf
  <2>4. CASE written = <<>>
    BY <2>1, <2>2, <2>3, <2>4 DEF LoggingInv
  <2>5. CASE written # <<>>
    <3>1. setups > 0 /\ service' = service /\ UNCHANGED <<record, written>>
      BY <2>1, <2>5 DEF LoggingInv
    <3>2. \A r, h : Format(r, h)' = Format(r, h)
      BY <3>1 DEF Format
    <3> QED
      BY <2>1, <2>2, <2>3, <2>5, <3>1, <3>2 DEF LoggingInv
  <2> QED
    BY <2>4, <2>5
<1>2. CASE WriteRecord
  <2>1. /\ setups > 0 /\ UNCHANGED <<settings, process, setups, handlers, service>>
        /\ record' \in Records
        /\ written' = [i \in DOMAIN handlers[record'.logger] |->
                         Format(record', handlers[record'.logger][i])]
    BY <1>2 DEF WriteRecord
  <2>2. \A l : HandlersOf(l)' = HandlersOf(l)
    BY <2>1 DEF HandlersOf
  <2>3. \A r, h : Format(r, h)' = Format(r, h)
    BY <2>1 DEF Format
  <2>4. record'.logger \in Loggers
    BY <2>1 DEF Records
  <2>5. handlers[record'.logger] = HandlersOf(record'.logger)
    BY <2>1, <2>4 DEF LoggingInv
  <2> QED
    BY <2>1, <2>2, <2>3, <2>5 DEF LoggingInv
<1>3. CASE UNCHANGED logging
  BY <1>3 DEF logging, LoggingInv, HandlersOf, Format
<1> QED
  BY <1>1, <1>2, <1>3 DEF LoggingNext

(* A pattern changes the word after one it knows, and no other.            *)
LEMMA WordsAfter ==
  ASSUME NEW text, NEW words
  PROVE  /\ DOMAIN After(text, words) = DOMAIN text
         /\ \A i \in DOMAIN text :
              After(text, words)[i] = IF i > 1 /\ text[i - 1] \in words THEN Redacted ELSE text[i]
BY DEF After

(* No pattern leaves a credential after the word it knows.                 *)
LEMMA TextsRedacted ==
  ASSUME NEW text \in Messages
  PROVE  ~SecretIn(RedactText(text))
<1> DEFINE a == After(text, {"Bearer"})
           b == After(a, {"scheme://user:"})
           c == After(b, {"Authorization:", "api_key="})
<1>1. /\ DOMAIN a = DOMAIN text /\ DOMAIN b = DOMAIN text /\ DOMAIN c = DOMAIN text
      /\ \A i \in DOMAIN text :
           /\ a[i] = IF i > 1 /\ text[i - 1] = "Bearer" THEN Redacted ELSE text[i]
           /\ b[i] = IF i > 1 /\ a[i - 1] = "scheme://user:" THEN Redacted ELSE a[i]
           /\ c[i] = IF i > 1 /\ b[i - 1] \in {"Authorization:", "api_key="} THEN Redacted ELSE b[i]
  <2>1. DOMAIN a = DOMAIN text /\ DOMAIN b = DOMAIN text /\ DOMAIN c = DOMAIN text
    BY WordsAfter
  <2> QED
    BY <2>1, WordsAfter
<1> HIDE DEF a, b, c
<1>2. (\A i \in DOMAIN text : c[i] # "SECRET") => ~SecretIn(RedactText(text))
  BY <1>1 DEF SecretIn, RedactText, a, b, c
<1>3. CASE text = <<"plain">>
  BY <1>1, <1>2, <1>3
<1>4. CASE text = <<"Bearer", "SECRET">>
  <2>1. DOMAIN text = {1, 2}
    BY <1>4
  <2>2. a[1] = "Bearer" /\ a[2] = Redacted
    BY <1>1, <1>4, <2>1
  <2> QED
    BY <1>1, <1>2, <2>1, <2>2 DEF Redacted
<1>5. CASE text = <<"Authorization:", "Bearer", "SECRET">>
  <2>1. DOMAIN text = {1, 2, 3}
    BY <1>5
  <2>2. a[1] = "Authorization:" /\ a[2] = "Bearer" /\ a[3] = Redacted
    BY <1>1, <1>5, <2>1
  <2> QED
    BY <1>1, <1>2, <2>1, <2>2 DEF Redacted
<1>6. CASE text = <<"api_key=", "SECRET", "plain">>
  <2>1. DOMAIN text = {1, 2, 3}
    BY <1>6
  <2>2. a[1] = "api_key=" /\ a[2] = "SECRET" /\ a[3] = "plain"
    BY <1>1, <1>6, <2>1
  <2>3. b[1] = "api_key=" /\ b[2] = "SECRET" /\ b[3] = "plain"
    BY <1>1, <2>1, <2>2
  <2> QED
    BY <1>1, <1>2, <2>1, <2>3 DEF Redacted
<1>7. CASE text = <<"scheme://user:", "SECRET", "@host">>
  <2>1. DOMAIN text = {1, 2, 3}
    BY <1>7
  <2>2. a[1] = "scheme://user:" /\ a[2] = "SECRET" /\ a[3] = "@host"
    BY <1>1, <1>7, <2>1
  <2>3. b[1] = "scheme://user:" /\ b[2] = Redacted /\ b[3] = "@host"
    BY <1>1, <2>1, <2>2 DEF Redacted
  <2> QED
    BY <1>1, <1>2, <2>1, <2>3 DEF Redacted
<1> QED
  BY <1>3, <1>4, <1>5, <1>6, <1>7 DEF Messages

LEMMA ExtrasRedacted ==
  ASSUME NEW extra \in Extras, SecretIn(RedactExtra(extra))
  PROVE  extra.depth >= MaxDepth
<1>1. CASE extra.text \in Messages /\ extra.depth \in {0, 1, MaxDepth - 1, MaxDepth}
  <2>1. ~SecretIn(<<Redacted>>)
    BY DEF SecretIn, Redacted
  <2>2. ~SecretIn(RedactText(extra.text))
    BY <1>1, TextsRedacted
  <2> QED
    BY <1>1, <2>1, <2>2 DEF RedactExtra, MaxDepth
<1>2. CASE extra.sensitive \in {0, 1}
  <2>1. RedactExtra(extra) = <<Redacted>>
    BY <1>2 DEF RedactExtra, MaxDepth
  <2> QED
    BY <2>1 DEF SecretIn, Redacted
<1> QED
  BY <1>1, <1>2 DEF Extras

(* A record is one line a handler of its own, without a credential.        *)
LEMMA RecordsAreClean == LoggingInv => LogsAreClean
<1> SUFFICES ASSUME LoggingInv, written # <<>>
             PROVE  /\ [i \in DOMAIN written |-> written[i].to]
                         = IF settings = "files" THEN <<"console", record.logger>> ELSE <<"console">>
                    /\ \A i \in DOMAIN written :
                         /\ ~SecretIn(written[i].message) /\ ~SecretIn(written[i].error)
                         /\ SecretIn(written[i].extra) => record.extra.depth >= MaxDepth
                         /\ record.service = "none" => written[i].service = process
  BY DEF LogsAreClean
<1> DEFINE hs == HandlersOf(record.logger)
<1>1. /\ record \in Records /\ service = process
      /\ written = [i \in DOMAIN hs |-> Format(record, hs[i])]
  BY DEF LoggingInv
<1>2. record.message \in Messages /\ record.error \in Messages /\ record.extra \in Extras
  BY <1>1 DEF Records
<1>3. [i \in DOMAIN written |-> written[i].to] = hs
  <2>1. \A h : Format(record, h).to = h
    BY DEF Format
  <2>2. hs = [i \in DOMAIN hs |-> hs[i]]
    BY DEF HandlersOf
  <2> HIDE DEF hs
  <2> QED
    BY <1>1, <2>1, <2>2
<1>4. ASSUME NEW i \in DOMAIN written
      PROVE  /\ ~SecretIn(written[i].message) /\ ~SecretIn(written[i].error)
             /\ SecretIn(written[i].extra) => record.extra.depth >= MaxDepth
             /\ record.service = "none" => written[i].service = process
  <2>1. written[i] = Format(record, hs[i])
    BY <1>1
  <2> HIDE DEF hs
  <2> QED
    BY <1>1, <1>2, <2>1, TextsRedacted, ExtrasRedacted DEF Format
<1> QED
  BY <1>3, <1>4 DEF HandlersOf

(* What is written shows no credential after a word the redaction knows,   *)
(* whatever is logged and however often logging is set up.                 *)
THEOREM LogsStayClean == LoggingInit /\ [][LoggingNext]_logging => []LogsAreClean
BY LoggingStart, LoggingStep, RecordsAreClean, PTL

-----------------------------------------------------------------------------
(* The configuration.                                                      *)

(* What a text becomes where its type takes it.                            *)
LEMMA TextsAreMeant ==
  ASSUME NEW k \in Kinds, NEW text \in Texts, ~Raises(k, text), Accepts(k, Coerce(k, text))
  PROVE  Validated(k, Coerce(k, text)) = Meant(k, text)
<1> USE DEF Kinds, Texts, Raises, Accepts, Coerce, CoerceCollection, Validated, Meant, Value, Default
<1>1. CASE k = "str"
  BY <1>1
<1>2. CASE k = "int"
  BY <1>2
<1>3. CASE k = "bool"
  BY <1>3
<1>4. CASE k = "list"
  <2>1. \A t \in Texts : Coerce(k, t).is = t
    BY <1>4
  <2> QED
    BY <1>4, <2>1
<1> QED
  BY <1>1, <1>2, <1>3, <1>4

LEMMA ValuesAreTyped ==
  ASSUME NEW k \in Kinds, NEW v \in FileValues, Accepts(k, v)
  PROVE  Validated(k, v) # Default /\ Validated(k, v).type = k
BY DEF Kinds, FileValues, Accepts, Validated, Value, Default

----------------------------------------------------------------------------
IsEnvironment(env) ==
    /\ DOMAIN env = {"key", "url", "secret", "section"}
    /\ env.key \in Given /\ env.url \in {Unset, "env", "dotenv"}
    /\ env.secret \in {Unset, "blank", "secret", "hidden"}

(* The configuration the layers make.                                      *)
Layered(key, url, secret) ==
    [key |-> Validated(kind, IF key # Unset THEN Coerce(kind, key) ELSE file.key),
     url |-> IF secret \notin {Unset, "blank"} THEN Value("str", secret)
             ELSE IF url # Unset THEN Value("str", url) ELSE file.url]

(* A configuration that stands is what the layers make, of the environment *)
(* as it was heard; later loads hear the same, but for what .env adds.     *)
ConfigurationInv ==
    /\ kind \in Kinds /\ file \in Contents \cup {Broken} /\ dotenv \in DotEnvs
    /\ IsEnvironment(environ) /\ read \in BOOLEAN
    /\ verdict \in {"none", "loaded", "refused", "crashed"}
    /\ verdict = "none" => config = NoConfig
    /\ verdict = "loaded" =>
         /\ IsEnvironment(heard) /\ read /\ file # Broken
         /\ heard.key # Unset =>
              ~Raises(kind, heard.key) /\ Accepts(kind, Coerce(kind, heard.key))
         /\ heard.key = Unset => Accepts(kind, file.key)
         /\ config = Layered(heard.key, heard.url, environ.secret)
         /\ dotenv.key = Unset => heard.key = environ.key
         /\ dotenv.url = Unset => heard.url = environ.url
         /\ before # NoConfig /\ config # before => dotenv.key # Unset \/ dotenv.url # Unset

LEMMA LayersHold == ConfigurationInv => LayersRespected
<1> SUFFICES ASSUME ConfigurationInv, verdict = "loaded"
             PROVE  /\ heard.key # Unset => config.key = Meant(kind, heard.key)
                    /\ heard.key = Unset /\ file.key # Default =>
                         config.key # Default /\ config.key.type = kind
                    /\ LET url == <<Secret(environ), heard.url>>
                       IN  \/ url[1] # Unset /\ config.url.is = url[1]
                           \/ url[1] = Unset /\ url[2] # Unset /\ config.url.is = url[2]
                           \/ url = <<Unset, Unset>> /\ config.url = file.url
                    /\ before # NoConfig /\ config # before => dotenv.key # Unset \/ dotenv.url # Unset
  BY Zenon DEF LayersRespected
<1>1. /\ kind \in Kinds /\ file \in Contents /\ IsEnvironment(environ) /\ IsEnvironment(heard)
      /\ config = Layered(heard.key, heard.url, environ.secret)
  BY DEF ConfigurationInv
<1>2. heard.key # Unset => config.key = Meant(kind, heard.key)
  <2> SUFFICES ASSUME heard.key # Unset PROVE config.key = Meant(kind, heard.key)
    OBVIOUS
  <2>1. /\ heard.key \in Texts /\ ~Raises(kind, heard.key)
        /\ Accepts(kind, Coerce(kind, heard.key))
    BY <1>1 DEF ConfigurationInv, IsEnvironment, Given
  <2>2. config.key = Validated(kind, Coerce(kind, heard.key))
    BY <1>1 DEF Layered
  <2> QED
    BY <1>1, <2>1, <2>2, TextsAreMeant
<1>3. heard.key = Unset /\ file.key # Default => config.key # Default /\ config.key.type = kind
  <2> SUFFICES ASSUME heard.key = Unset, file.key # Default
               PROVE  config.key # Default /\ config.key.type = kind
    OBVIOUS
  <2>1. file.key \in FileValues /\ Accepts(kind, file.key)
    BY <1>1 DEF ConfigurationInv, Contents
  <2>2. config.key = Validated(kind, file.key)
    BY <1>1 DEF Layered
  <2> QED
    BY <1>1, <2>1, <2>2, ValuesAreTyped
<1>4. config.url = IF environ.secret \notin {Unset, "blank"} THEN Value("str", environ.secret)
                   ELSE IF heard.url # Unset THEN Value("str", heard.url) ELSE file.url
  BY <1>1 DEF Layered
<1>5. Secret(environ) = IF environ.secret \in {Unset, "blank"} THEN Unset ELSE environ.secret
  BY DEF Secret
<1>6. LET url == <<Secret(environ), heard.url>>
      IN  \/ url[1] # Unset /\ config.url.is = url[1]
          \/ url[1] = Unset /\ url[2] # Unset /\ config.url.is = url[2]
          \/ url = <<Unset, Unset>> /\ config.url = file.url
  BY <1>4, <1>5 DEF Value
<1>7. before # NoConfig /\ config # before => dotenv.key # Unset \/ dotenv.url # Unset
  BY Zenon DEF ConfigurationInv
<1> QED
  BY <1>2, <1>3, <1>6, <1>7, Zenon

LEMMA ConfigurationStart == ConfigurationInit => ConfigurationInv
<1> SUFFICES ASSUME ConfigurationInit PROVE ConfigurationInv
  OBVIOUS
<1>1. environ \in Environments
  BY DEF ConfigurationInit
<1>2. IsEnvironment(environ)
  BY <1>1 DEF Environments, IsEnvironment, Given
<1> QED
  BY <1>2 DEF ConfigurationInit, ConfigurationInv

(* .env adds what is not there, the first time.                            *)
LEMMA EnvIsLoaded ==
  ASSUME dotenv \in DotEnvs, NEW env, IsEnvironment(env)
  PROVE  /\ IsEnvironment(LoadEnv(env))
         /\ dotenv.key = Unset => LoadEnv(env).key = env.key
         /\ dotenv.url = Unset => LoadEnv(env).url = env.url
         /\ read => LoadEnv(env) = env
<1>1. CASE read
  BY <1>1 DEF LoadEnv
<1>2. CASE ~read
  <2> DEFINE e == [n \in DOMAIN env |-> IF n \in DOMAIN dotenv /\ env[n] = Unset THEN dotenv[n] ELSE env[n]]
  <2>1. LoadEnv(env) = e
    BY <1>2 DEF LoadEnv
  <2>2. DOMAIN dotenv = {"key", "url", "secret"}
        /\ dotenv.key \in {Unset, "80"} /\ dotenv.url \in {Unset, "dotenv"}
        /\ dotenv.secret \in {Unset, "hidden"}
    BY DEF DotEnvs
  <2>3. DOMAIN env = {"key", "url", "secret", "section"}
    BY DEF IsEnvironment
  <2>4. /\ DOMAIN e = {"key", "url", "secret", "section"}
        /\ e.key = (IF env.key = Unset THEN dotenv.key ELSE env.key)
        /\ e.url = (IF env.url = Unset THEN dotenv.url ELSE env.url)
        /\ e.secret = (IF env.secret = Unset THEN dotenv.secret ELSE env.secret)
    BY <2>2, <2>3
  <2> HIDE DEF e
  <2> QED
    BY <1>2, <2>1, <2>2, <2>4 DEF IsEnvironment, Given, Texts
<1> QED
  BY <1>1, <1>2

LEMMA ConfigurationStep == ConfigurationInv /\ [ConfigurationNext]_configuration => ConfigurationInv'
<1> SUFFICES ASSUME ConfigurationInv, [ConfigurationNext]_configuration PROVE ConfigurationInv'
  OBVIOUS
<1>1. CASE LoadAppConfig
  <2>1. /\ verdict \notin {"refused", "crashed"} /\ verdict' = Outcome /\ heard' = environ
        /\ UNCHANGED <<kind, file, dotenv>>
    BY <1>1 DEF LoadAppConfig
  <2>2. Outcome \in {"refused", "crashed", "loaded"}
    BY DEF Outcome
  <2>3. CASE Outcome # "loaded"
    <3>1. UNCHANGED <<environ, read, config, before>>
      BY <1>1, <2>1, <2>3 DEF LoadAppConfig
    <3> QED
      BY <2>1, <2>2, <2>3, <3>1 DEF ConfigurationInv
  <2>4. CASE Outcome = "loaded"
    <3> DEFINE env == LoadEnv(environ)
               merged == ApplyOverrides(environ)
    <3>1. /\ environ' = env /\ read' = TRUE /\ before' = config
          /\ config' = [key |-> Validated(kind, merged.key),
                        url |-> IF Secret(env) # Unset THEN Value("str", Secret(env)) ELSE merged.url]
      BY <1>1, <2>1, <2>4 DEF LoadAppConfig
    <3>2. /\ IsEnvironment(env)
          /\ dotenv.key = Unset => env.key = environ.key
          /\ dotenv.url = Unset => env.url = environ.url
          /\ read => env = environ
      BY EnvIsLoaded DEF ConfigurationInv
    <3>3. /\ file # Broken /\ ~CollectRaises(environ) /\ Accepts(kind, merged.key)
      BY <2>4, Zenon DEF Outcome
    <3>4. /\ merged.key = (IF environ.key # Unset THEN Coerce(kind, environ.key) ELSE file.key)
          /\ merged.url = (IF environ.url # Unset THEN Value("str", environ.url) ELSE file.url)
      BY DEF ApplyOverrides
    <3> HIDE DEF env, merged
    <3>5. IsEnvironment(environ) /\ kind \in Kinds
      BY DEF ConfigurationInv
    <3>6. /\ environ.key # Unset => ~Raises(kind, environ.key) /\ Accepts(kind, Coerce(kind, environ.key))
          /\ environ.key = Unset => Accepts(kind, file.key)
      BY <3>3, <3>4 DEF CollectRaises
    <3>7. (Secret(env) # Unset) = (env.secret \notin {Unset, "blank"})
          /\ (Secret(env) # Unset => Secret(env) = env.secret)
      BY DEF Secret, Unset
    <3>8. config' = Layered(environ.key, environ.url, env.secret)
      BY <3>1, <3>4, <3>7 DEF Layered
    <3>9. config # NoConfig /\ dotenv.key = Unset /\ dotenv.url = Unset => config' = config
      <4> SUFFICES ASSUME config # NoConfig, dotenv.key = Unset, dotenv.url = Unset
                   PROVE  config' = config
        OBVIOUS
      <4>1. verdict = "loaded"
        BY <2>1 DEF ConfigurationInv
      <4>2. /\ config = Layered(heard.key, heard.url, environ.secret)
            /\ heard.key = environ.key /\ heard.url = environ.url /\ read
        BY <4>1 DEF ConfigurationInv
      <4> QED
        BY <3>2, <3>8, <4>2
    <3>10. Layered(heard.key, heard.url, environ.secret)' = Layered(environ.key, environ.url, env.secret)
      BY <2>1, <3>1 DEF Layered
    <3> QED
      BY <2>1, <2>4, <3>1, <3>2, <3>3, <3>5, <3>6, <3>8, <3>9, <3>10 DEF ConfigurationInv
  <2> QED
    BY <2>3, <2>4
<1>2. CASE LoadRateLimitConfig
  BY <1>2 DEF LoadRateLimitConfig, ConfigurationInv
<1>3. CASE EditFile
  <2>1. /\ file' \in {Broken, [key |-> Default, url |-> Default]}
        /\ config' = NoConfig /\ verdict' = "none"
        /\ UNCHANGED <<kind, dotenv, environ, read>>
    BY <1>3 DEF EditFile
  <2>2. file' \in Contents \cup {Broken}
    BY <2>1 DEF Contents
  <2> QED
    BY <2>1, <2>2 DEF ConfigurationInv
<1>4. CASE UNCHANGED configuration
  BY <1>4 DEF configuration, ConfigurationInv, Layered
<1> QED
  BY <1>1, <1>2, <1>3, <1>4 DEF ConfigurationNext

(* The highest layer that names a setting gives it its value, at every     *)
(* load.                                                                   *)
THEOREM HighestLayerWins == ConfigurationSpec => []LayersRespected
BY ConfigurationStart, ConfigurationStep, LayersHold, PTL DEF ConfigurationSpec

-----------------------------------------------------------------------------
(* The schema of the database.                                             *)

Distinct(s) == \A i, j \in DOMAIN s : s[i] = s[j] => i = j

LEMMA ConcatenationsAre ==
  ASSUME NEW S, NEW s \in Seq(S), NEW t \in Seq(S),
         Distinct(s), Distinct(t), ToSet(s) \cap ToSet(t) = {}
  PROVE  s \o t \in Seq(S) /\ Distinct(s \o t) /\ ToSet(s \o t) = ToSet(s) \cup ToSet(t)
<1>1. /\ s \o t \in Seq(S) /\ Len(s) \in Nat /\ Len(t) \in Nat
      /\ Len(s \o t) = Len(s) + Len(t)
      /\ DOMAIN s = 1 .. Len(s) /\ DOMAIN t = 1 .. Len(t)
      /\ DOMAIN (s \o t) = 1 .. Len(s) + Len(t)
      /\ \A i \in 1 .. Len(s) + Len(t) :
           (s \o t)[i] = IF i <= Len(s) THEN s[i] ELSE t[i - Len(s)]
  OBVIOUS
<1> DEFINE u == s \o t
<1>2. \A i \in 1 .. Len(s) + Len(t) :
        /\ i <= Len(s) => i \in DOMAIN s /\ u[i] = s[i] /\ u[i] \in ToSet(s)
        /\ ~(i <= Len(s)) => i - Len(s) \in DOMAIN t /\ u[i] = t[i - Len(s)] /\ u[i] \in ToSet(t)
  BY <1>1 DEF ToSet
<1>3. \A i \in DOMAIN s : i \in DOMAIN u /\ u[i] = s[i]
  BY <1>1
<1>4. \A i \in DOMAIN t : i + Len(s) \in DOMAIN u /\ u[i + Len(s)] = t[i]
  BY <1>1
<1>5. DOMAIN u = 1 .. Len(s) + Len(t)
  BY <1>1
<1> HIDE DEF u
<1>6. Distinct(u)
  <2> SUFFICES ASSUME NEW i \in 1 .. Len(s) + Len(t), NEW j \in 1 .. Len(s) + Len(t), u[i] = u[j]
               PROVE  i = j
    BY <1>5 DEF Distinct
  <2>1. (i <= Len(s)) = (j <= Len(s))
    BY <1>2
  <2>2. CASE i <= Len(s)
    BY <1>2, <2>1, <2>2 DEF Distinct
  <2>3. CASE ~(i <= Len(s))
    <3>1. i - Len(s) = j - Len(s)
      BY <1>2, <2>1, <2>3 DEF Distinct
    <3> QED
      BY <1>1, <3>1
  <2> QED
    BY <2>2, <2>3
<1>7. ToSet(u) = ToSet(s) \cup ToSet(t)
  <2>1. \A x \in ToSet(u) : x \in ToSet(s) \cup ToSet(t)
    BY <1>2, <1>5 DEF ToSet
  <2>2. \A x \in ToSet(s) \cup ToSet(t) : x \in ToSet(u)
    BY <1>3, <1>4 DEF ToSet
  <2> QED
    BY <2>1, <2>2
<1> QED
  BY <1>1, <1>6, <1>7 DEF u

(* What is left of a sequence of different things is one of different      *)
(* things, without the first.                                              *)
LEMMA TailsAre ==
  ASSUME NEW S, NEW s \in Seq(S), s # <<>>, Distinct(s)
  PROVE  /\ Head(s) \in S /\ Head(s) \in ToSet(s) /\ Head(s) = s[1]
         /\ Tail(s) \in Seq(S) /\ Distinct(Tail(s)) /\ Len(Tail(s)) < Len(s)
         /\ ToSet(Tail(s)) = ToSet(s) \ {Head(s)}
<1>1. /\ Head(s) = s[1] /\ Len(s) \in Nat \ {0} /\ DOMAIN s = 1 .. Len(s)
      /\ Tail(s) \in Seq(S) /\ Len(Tail(s)) = Len(s) - 1
      /\ DOMAIN Tail(s) = 1 .. (Len(s) - 1)
      /\ \A i \in 1 .. (Len(s) - 1) : Tail(s)[i] = s[i + 1]
      /\ s[1] \in S
  OBVIOUS
<1> DEFINE t == Tail(s)
<1>2. DOMAIN t = 1 .. (Len(s) - 1) /\ \A i \in 1 .. (Len(s) - 1) : t[i] = s[i + 1] /\ i + 1 \in DOMAIN s
  BY <1>1
<1>3. \A i \in DOMAIN s \ {1} : i - 1 \in DOMAIN t /\ t[i - 1] = s[i]
  BY <1>1
<1> HIDE DEF t
<1>4. Distinct(t)
  <2> SUFFICES ASSUME NEW i \in 1 .. (Len(s) - 1), NEW j \in 1 .. (Len(s) - 1), t[i] = t[j]
               PROVE  i = j
    BY <1>2 DEF Distinct
  <2>1. i + 1 = j + 1
    BY <1>2 DEF Distinct
  <2> QED
    BY <1>1, <2>1
<1>5. ToSet(t) = ToSet(s) \ {s[1]}
  <2>1. \A x \in ToSet(t) : x \in ToSet(s) /\ x # s[1]
    BY <1>1, <1>2 DEF ToSet, Distinct
  <2>2. \A x \in ToSet(s) : x # s[1] => x \in ToSet(t)
    BY <1>1, <1>3 DEF ToSet
  <2> QED
    BY <2>1, <2>2
<1>6. s[1] \in ToSet(s)
  BY <1>1 DEF ToSet
<1>7. Len(t) < Len(s)
  BY <1>1 DEF t
<1>8. Head(s) \in S /\ Head(s) = s[1] /\ Tail(s) = t /\ t \in Seq(S)
  BY <1>1 DEF t
<1> QED
  BY <1>4, <1>5, <1>6, <1>7, <1>8, Zenon

LEMMA ReversesAre ==
  ASSUME NEW S, NEW s \in Seq(S), Distinct(s)
  PROVE  Reverse(s) \in Seq(S) /\ Distinct(Reverse(s)) /\ ToSet(Reverse(s)) = ToSet(s)
<1>1. /\ Reverse(s) = [i \in 1 .. Len(s) |-> s[(Len(s) - i) + 1]]
      /\ Len(s) \in Nat /\ DOMAIN s = 1 .. Len(s) /\ \A i \in 1 .. Len(s) : s[i] \in S
  BY DEF Reverse
<1>2. \A i \in 1 .. Len(s) : (Len(s) - i) + 1 \in 1 .. Len(s) /\ (Len(s) - ((Len(s) - i) + 1)) + 1 = i
  BY <1>1
<1> DEFINE r == Reverse(s)
<1>3. DOMAIN r = 1 .. Len(s) /\ \A i \in 1 .. Len(s) : r[i] = s[(Len(s) - i) + 1] /\ r[i] \in S
  BY <1>1, <1>2
<1>4. r \in Seq(S)
  BY <1>1, <1>2
<1> HIDE DEF r
<1>5. Distinct(r)
  <2> SUFFICES ASSUME NEW i \in 1 .. Len(s), NEW j \in 1 .. Len(s), r[i] = r[j]
               PROVE  i = j
    BY <1>3 DEF Distinct
  <2>1. (Len(s) - i) + 1 = (Len(s) - j) + 1
    BY <1>1, <1>2, <1>3 DEF Distinct
  <2> QED
    BY <1>1, <2>1
<1>6. ToSet(r) = ToSet(s)
  <2>1. \A x \in ToSet(r) : x \in ToSet(s)
    BY <1>1, <1>2, <1>3 DEF ToSet
  <2>2. \A i \in 1 .. Len(s) : r[(Len(s) - i) + 1] = s[i]
    BY <1>2, <1>3
  <2>3. \A x \in ToSet(s) : x \in ToSet(r)
    BY <1>1, <1>2, <1>3, <2>2 DEF ToSet
  <2> QED
    BY <2>1, <2>3
<1> QED
  BY <1>4, <1>5, <1>6 DEF r

----------------------------------------------------------------------------
(* The things of one table: itself and its indexes.                        *)
TableThings(t) == {Thing(t, of) : of \in Declared[t].indexes \cup {<<>>}}

LEMMA ThingsOfTable ==
  ASSUME NEW i \in DOMAIN Upgrade, NEW t \in DOMAIN Declared, Upgrade[i].name = t,
         NEW indexes, indexes \in Seq(Declared[t].indexes), Upgrade[i].indexes = indexes,
         Distinct(indexes), <<>> \notin Declared[t].indexes, ToSet(indexes) = Declared[t].indexes
  PROVE  ThingsOf(i) \in Seq(TableThings(t)) /\ Distinct(ThingsOf(i)) /\ ToSet(ThingsOf(i)) = TableThings(t)
<1> DEFINE first == <<Thing(t, <<>>)>>
           rest == [k \in DOMAIN indexes |-> Thing(t, indexes[k])]
<1>1. ThingsOf(i) = first \o rest
  BY DEF ThingsOf
<1>2. \A x, y : Thing(t, x) = Thing(t, y) => x = y
  BY DEF Thing
<1>3. DOMAIN indexes = 1 .. Len(indexes) /\ Len(indexes) \in Nat
      /\ \A k \in DOMAIN indexes : indexes[k] \in Declared[t].indexes
  OBVIOUS
<1>4. rest \in Seq(TableThings(t)) /\ DOMAIN rest = DOMAIN indexes
  BY <1>3 DEF TableThings
<1>5. Distinct(rest)
  BY <1>2 DEF Distinct
<1>6. ToSet(rest) = {Thing(t, of) : of \in Declared[t].indexes}
  <2>1. \A x : x \in ToSet(rest) <=> \E k \in DOMAIN indexes : x = Thing(t, indexes[k])
    BY DEF ToSet
  <2>2. \A y : y \in Declared[t].indexes <=> \E k \in DOMAIN indexes : y = indexes[k]
    BY DEF ToSet
  <2> QED
    BY <2>1, <2>2
<1>7. first \in Seq(TableThings(t)) /\ Distinct(first) /\ ToSet(first) = {Thing(t, <<>>)}
  BY DEF TableThings, Distinct, ToSet
<1>8. ToSet(first) \cap ToSet(rest) = {}
  BY <1>2, <1>6, <1>7
<1>9. ToSet(first) \cup ToSet(rest) = TableThings(t)
  BY <1>6, <1>7 DEF TableThings
<1> HIDE DEF first, rest
<1>10. /\ first \o rest \in Seq(TableThings(t)) /\ Distinct(first \o rest)
       /\ ToSet(first \o rest) = ToSet(first) \cup ToSet(rest)
  <2> DEFINE S == TableThings(t)
  <2>1. first \in Seq(S) /\ rest \in Seq(S)
    BY <1>4, <1>7
  <2>2. Distinct(first) /\ Distinct(rest) /\ ToSet(first) \cap ToSet(rest) = {}
    BY <1>5, <1>7, <1>8
  <2>3. /\ first \o rest \in Seq(S) /\ Distinct(first \o rest)
        /\ ToSet(first \o rest) = ToSet(first) \cup ToSet(rest)
    <3> HIDE DEF S
    <3> QED
      BY <2>1, <2>2, ConcatenationsAre
  <2> QED
    BY <2>3
<1> QED
  BY <1>1, <1>9, <1>10

(* No name of a table or of an index is used twice.                        *)
LEMMA FirstTable ==
  ThingsOf(1) \in Seq(TableThings("alerts")) /\ Distinct(ThingsOf(1))
  /\ ToSet(ThingsOf(1)) = TableThings("alerts")
<1> DEFINE indexes ==
      <<<<"dst_ip">>, <<"rule_triggered">>, <<"severity", "timestamp">>, <<"src_ip">>,
        <<"src_ip", "timestamp">>, <<"status">>, <<"status", "timestamp">>, <<"timestamp">>>>
<1>1. 1 \in DOMAIN Upgrade /\ Upgrade[1].name = "alerts" /\ Upgrade[1].indexes = indexes
      /\ "alerts" \in DOMAIN Declared
  BY DEF Upgrade, Creates, Declared
<1>2. Declared["alerts"].indexes =
        {<<"timestamp">>, <<"rule_triggered">>, <<"src_ip">>, <<"dst_ip">>, <<"status">>,
         <<"severity", "timestamp">>, <<"status", "timestamp">>, <<"src_ip", "timestamp">>}
  BY DEF Declared, AlertRecord, Table
<1>3. Distinct(indexes)
  BY DEF Distinct
<1>4. indexes \in Seq(Declared["alerts"].indexes) /\ <<>> \notin Declared["alerts"].indexes
  BY <1>2
<1>5. ToSet(indexes) = Declared["alerts"].indexes
  BY <1>2 DEF ToSet
<1> HIDE DEF indexes
<1> QED
  BY <1>1, <1>3, <1>4, <1>5, ThingsOfTable

LEMMA SecondTable ==
  ThingsOf(2) \in Seq(TableThings("rules")) /\ Distinct(ThingsOf(2))
  /\ ToSet(ThingsOf(2)) = TableThings("rules")
<1> DEFINE indexes == <<<<"enabled">>>>
<1>1. 2 \in DOMAIN Upgrade /\ Upgrade[2].name = "rules" /\ Upgrade[2].indexes = indexes
      /\ "rules" \in DOMAIN Declared
  BY DEF Upgrade, Creates, Declared
<1>2. Declared["rules"].indexes = {<<"enabled">>}
  BY DEF Declared, RuleRecord, Table
<1>3. Distinct(indexes)
  BY DEF Distinct
<1>4. indexes \in Seq(Declared["rules"].indexes) /\ <<>> \notin Declared["rules"].indexes
  BY <1>2
<1>5. ToSet(indexes) = Declared["rules"].indexes
  BY <1>2 DEF ToSet
<1> HIDE DEF indexes
<1> QED
  BY <1>1, <1>3, <1>4, <1>5, ThingsOfTable

LEMMA ThirdTable ==
  ThingsOf(3) \in Seq(TableThings("statistics")) /\ Distinct(ThingsOf(3))
  /\ ToSet(ThingsOf(3)) = TableThings("statistics")
<1> DEFINE indexes == <<<<"captured_at">>>>
<1>1. 3 \in DOMAIN Upgrade /\ Upgrade[3].name = "statistics" /\ Upgrade[3].indexes = indexes
      /\ "statistics" \in DOMAIN Declared
  BY DEF Upgrade, Creates, Declared
<1>2. Declared["statistics"].indexes = {<<"captured_at">>}
  BY DEF Declared, StatisticsRecord, Table
<1>3. Distinct(indexes)
  BY DEF Distinct
<1>4. indexes \in Seq(Declared["statistics"].indexes) /\ <<>> \notin Declared["statistics"].indexes
  BY <1>2
<1>5. ToSet(indexes) = Declared["statistics"].indexes
  BY <1>2 DEF ToSet
<1> HIDE DEF indexes
<1> QED
  BY <1>1, <1>3, <1>4, <1>5, ThingsOfTable

LEMMA FourthTable ==
  ThingsOf(4) \in Seq(TableThings("threat_intel_cache")) /\ Distinct(ThingsOf(4))
  /\ ToSet(ThingsOf(4)) = TableThings("threat_intel_cache")
<1> DEFINE indexes == <<<<"expires_at">>, <<"provider", "ip", "unique">>>>
<1>1. 4 \in DOMAIN Upgrade /\ Upgrade[4].name = "threat_intel_cache" /\ Upgrade[4].indexes = indexes
      /\ "threat_intel_cache" \in DOMAIN Declared
  BY DEF Upgrade, Creates, Declared
<1>2. Declared["threat_intel_cache"].indexes = {<<"expires_at">>, <<"provider", "ip", "unique">>}
  BY DEF Declared, ThreatIntelCacheRecord, Table
<1>3. Distinct(indexes)
  BY DEF Distinct
<1>4. indexes \in Seq(Declared["threat_intel_cache"].indexes) /\ <<>> \notin Declared["threat_intel_cache"].indexes
  BY <1>2
<1>5. ToSet(indexes) = Declared["threat_intel_cache"].indexes
  BY <1>2 DEF ToSet
<1> HIDE DEF indexes
<1> QED
  BY <1>1, <1>3, <1>4, <1>5, ThingsOfTable

LEMMA FifthTable ==
  ThingsOf(5) \in Seq(TableThings("packets")) /\ Distinct(ThingsOf(5))
  /\ ToSet(ThingsOf(5)) = TableThings("packets")
<1> DEFINE indexes == <<<<"alert_id">>, <<"src_ip">>, <<"timestamp">>>>
<1>1. 5 \in DOMAIN Upgrade /\ Upgrade[5].name = "packets" /\ Upgrade[5].indexes = indexes
      /\ "packets" \in DOMAIN Declared
  BY DEF Upgrade, Creates, Declared
<1>2. Declared["packets"].indexes = {<<"alert_id">>, <<"src_ip">>, <<"timestamp">>}
  BY DEF Declared, PacketRecord, Table
<1>3. Distinct(indexes)
  BY DEF Distinct
<1>4. indexes \in Seq(Declared["packets"].indexes) /\ <<>> \notin Declared["packets"].indexes
  BY <1>2
<1>5. ToSet(indexes) = Declared["packets"].indexes
  BY <1>2 DEF ToSet
<1> HIDE DEF indexes
<1> QED
  BY <1>1, <1>3, <1>4, <1>5, ThingsOfTable

(* The things of different tables are different; together they are what is *)
(* declared.                                                               *)
LEMMA TablesAreApart ==
  ASSUME NEW t, NEW u, t # u
  PROVE  TableThings(t) \cap TableThings(u) = {}
BY DEF TableThings, Thing

LEMMA TablesAreAll ==
  DeclaredThings = TableThings("alerts") \cup TableThings("rules") \cup TableThings("statistics")
                     \cup TableThings("threat_intel_cache") \cup TableThings("packets")
<1>1. DOMAIN Declared = {"alerts", "packets", "rules", "threat_intel_cache", "statistics"}
  BY DEF Declared
<1>2. DeclaredThings = UNION {TableThings(t) : t \in DOMAIN Declared}
  BY DEF DeclaredThings, TableThings
<1> QED
  BY <1>1, <1>2

LEMMA WholeUpgrade ==
  /\ UpgradeThings \in Seq(DeclaredThings) /\ UpgradeThings # <<>>
  /\ Distinct(UpgradeThings) /\ ToSet(UpgradeThings) = DeclaredThings
<1> DEFINE A == TableThings("alerts")
           B == TableThings("rules")
           C == TableThings("statistics")
           D == TableThings("threat_intel_cache")
           E == TableThings("packets")
           two == ThingsOf(1) \o ThingsOf(2)
           three == two \o ThingsOf(3)
           four == three \o ThingsOf(4)
           five == four \o ThingsOf(5)
           Are(s, S) == s \in Seq(DeclaredThings) /\ Distinct(s) /\ ToSet(s) = S
<1>1. DeclaredThings = A \cup B \cup C \cup D \cup E
  BY TablesAreAll
<1>2. /\ A \cap B = {} /\ A \cap C = {} /\ A \cap D = {} /\ A \cap E = {}
      /\ B \cap C = {} /\ B \cap D = {} /\ B \cap E = {}
      /\ C \cap D = {} /\ C \cap E = {} /\ D \cap E = {}
  BY TablesAreApart
<1>3. /\ Are(ThingsOf(1), A) /\ Are(ThingsOf(2), B) /\ Are(ThingsOf(3), C)
      /\ Are(ThingsOf(4), D) /\ Are(ThingsOf(5), E)
  <2>1. \A S, s : S \subseteq DeclaredThings /\ s \in Seq(S) => s \in Seq(DeclaredThings)
    OBVIOUS
  <2>2. /\ A \subseteq DeclaredThings /\ B \subseteq DeclaredThings /\ C \subseteq DeclaredThings
        /\ D \subseteq DeclaredThings /\ E \subseteq DeclaredThings
    BY <1>1
  <2> QED
    BY <2>1, <2>2, FirstTable, SecondTable, ThirdTable, FourthTable, FifthTable, Zenon
<1>4. A \cup B = A \cup B /\ (A \cup B) \cap C = {} /\ (A \cup B \cup C) \cap D = {}
      /\ (A \cup B \cup C \cup D) \cap E = {}
  BY <1>2
<1>5. \A s, t, S, T : Are(s, S) /\ Are(t, T) /\ S \cap T = {} => Are(s \o t, S \cup T)
  BY ConcatenationsAre
<1>6. UpgradeThings = five
  BY DEF UpgradeThings
<1> HIDE DEF A, B, C, D, E, Are
<1>8. Are(two, A \cup B)
  BY <1>2, <1>3, <1>5
<1>9. Are(three, A \cup B \cup C)
  <2> HIDE DEF two
  <2> QED
    BY <1>3, <1>4, <1>5, <1>8
<1>10. Are(four, A \cup B \cup C \cup D)
  <2> HIDE DEF three
  <2> QED
    BY <1>3, <1>4, <1>5, <1>9
<1>11. Are(five, A \cup B \cup C \cup D \cup E)
  <2> HIDE DEF four
  <2> QED
    BY <1>3, <1>4, <1>5, <1>10
<1>12. UpgradeThings # <<>>
  <2>1. Thing("alerts", <<>>) \in DeclaredThings
    BY TablesAreAll DEF TableThings
  <2>2. ToSet(<<>>) = {}
    BY DEF ToSet
  <2>3. ToSet(UpgradeThings) = DeclaredThings
    BY <1>1, <1>6, <1>11 DEF Are
  <2> QED
    BY <2>1, <2>2, <2>3
<1> QED
  BY <1>1, <1>6, <1>11, <1>12 DEF Are

LEMMA WholeDowngrade ==
  /\ Downgrade \in Seq(DeclaredThings) /\ Downgrade # <<>>
  /\ Distinct(Downgrade) /\ ToSet(Downgrade) = DeclaredThings
<1>1. /\ Downgrade \in Seq(DeclaredThings)
      /\ Distinct(Downgrade) /\ ToSet(Downgrade) = DeclaredThings
  BY WholeUpgrade, ReversesAre DEF Downgrade
<1>2. Len(Downgrade) = Len(UpgradeThings) /\ Len(UpgradeThings) # 0
  BY WholeUpgrade DEF Downgrade, Reverse
<1> QED
  BY <1>1, <1>2

(* The columns the revision creates are those that are declared.           *)
LEMMA ColumnsAreDeclared ==
  \A i \in DOMAIN Upgrade :
    LET t == Declared[Upgrade[i].name]
    IN  Upgrade[i].required = t.required /\ Upgrade[i].optional = t.optional
<1>1. DOMAIN Upgrade = 1 .. 5
  BY DEF Upgrade
<1>2. /\ Upgrade[1].name = "alerts" /\ Upgrade[2].name = "rules"
      /\ Upgrade[3].name = "statistics" /\ Upgrade[4].name = "threat_intel_cache"
      /\ Upgrade[5].name = "packets"
  BY DEF Upgrade, Creates
<1>3. /\ Upgrade[1].required = Declared["alerts"].required
      /\ Upgrade[1].optional = Declared["alerts"].optional
  BY DEF Upgrade, Creates, Declared, AlertRecord, Table
<1>4. /\ Upgrade[2].required = Declared["rules"].required
      /\ Upgrade[2].optional = Declared["rules"].optional
  BY DEF Upgrade, Creates, Declared, RuleRecord, Table
<1>5. /\ Upgrade[3].required = Declared["statistics"].required
      /\ Upgrade[3].optional = Declared["statistics"].optional
  BY DEF Upgrade, Creates, Declared, StatisticsRecord, Table
<1>6. /\ Upgrade[4].required = Declared["threat_intel_cache"].required
      /\ Upgrade[4].optional = Declared["threat_intel_cache"].optional
  BY DEF Upgrade, Creates, Declared, ThreatIntelCacheRecord, Table
<1>7. /\ Upgrade[5].required = Declared["packets"].required
      /\ Upgrade[5].optional = Declared["packets"].optional
  BY DEF Upgrade, Creates, Declared, PacketRecord, Table
<1> QED
  BY <1>1, <1>2, <1>3, <1>4, <1>5, <1>6, <1>7

----------------------------------------------------------------------------
(* A process that has executed a statement of its migration.               *)
Begun(p) == where[p] = "migrating" /\ left[p] # UpgradeThings

SchemaTypes ==
    /\ dialect \in {"sqlite", "postgresql"} /\ stamp \in BOOLEAN /\ deaths \in Nat
    /\ things \in SUBSET DeclaredThings
    /\ where \in [Actors -> {"down", "migrating", "up", "failed"}]
    /\ left \in [Actors -> Seq(DeclaredThings)] /\ done \in [Actors -> Seq(DeclaredThings)]
    /\ met \in [Processes -> BOOLEAN]

(* Only who migrates has something left, and a transaction.                *)
Statements ==
    /\ \A a \in Actors :
         /\ Distinct(left[a])
         /\ where[a] # "migrating" => left[a] = <<>> /\ done[a] = <<>>
         /\ dialect = "sqlite" => done[a] = <<>>
    /\ \A p \in Processes :
         where[p] = "migrating" /\ left[p] = UpgradeThings => done[p] = <<>>

(* The process that is under way is one, and has made what it no longer    *)
(* has to make.                                                            *)
Upgrading ==
    /\ \A p, q \in Processes : Begun(p) /\ Begun(q) => p = q
    /\ \A p \in Processes : Begun(p) =>
         /\ ~stamp /\ UpgradeThings[1] \notin ToSet(left[p])
         /\ dialect = "sqlite" => things = DeclaredThings \ ToSet(left[p])
         /\ dialect = "postgresql" => ToSet(done[p]) = DeclaredThings \ ToSet(left[p])

(* What the processes are, and what they know of one another.              *)
Standing ==
    \A p \in Processes :
      /\ where[p] = "up" => stamp
      /\ where[p] = "failed" => met[p]
      /\ where[p] = "migrating" =>
           /\ where[Operator] = "down"
           /\ met[p] \/ (/\ ~stamp /\ (Begun(p) \/ things = {})
                         /\ \A q \in Processes \ {p} : where[q] # "migrating")

(* The tables on PostgreSQL, where nothing is seen half done; and on       *)
(* SQLite, where the first table tells.                                    *)
TablesStand ==
    /\ dialect = "postgresql" => things = IF stamp THEN DeclaredThings ELSE {}
    /\ dialect = "sqlite" /\ ~stamp /\ things # {} =>
         UpgradeThings[1] \in things /\ (deaths > 0 \/ \E p \in Processes : Begun(p))
    /\ dialect = "sqlite" /\ stamp /\ where[Operator] # "migrating" =>
         things = DeclaredThings \/ (where[Operator] = "failed" /\ Downgrade[1] \notin things)

(* The way back begins where it is to end, and is cut off once.            *)
Downgrading ==
    /\ where[Operator] # "up" /\ (~stamp => where[Operator] = "down")
    /\ where[Operator] = "migrating" =>
         /\ \A p \in Processes : where[p] \in {"down", "failed"}
         /\ dialect = "postgresql" => ToSet(done[Operator]) = DeclaredThings \ ToSet(left[Operator])
         /\ dialect = "sqlite" =>
              /\ \/ things = ToSet(left[Operator])
                 \/ left[Operator] = Downgrade /\ Downgrade[1] \notin things
              /\ left[Operator] = Downgrade \/ Downgrade[1] \notin things

SchemaInv == SchemaTypes /\ Statements /\ Upgrading /\ Standing /\ TablesStand /\ Downgrading

LEMMA SchemaHolds == SchemaInv => SchemaIsWhole
<1> SUFFICES ASSUME SchemaInv PROVE SchemaIsWhole
  OBVIOUS
<1>1. stamp /\ where[Operator] # "migrating" =>
        things = DeclaredThings \/ (dialect = "sqlite" /\ where[Operator] = "failed")
  BY DEF SchemaInv, SchemaTypes, TablesStand
<1>2. \A p \in Processes :
        /\ where[p] = "up" /\ Serves(p) = "configured" => stamp
        /\ where[p] = "failed" => met[p]
  BY DEF SchemaInv, Standing
<1>3. HalfDone /\ (\A a \in Actors : where[a] # "migrating") => dialect = "sqlite" /\ deaths > 0
  BY DEF SchemaInv, SchemaTypes, TablesStand, HalfDone, Begun, Actors
<1> QED
  BY <1>1, <1>2, <1>3, ColumnsAreDeclared DEF SchemaIsWhole

LEMMA SchemaStart == SchemaInit => SchemaInv
<1> SUFFICES ASSUME SchemaInit PROVE SchemaInv
  OBVIOUS
<1> USE DEF SchemaInit
<1>0. \A a \in Actors : where[a] = "down" /\ left[a] = <<>> /\ done[a] = <<>>
  OBVIOUS
<1>1. SchemaTypes
  <2>1. <<>> \in Seq(DeclaredThings)
    OBVIOUS
  <2> QED
    BY <2>1 DEF SchemaTypes
<1>2. Statements
  <2>1. Distinct(<<>>)
    BY DEF Distinct
  <2> QED
    BY <1>0, <2>1 DEF Statements, Actors
<1>3. Upgrading /\ Standing
  BY <1>0 DEF Upgrading, Standing, Begun, Actors
<1>4. TablesStand /\ Downgrading
  BY <1>0 DEF TablesStand, Downgrading, Actors
<1> QED
  BY <1>1, <1>2, <1>3, <1>4 DEF SchemaInv

----------------------------------------------------------------------------
LEMMA StartDatabaseKeeps ==
  ASSUME SchemaInv, NEW p \in Processes, StartDatabase(p)
  PROVE  SchemaInv'
<1>1. /\ p \in Actors /\ Operator \in Actors /\ p # Operator /\ Processes \subseteq Actors
  BY SchemaAssumption DEF Actors
<1>2. /\ where[p] \in {"down", "failed"} /\ where[Operator] # "migrating"
      /\ UNCHANGED <<dialect, things, stamp, done, deaths>>
  BY DEF StartDatabase
<1>3. CASE stamp
  <2>1. where' = [where EXCEPT ![p] = "up"] /\ UNCHANGED <<left, met>>
    BY <1>3 DEF StartDatabase
  <2>2. where'[p] = "up" /\ \A a \in Actors \ {p} : where'[a] = where[a]
    BY <1>1, <2>1 DEF SchemaInv, SchemaTypes
  <2>3. SchemaTypes'
    BY <1>2, <2>1 DEF SchemaInv, SchemaTypes
  <2>4. Statements'
    BY <1>1, <1>2, <2>1, <2>2 DEF SchemaInv, Statements
  <2>5. \A q \in Processes : Begun(q)' = Begun(q)
    BY <1>1, <1>2, <2>1, <2>2 DEF Begun
  <2>6. Upgrading'
    BY <1>2, <2>1, <2>5 DEF SchemaInv, Upgrading
  <2>7. Standing'
    BY <1>1, <1>2, <1>3, <2>1, <2>2, <2>5 DEF SchemaInv, Standing
  <2>8. TablesStand' /\ Downgrading'
    BY <1>1, <1>2, <1>3, <2>1, <2>2, <2>5 DEF SchemaInv, TablesStand, Downgrading
  <2> QED
    BY <2>3, <2>4, <2>6, <2>7, <2>8 DEF SchemaInv
<1>4. CASE ~stamp
  <2> DEFINE others == {q \in Processes \ {p} : where[q] = "migrating"}
  <2>1. /\ where' = [where EXCEPT ![p] = "migrating"]
        /\ left' = [left EXCEPT ![p] = UpgradeThings]
        /\ met' = [q \in Processes |-> IF q = p THEN others # {} \/ HalfDone ELSE met[q] \/ q \in others]
    BY <1>4 DEF StartDatabase
  <2>2. where'[p] = "migrating" /\ \A a \in Actors \ {p} : where'[a] = where[a]
    BY <1>1, <2>1 DEF SchemaInv, SchemaTypes
  <2>3. left'[p] = UpgradeThings /\ \A a \in Actors \ {p} : left'[a] = left[a]
    BY <1>1, <2>1 DEF SchemaInv, SchemaTypes
  <2>4. /\ met' \in [Processes -> BOOLEAN]
        /\ ~met'[p] => others = {} /\ ~HalfDone
        /\ \A q \in Processes \ {p} : (met[q] => met'[q]) /\ (where[q] = "migrating" => met'[q])
    BY <2>1 DEF SchemaInv, SchemaTypes
  <2>5. SchemaTypes'
    BY <1>1, <1>2, <2>1, <2>4, WholeUpgrade DEF SchemaInv, SchemaTypes
  <2>6. Statements'
    BY <1>1, <1>2, <2>2, <2>3, WholeUpgrade DEF SchemaInv, Statements
  <2>7. ~Begun(p) /\ ~Begun(p)' /\ \A q \in Processes : Begun(q)' = Begun(q)
    BY <1>1, <1>2, <2>2, <2>3 DEF Begun
  <2>8. Upgrading'
    BY <1>1, <1>2, <2>3, <2>7 DEF SchemaInv, Upgrading
  <2>9. where[Operator] = "down" /\ where'[Operator] = "down"
    BY <1>1, <1>4, <2>2 DEF SchemaInv, Downgrading
  <2>10. Standing'
    <3> SUFFICES ASSUME NEW q \in Processes
                 PROVE  /\ where'[q] = "up" => stamp'
                        /\ where'[q] = "failed" => met'[q]
                        /\ where'[q] = "migrating" =>
                             /\ where'[Operator] = "down"
                             /\ met'[q] \/ (/\ ~stamp' /\ (Begun(q)' \/ things' = {})
                                            /\ \A r \in Processes \ {q} : where'[r] # "migrating")
      BY DEF Standing
    <3>1. CASE q = p
      <4>1. ~met'[p] => things = {} /\ \A r \in Processes \ {p} : where'[r] # "migrating"
        BY <1>1, <1>4, <2>2, <2>4 DEF HalfDone
      <4> QED
        BY <1>2, <1>4, <2>2, <2>9, <3>1, <4>1
    <3>2. CASE q # p
      BY <1>1, <1>2, <2>2, <2>4, <2>9, <3>2 DEF SchemaInv, Standing
    <3> QED
      BY <3>1, <3>2
  <2>11. TablesStand'
    BY <1>2, <1>4, <2>7 DEF SchemaInv, TablesStand
  <2>12. Downgrading'
    BY <1>2, <1>4, <2>9 DEF SchemaInv, Downgrading
  <2> QED
    BY <2>5, <2>6, <2>8, <2>10, <2>11, <2>12 DEF SchemaInv
<1> QED
  BY <1>3, <1>4

LEMMA StopDatabaseKeeps ==
  ASSUME SchemaInv, NEW p \in Processes, StopDatabase(p)
  PROVE  SchemaInv'
<1>1. /\ p \in Actors /\ p # Operator /\ Processes \subseteq Actors
      /\ Operator \in Actors
  BY SchemaAssumption DEF Actors
<1>2. /\ where[p] = "up" /\ where' = [where EXCEPT ![p] = "down"]
      /\ UNCHANGED <<dialect, things, stamp, left, done, deaths, met>>
  BY DEF StopDatabase
<1>3. where'[p] = "down" /\ \A a \in Actors \ {p} : where'[a] = where[a]
  BY <1>1, <1>2 DEF SchemaInv, SchemaTypes
<1>4. SchemaTypes'
  BY <1>2 DEF SchemaInv, SchemaTypes
<1>5. Statements'
  BY <1>1, <1>2, <1>3 DEF SchemaInv, Statements
<1>6. \A q \in Processes : Begun(q)' = Begun(q)
  BY <1>1, <1>2, <1>3 DEF Begun
<1>7. Upgrading'
  BY <1>2, <1>6 DEF SchemaInv, Upgrading
<1>8. Standing'
  BY <1>1, <1>2, <1>3, <1>6 DEF SchemaInv, Standing
<1>9. TablesStand' /\ Downgrading'
  BY <1>1, <1>2, <1>3, <1>6 DEF SchemaInv, TablesStand, Downgrading
<1> QED
  BY <1>4, <1>5, <1>7, <1>8, <1>9 DEF SchemaInv

LEMMA BeginDowngradeKeeps ==
  ASSUME SchemaInv, BeginDowngrade
  PROVE  SchemaInv'
<1>1. Processes \subseteq Actors /\ Operator \in Actors /\ \A p \in Processes : p # Operator
  BY SchemaAssumption DEF Actors
<1>2. /\ stamp /\ \A a \in Actors : where[a] \in {"down", "failed"}
      /\ where' = [where EXCEPT ![Operator] = "migrating"]
      /\ left' = [left EXCEPT ![Operator] = Downgrade]
      /\ UNCHANGED <<dialect, things, stamp, done, deaths, met>>
  BY DEF BeginDowngrade
<1>3. /\ where'[Operator] = "migrating" /\ left'[Operator] = Downgrade
      /\ \A a \in Actors \ {Operator} : where'[a] = where[a] /\ left'[a] = left[a]
  BY <1>1, <1>2 DEF SchemaInv, SchemaTypes
<1>4. SchemaTypes'
  BY <1>1, <1>2, WholeDowngrade DEF SchemaInv, SchemaTypes
<1>5. Statements'
  BY <1>1, <1>2, <1>3, WholeDowngrade DEF SchemaInv, Statements
<1>6. \A q \in Processes : ~Begun(q) /\ ~Begun(q)'
  BY <1>1, <1>2, <1>3 DEF Begun
<1>7. Upgrading'
  BY <1>6 DEF Upgrading
<1>8. Standing'
  BY <1>1, <1>2, <1>3 DEF SchemaInv, Standing
<1>9. TablesStand'
  BY <1>2, <1>3, <1>6 DEF SchemaInv, TablesStand
<1>10. Downgrading'
  <2>1. done'[Operator] = <<>> /\ ToSet(<<>>) = {} /\ DeclaredThings \ ToSet(Downgrade) = {}
    BY <1>1, <1>2, WholeDowngrade DEF SchemaInv, Statements, ToSet
  <2> QED
    BY <1>1, <1>2, <1>3, <2>1, WholeDowngrade DEF SchemaInv, TablesStand, Downgrading
<1> QED
  BY <1>4, <1>5, <1>7, <1>8, <1>9, <1>10 DEF SchemaInv

LEMMA AppendsAre ==
  ASSUME NEW S, NEW s \in Seq(S), NEW x \in S
  PROVE  Append(s, x) \in Seq(S) /\ ToSet(Append(s, x)) = ToSet(s) \cup {x}
<1>1. /\ Append(s, x) \in Seq(S) /\ Len(s) \in Nat /\ DOMAIN s = 1 .. Len(s)
      /\ DOMAIN Append(s, x) = 1 .. Len(s) + 1
      /\ Append(s, x)[Len(s) + 1] = x
      /\ \A i \in 1 .. Len(s) : Append(s, x)[i] = s[i]
  OBVIOUS
<1> DEFINE u == Append(s, x)
<1>2. DOMAIN u = 1 .. Len(s) + 1 /\ u[Len(s) + 1] = x /\ \A i \in 1 .. Len(s) : u[i] = s[i]
  BY <1>1
<1> HIDE DEF u
<1>3. \A y : y \in ToSet(u) <=> y \in ToSet(s) \/ y = x
  BY <1>1, <1>2 DEF ToSet
<1> QED
  BY <1>1, <1>3 DEF u

(* A statement that fails ends the migration: its process did not begin,   *)
(* as another did or had died.                                             *)
LEMMA FailingKeeps ==
  ASSUME SchemaInv, NEW a \in Actors, where[a] = "migrating", left[a] # <<>>,
         (Head(left[a]) \in things) = (a # Operator),
         where' = [where EXCEPT ![a] = "failed"], left' = [left EXCEPT ![a] = <<>>],
         done' = [done EXCEPT ![a] = <<>>], UNCHANGED <<dialect, things, stamp, deaths, met>>
  PROVE  SchemaInv'
<1>1. Processes \subseteq Actors /\ Operator \in Actors /\ Operator \notin Processes
      /\ (a # Operator => a \in Processes)
  BY SchemaAssumption DEF Actors
<1>2. /\ where'[a] = "failed" /\ left'[a] = <<>> /\ done'[a] = <<>>
      /\ \A b \in Actors \ {a} : where'[b] = where[b] /\ left'[b] = left[b] /\ done'[b] = done[b]
  BY DEF SchemaInv, SchemaTypes
<1>3. SchemaTypes'
  BY DEF SchemaInv, SchemaTypes
<1>4. Statements'
  <2>1. Distinct(<<>>)
    BY DEF Distinct
  <2> QED
    BY <1>1, <1>2, <2>1 DEF SchemaInv, Statements
<1>5. Head(left[a]) \in ToSet(left[a])
  BY TailsAre DEF SchemaInv, SchemaTypes, Statements
<1>6. CASE a = Operator
  <2>1. Head(left[a]) \notin things
    BY <1>6
  <2>2. \A q \in Processes : Begun(q)' = Begun(q)
    BY <1>1, <1>2, <1>6 DEF Begun
  <2>3. stamp
    BY <1>6 DEF SchemaInv, Downgrading
  <2>4. Upgrading'
    BY <1>1, <1>2, <1>6, <2>2 DEF SchemaInv, Upgrading
  <2>5. Standing'
    BY <1>1, <1>2, <1>6, <2>2 DEF SchemaInv, Standing
  <2>6. dialect = "sqlite" => Downgrade[1] \notin things
    <3>1. Head(Downgrade) = Downgrade[1]
      BY WholeDowngrade, TailsAre
    <3> QED
      BY <1>5, <1>6, <2>1, <3>1 DEF SchemaInv, Downgrading
  <2>7. TablesStand'
    BY <1>2, <1>6, <2>3, <2>6 DEF SchemaInv, TablesStand
  <2>8. Downgrading'
    BY <1>1, <1>2, <1>6, <2>3 DEF SchemaInv, Downgrading
  <2> QED
    BY <1>3, <1>4, <2>4, <2>5, <2>7, <2>8 DEF SchemaInv
<1>7. CASE a # Operator
  <2>1. a \in Processes /\ Head(left[a]) \in things
    BY <1>1, <1>7
  <2>2. ~Begun(a)
    <3> SUFFICES ASSUME Begun(a) PROVE FALSE
      OBVIOUS
    <3>1. ~stamp
      BY <2>1 DEF SchemaInv, Upgrading
    <3>2. CASE dialect = "sqlite"
      BY <1>5, <2>1, <3>2 DEF SchemaInv, Upgrading
    <3>3. CASE dialect = "postgresql"
      BY <2>1, <3>1, <3>3 DEF SchemaInv, TablesStand
    <3> QED
      BY <3>2, <3>3 DEF SchemaInv, SchemaTypes
  <2>3. ~Begun(a)' /\ \A q \in Processes : Begun(q)' = Begun(q)
    BY <1>1, <1>2, <2>2 DEF Begun
  <2>4. met[a]
    BY <2>1, <2>2 DEF SchemaInv, Standing
  <2>5. Upgrading'
    BY <1>1, <1>2, <2>3 DEF SchemaInv, Upgrading
  <2>6. Standing'
    BY <1>1, <1>2, <1>7, <2>3, <2>4 DEF SchemaInv, Standing
  <2>7. TablesStand'
    BY <1>1, <1>2, <1>7, <2>3 DEF SchemaInv, TablesStand
  <2>8. Downgrading'
    BY <1>1, <1>2, <1>7 DEF SchemaInv, Downgrading
  <2> QED
    BY <1>3, <1>4, <2>5, <2>6, <2>7, <2>8 DEF SchemaInv
<1> QED
  BY <1>6, <1>7

(* A statement of an upgrade that goes through: the process begins on an   *)
(* empty database, or goes on.                                             *)
LEMMA CreatingKeeps ==
  ASSUME SchemaInv, NEW p \in Processes, where[p] = "migrating", left[p] # <<>>,
         dialect = "postgresql" => \A b \in Actors \ {p} : done[b] = <<>>,
         Head(left[p]) \notin things, left' = [left EXCEPT ![p] = Tail(@)],
         IF dialect = "postgresql"
         THEN done' = [done EXCEPT ![p] = Append(@, Head(left[p]))] /\ UNCHANGED things
         ELSE things' = things \cup {Head(left[p])} /\ UNCHANGED done,
         UNCHANGED <<dialect, stamp, where, deaths, met>>
  PROVE  SchemaInv'
<1> DEFINE thing == Head(left[p])
           T1 == UpgradeThings[1]
<1>1. Processes \subseteq Actors /\ Operator \in Actors /\ Operator \notin Processes
  BY SchemaAssumption DEF Actors
<1>2. left[p] \in Seq(DeclaredThings) /\ Distinct(left[p]) /\ done[p] \in Seq(DeclaredThings)
  BY <1>1 DEF SchemaInv, SchemaTypes, Statements
<1>3. /\ thing \in DeclaredThings /\ thing \in ToSet(left[p])
      /\ Tail(left[p]) \in Seq(DeclaredThings) /\ Distinct(Tail(left[p]))
      /\ Len(Tail(left[p])) < Len(left[p])
      /\ ToSet(Tail(left[p])) = ToSet(left[p]) \ {thing}
  BY <1>2, TailsAre
<1>4. thing = T1 \/ left[p] # UpgradeThings
  BY WholeUpgrade, TailsAre
<1>5. T1 \in DeclaredThings /\ T1 \in ToSet(UpgradeThings)
  BY WholeUpgrade, TailsAre
<1>6. where[Operator] = "down"
  BY DEF SchemaInv, Standing
<1>7. ~stamp
  <2> SUFFICES ASSUME stamp PROVE FALSE
    BY DEF SchemaInv, SchemaTypes
  <2>1. things = DeclaredThings
    BY <1>6 DEF SchemaInv, SchemaTypes, TablesStand
  <2> QED
    BY <1>3, <2>1
<1> HIDE DEF thing, T1
<1>8. \A q \in Processes : Begun(q) => q = p
  <2> SUFFICES ASSUME NEW q \in Processes, Begun(q), q # p PROVE FALSE
    OBVIOUS
  <2>0. T1 \notin ToSet(left[q])
    BY DEF SchemaInv, Upgrading, T1
  <2>1. ~Begun(p)
    BY DEF SchemaInv, Upgrading
  <2>2. left[p] = UpgradeThings
    BY <2>1 DEF Begun
  <2>3. CASE dialect = "sqlite"
    BY <1>4, <1>5, <2>0, <2>2, <2>3 DEF SchemaInv, Upgrading, thing
  <2>4. CASE dialect = "postgresql"
    <3>1. T1 \in ToSet(done[q]) /\ done[q] = <<>>
      BY <1>1, <1>5, <2>0, <2>4 DEF SchemaInv, Upgrading
    <3> QED
      BY <3>1 DEF ToSet
  <2> QED
    BY <2>3, <2>4 DEF SchemaInv, SchemaTypes
<1>9. left[p] = UpgradeThings => things = {} /\ done[p] = <<>>
  <2> SUFFICES ASSUME left[p] = UpgradeThings PROVE things = {} /\ done[p] = <<>>
    OBVIOUS
  <2>1. \A q \in Processes : ~Begun(q)
    BY <1>8 DEF Begun
  <2>2. CASE dialect = "sqlite"
    BY <1>4, <1>7, <2>1, <2>2 DEF SchemaInv, TablesStand, Statements, T1, thing
  <2>3. CASE dialect = "postgresql"
    BY <1>7, <2>3 DEF SchemaInv, TablesStand, Statements
  <2> QED
    BY <2>2, <2>3 DEF SchemaInv, SchemaTypes
<1>10. /\ left'[p] = Tail(left[p]) /\ \A b \in Actors \ {p} : left'[b] = left[b]
       /\ left' \in [Actors -> Seq(DeclaredThings)]
  BY <1>1, <1>3 DEF SchemaInv, SchemaTypes
<1>11. Tail(left[p]) # UpgradeThings /\ T1 \notin ToSet(Tail(left[p]))
  <2>1. CASE left[p] = UpgradeThings
    BY <1>3, <1>4, <2>1
  <2>2. CASE left[p] # UpgradeThings
    <3>1. Begun(p) /\ T1 \notin ToSet(left[p])
      BY <2>2 DEF SchemaInv, Upgrading, Begun, T1
    <3> QED
      BY <1>3, <1>5, <3>1
  <2> QED
    BY <2>1, <2>2
<1>12. things' \subseteq DeclaredThings /\ done' \in [Actors -> Seq(DeclaredThings)]
       /\ \A b \in Actors \ {p} : done'[b] = done[b]
  <2>1. CASE dialect = "postgresql"
    <3>1. Append(done[p], thing) \in Seq(DeclaredThings)
      BY <1>2, <1>3, AppendsAre
    <3>2. done' = [done EXCEPT ![p] = Append(done[p], thing)] /\ things' = things
      BY <2>1 DEF thing
    <3> QED
      BY <3>1, <3>2 DEF SchemaInv, SchemaTypes
  <2>2. CASE dialect = "sqlite"
    <3>1. things' = things \cup {thing} /\ done' = done
      BY <2>2 DEF thing
    <3> QED
      BY <1>3, <3>1 DEF SchemaInv, SchemaTypes
  <2> QED
    BY <2>1, <2>2 DEF SchemaInv, SchemaTypes
<1>13. SchemaTypes'
  BY <1>10, <1>12 DEF SchemaInv, SchemaTypes
<1>14. Statements'
  BY <1>1, <1>3, <1>10, <1>11, <1>12 DEF SchemaInv, SchemaTypes, Statements
<1>15. Begun(p)' /\ \A q \in Processes \ {p} : Begun(q)' = Begun(q)
  BY <1>1, <1>10, <1>11 DEF Begun
<1>16. dialect = "sqlite" => things' = DeclaredThings \ ToSet(Tail(left[p]))
  <2> SUFFICES ASSUME dialect = "sqlite" PROVE things' = DeclaredThings \ ToSet(Tail(left[p]))
    OBVIOUS
  <2>1. things' = things \cup {thing}
    BY DEF thing
  <2>2. things = DeclaredThings \ ToSet(left[p])
    <3>1. CASE left[p] = UpgradeThings
      BY <1>9, <3>1, WholeUpgrade
    <3>2. CASE left[p] # UpgradeThings
      BY <3>2 DEF SchemaInv, Upgrading, Begun
    <3> QED
      BY <3>1, <3>2
  <2> QED
    BY <1>3, <2>1, <2>2
<1>17. dialect = "postgresql" => ToSet(done'[p]) = DeclaredThings \ ToSet(Tail(left[p]))
  <2> SUFFICES ASSUME dialect = "postgresql"
               PROVE  ToSet(done'[p]) = DeclaredThings \ ToSet(Tail(left[p]))
    OBVIOUS
  <2>1. done'[p] = Append(done[p], thing)
    BY <1>1 DEF SchemaInv, SchemaTypes, thing
  <2>2. ToSet(done'[p]) = ToSet(done[p]) \cup {thing}
    BY <1>2, <1>3, <2>1, AppendsAre
  <2>3. ToSet(done[p]) = DeclaredThings \ ToSet(left[p])
    <3>1. CASE left[p] = UpgradeThings
      <4>1. ToSet(<<>>) = {}
        BY DEF ToSet
      <4> QED
        BY <1>9, <3>1, <4>1, WholeUpgrade
    <3>2. CASE left[p] # UpgradeThings
      BY <3>2 DEF SchemaInv, Upgrading, Begun
    <3> QED
      BY <3>1, <3>2
  <2> QED
    BY <1>3, <2>2, <2>3
<1>18. Upgrading'
  <2> SUFFICES ASSUME NEW q \in Processes, Begun(q)'
               PROVE  /\ q = p /\ ~stamp' /\ UpgradeThings[1] \notin ToSet(left'[q])
                      /\ dialect' = "sqlite" => things' = DeclaredThings \ ToSet(left'[q])
                      /\ dialect' = "postgresql" => ToSet(done'[q]) = DeclaredThings \ ToSet(left'[q])
    BY DEF Upgrading
  <2>1. q = p
    BY <1>8, <1>15
  <2> QED
    BY <1>7, <1>10, <1>11, <1>16, <1>17, <2>1 DEF T1
<1>19. Standing'
  <2> SUFFICES ASSUME NEW q \in Processes
               PROVE  /\ where[q] = "up" => stamp
                      /\ where[q] = "failed" => met[q]
                      /\ where[q] = "migrating" =>
                           /\ where[Operator] = "down"
                           /\ met[q] \/ (/\ ~stamp /\ (Begun(q)' \/ things' = {})
                                         /\ \A r \in Processes \ {q} : where[r] # "migrating")
    BY DEF Standing
  <2>1. CASE q = p
    BY <1>15, <2>1 DEF SchemaInv, Standing
  <2>2. CASE q # p
    BY <2>2 DEF SchemaInv, Standing
  <2> QED
    BY <2>1, <2>2
<1>20. TablesStand'
  <2>1. dialect = "sqlite" => T1 \in things'
    BY <1>5, <1>11, <1>16
  <2> QED
    BY <1>6, <1>7, <1>15, <2>1 DEF SchemaInv, TablesStand, T1
<1>21. Downgrading'
  BY <1>6 DEF SchemaInv, Downgrading
<1> QED
  BY <1>13, <1>14, <1>18, <1>19, <1>20, <1>21 DEF SchemaInv

(* A statement of a downgrade that goes through.                           *)
LEMMA DroppingKeeps ==
  ASSUME SchemaInv, where[Operator] = "migrating", left[Operator] # <<>>,
         Head(left[Operator]) \in things, left' = [left EXCEPT ![Operator] = Tail(@)],
         IF dialect = "postgresql"
         THEN done' = [done EXCEPT ![Operator] = Append(@, Head(left[Operator]))] /\ UNCHANGED things
         ELSE things' = things \ {Head(left[Operator])} /\ UNCHANGED done,
         UNCHANGED <<dialect, stamp, where, deaths, met>>
  PROVE  SchemaInv'
<1> DEFINE thing == Head(left[Operator])
           D1 == Downgrade[1]
<1>1. Processes \subseteq Actors /\ Operator \in Actors /\ \A p \in Processes : p # Operator
  BY SchemaAssumption DEF Actors
<1>2. /\ left[Operator] \in Seq(DeclaredThings) /\ Distinct(left[Operator])
      /\ done[Operator] \in Seq(DeclaredThings)
  BY <1>1 DEF SchemaInv, SchemaTypes, Statements
<1>3. /\ thing \in DeclaredThings /\ thing \in ToSet(left[Operator])
      /\ Tail(left[Operator]) \in Seq(DeclaredThings) /\ Distinct(Tail(left[Operator]))
      /\ ToSet(Tail(left[Operator])) = ToSet(left[Operator]) \ {thing}
  BY <1>2, TailsAre
<1>4. thing = D1 \/ left[Operator] # Downgrade
  BY WholeDowngrade, TailsAre
<1>5. stamp /\ \A p \in Processes : where[p] \in {"down", "failed"}
  BY DEF SchemaInv, Downgrading
<1> HIDE DEF thing, D1
<1>6. /\ left'[Operator] = Tail(left[Operator]) /\ \A b \in Actors \ {Operator} : left'[b] = left[b]
      /\ left' \in [Actors -> Seq(DeclaredThings)]
  BY <1>1, <1>3 DEF SchemaInv, SchemaTypes
<1>7. things' \subseteq DeclaredThings /\ done' \in [Actors -> Seq(DeclaredThings)]
      /\ \A b \in Actors \ {Operator} : done'[b] = done[b]
      /\ dialect = "sqlite" => done' = done
  <2>1. CASE dialect = "postgresql"
    <3>1. Append(done[Operator], thing) \in Seq(DeclaredThings)
      BY <1>2, <1>3, AppendsAre
    <3>2. done' = [done EXCEPT ![Operator] = Append(done[Operator], thing)] /\ things' = things
      BY <2>1 DEF thing
    <3> QED
      BY <2>1, <3>1, <3>2 DEF SchemaInv, SchemaTypes
  <2>2. CASE dialect = "sqlite"
    <3>1. things' = things \ {thing} /\ done' = done
      BY <2>2 DEF thing
    <3> QED
      BY <3>1 DEF SchemaInv, SchemaTypes
  <2> QED
    BY <2>1, <2>2 DEF SchemaInv, SchemaTypes
<1>8. SchemaTypes'
  BY <1>6, <1>7 DEF SchemaInv, SchemaTypes
<1>9. Statements'
  BY <1>1, <1>3, <1>5, <1>6, <1>7 DEF SchemaInv, Statements
<1>10. \A q \in Processes : ~Begun(q) /\ ~Begun(q)'
  BY <1>5 DEF Begun
<1>11. Upgrading' /\ Standing'
  BY <1>5, <1>10 DEF SchemaInv, Upgrading, Standing
<1>12. TablesStand'
  BY <1>5 DEF SchemaInv, TablesStand
<1>13. Downgrading'
  <2>1. ASSUME dialect = "sqlite"
        PROVE  things' = ToSet(Tail(left[Operator])) /\ D1 \notin things'
    <3>1. things' = things \ {thing}
      BY <2>1 DEF thing
    <3>2. things = ToSet(left[Operator])
      BY <1>4, <2>1 DEF SchemaInv, Downgrading, thing, D1
    <3>3. thing = D1 \/ D1 \notin things
      BY <1>4, <2>1 DEF SchemaInv, Downgrading, D1
    <3> QED
      BY <1>3, <3>1, <3>2, <3>3
  <2>2. ASSUME dialect = "postgresql"
        PROVE  ToSet(done'[Operator]) = DeclaredThings \ ToSet(Tail(left[Operator]))
    <3>1. done'[Operator] = Append(done[Operator], thing)
      BY <1>1, <2>2 DEF SchemaInv, SchemaTypes, thing
    <3>2. ToSet(done'[Operator]) = ToSet(done[Operator]) \cup {thing}
      BY <1>2, <1>3, <3>1, AppendsAre
    <3>3. ToSet(done[Operator]) = DeclaredThings \ ToSet(left[Operator])
      BY <2>2 DEF SchemaInv, Downgrading
    <3> QED
      BY <1>3, <3>2, <3>3
  <2> QED
    BY <1>5, <1>6, <2>1, <2>2 DEF SchemaInv, Downgrading, D1
<1> QED
  BY <1>8, <1>9, <1>11, <1>12, <1>13 DEF SchemaInv

(* The head revision is reached with every table made, by one process; and *)
(* left with every table gone.                                             *)
LEMMA StampVersionKeeps ==
  ASSUME SchemaInv, NEW a \in Actors, StampVersion(a)
  PROVE  SchemaInv'
<1>1. Processes \subseteq Actors /\ Operator \in Actors /\ Operator \notin Processes
      /\ (a # Operator => a \in Processes)
  BY SchemaAssumption DEF Actors
<1>2. /\ where[a] = "migrating" /\ left[a] = <<>> /\ stamp' = (a # Operator)
      /\ things' = IF a = Operator THEN things \ ToSet(done[a]) ELSE things \cup ToSet(done[a])
      /\ done' = [done EXCEPT ![a] = <<>>]
      /\ where' = [where EXCEPT ![a] = IF a = Operator THEN "down" ELSE "up"]
      /\ UNCHANGED <<dialect, left, deaths, met>>
  BY DEF StampVersion
<1>3. /\ where'[a] = (IF a = Operator THEN "down" ELSE "up") /\ done'[a] = <<>>
      /\ \A b \in Actors \ {a} : where'[b] = where[b] /\ done'[b] = done[b]
  BY <1>2 DEF SchemaInv, SchemaTypes
<1>4. ToSet(<<>>) = {} /\ ToSet(done[a]) \subseteq DeclaredThings
      /\ (done[a] = <<>> => ToSet(done[a]) = {})
  BY DEF SchemaInv, SchemaTypes, ToSet
<1>5. SchemaTypes'
  <2>1. stamp' \in BOOLEAN /\ things' \subseteq DeclaredThings
    BY <1>2, <1>4 DEF SchemaInv, SchemaTypes
  <2> QED
    BY <1>2, <2>1 DEF SchemaInv, SchemaTypes
<1>6. Statements'
  BY <1>1, <1>2, <1>3 DEF SchemaInv, Statements
<1>7. CASE a = Operator
  <2>1. \A p \in Processes : ~Begun(p) /\ ~Begun(p)' /\ where'[p] \in {"down", "failed"}
    BY <1>1, <1>2, <1>3, <1>7 DEF SchemaInv, Downgrading, Begun
  <2>2. things' = {}
    <3>1. CASE dialect = "sqlite"
      <4>1. done[a] = <<>>
        BY <3>1 DEF SchemaInv, Statements
      <4>2. things = {}
        BY <1>2, <1>4, <1>7, <3>1, WholeDowngrade DEF SchemaInv, Downgrading
      <4> QED
        BY <1>2, <1>7, <4>2
    <3>2. CASE dialect = "postgresql"
      <4>1. ToSet(done[a]) = DeclaredThings
        BY <1>2, <1>4, <1>7, <3>2 DEF SchemaInv, Downgrading
      <4> QED
        BY <1>2, <1>7, <4>1 DEF SchemaInv, SchemaTypes
    <3> QED
      BY <3>1, <3>2 DEF SchemaInv, SchemaTypes
  <2>3. Upgrading'
    BY <2>1 DEF Upgrading
  <2>4. Standing'
    BY <1>1, <1>2, <1>3, <1>7, <2>1 DEF SchemaInv, Standing
  <2>5. TablesStand' /\ Downgrading'
    <3>1. ~stamp' /\ where'[Operator] = "down"
      BY <1>2, <1>3, <1>7
    <3> QED
      BY <2>2, <3>1 DEF TablesStand, Downgrading
  <2> QED
    BY <1>5, <1>6, <2>3, <2>4, <2>5 DEF SchemaInv
<1>8. CASE a # Operator
  <2>1. a \in Processes /\ where[Operator] = "down" /\ stamp' /\ where'[Operator] = "down"
        /\ where'[a] = "up"
    BY <1>1, <1>2, <1>3, <1>8 DEF SchemaInv, Standing
  <2>2. Begun(a) /\ ~Begun(a)'
    BY <1>2, <2>1, WholeUpgrade DEF Begun
  <2>3. \A p \in Processes : ~Begun(p)'
    <3> SUFFICES ASSUME NEW p \in Processes \ {a} PROVE ~Begun(p)'
      BY <2>2
    <3>1. ~Begun(p)
      BY <2>1, <2>2 DEF SchemaInv, Upgrading
    <3> QED
      BY <1>1, <1>2, <1>3, <3>1 DEF Begun
  <2>4. things' = DeclaredThings
    <3>1. CASE dialect = "sqlite"
      BY <1>2, <1>4, <1>8, <2>1, <2>2, <3>1 DEF SchemaInv, Upgrading
    <3>2. CASE dialect = "postgresql"
      <4>1. ToSet(done[a]) = DeclaredThings
        BY <1>2, <1>4, <2>1, <2>2, <3>2 DEF SchemaInv, Upgrading
      <4> QED
        BY <1>2, <1>8, <4>1 DEF SchemaInv, SchemaTypes
    <3> QED
      BY <3>1, <3>2 DEF SchemaInv, SchemaTypes
  <2>5. Upgrading'
    BY <2>3 DEF Upgrading
  <2>6. Standing'
    <3> SUFFICES ASSUME NEW p \in Processes
                 PROVE  /\ where'[p] = "up" => stamp'
                        /\ where'[p] = "failed" => met[p]
                        /\ where'[p] = "migrating" => where'[Operator] = "down" /\ met[p]
      BY <1>2 DEF Standing
    <3>1. CASE p = a
      BY <2>1, <3>1
    <3>2. CASE p # a
      BY <1>1, <1>2, <1>3, <2>1, <3>2 DEF SchemaInv, Standing
    <3> QED
      BY <3>1, <3>2
  <2>7. TablesStand' /\ Downgrading'
    BY <1>2, <2>1, <2>4 DEF TablesStand, Downgrading
  <2> QED
    BY <1>5, <1>6, <2>5, <2>6, <2>7 DEF SchemaInv
<1> QED
  BY <1>7, <1>8

LEMMA DieKeeps ==
  ASSUME SchemaInv, NEW a \in Actors, Die(a)
  PROVE  SchemaInv'
<1>1. Processes \subseteq Actors /\ Operator \in Actors /\ Operator \notin Processes
      /\ (a # Operator => a \in Processes)
  BY SchemaAssumption DEF Actors
<1>2. /\ where[a] = "migrating" /\ deaths' = deaths + 1
      /\ where' = [where EXCEPT ![a] = IF a = Operator THEN "failed" ELSE "down"]
      /\ left' = [left EXCEPT ![a] = <<>>] /\ done' = [done EXCEPT ![a] = <<>>]
      /\ UNCHANGED <<dialect, things, stamp, met>>
  BY DEF Die
<1>3. /\ where'[a] = (IF a = Operator THEN "failed" ELSE "down")
      /\ left'[a] = <<>> /\ done'[a] = <<>>
      /\ \A b \in Actors \ {a} : where'[b] = where[b] /\ left'[b] = left[b] /\ done'[b] = done[b]
  BY <1>2 DEF SchemaInv, SchemaTypes
<1>4. SchemaTypes'
  BY <1>2 DEF SchemaInv, SchemaTypes
<1>5. Statements'
  <2>1. Distinct(<<>>)
    BY DEF Distinct
  <2> QED
    BY <1>1, <1>2, <1>3, <2>1 DEF SchemaInv, Statements
<1>6. \A p \in Processes \ {a} : Begun(p)' = Begun(p)
  BY <1>1, <1>3 DEF Begun
<1>7. a \in Processes => ~Begun(a)'
  BY <1>1, <1>3 DEF Begun
<1>8. Upgrading'
  BY <1>1, <1>2, <1>3, <1>6, <1>7 DEF SchemaInv, Upgrading
<1>9. deaths' > 0
  BY <1>2 DEF SchemaInv, SchemaTypes
<1>10. CASE a = Operator
  <2>1. stamp /\ \A p \in Processes : where[p] \in {"down", "failed"}
    BY <1>2, <1>10 DEF SchemaInv, Downgrading
  <2>2. Standing'
    BY <1>1, <1>2, <1>3, <1>10, <2>1 DEF SchemaInv, Standing
  <2>3. TablesStand'
    BY <1>2, <1>3, <1>10, <2>1, WholeDowngrade DEF SchemaInv, TablesStand, Downgrading
  <2>4. Downgrading'
    BY <1>2, <1>3, <1>10, <2>1 DEF Downgrading
  <2> QED
    BY <1>4, <1>5, <1>8, <2>2, <2>3, <2>4 DEF SchemaInv
<1>11. CASE a # Operator
  <2>1. where[Operator] = "down" /\ where'[Operator] = "down"
    BY <1>1, <1>2, <1>3, <1>11 DEF SchemaInv, Standing
  <2>2. Standing'
    BY <1>1, <1>2, <1>3, <1>6, <1>11, <2>1 DEF SchemaInv, Standing
  <2>3. TablesStand'
    BY <1>2, <1>9, <2>1 DEF SchemaInv, TablesStand
  <2>4. Downgrading'
    BY <2>1 DEF Downgrading
  <2> QED
    BY <1>4, <1>5, <1>8, <2>2, <2>3, <2>4 DEF SchemaInv
<1> QED
  BY <1>10, <1>11

LEMMA SchemaStep == SchemaInv /\ [SchemaNext]_schema => SchemaInv'
<1> SUFFICES ASSUME SchemaInv, [SchemaNext]_schema PROVE SchemaInv'
  OBVIOUS
<1>1. ASSUME NEW p \in Processes, StartDatabase(p) PROVE SchemaInv'
  BY <1>1, StartDatabaseKeeps
<1>2. ASSUME NEW p \in Processes, StopDatabase(p) PROVE SchemaInv'
  BY <1>2, StopDatabaseKeeps
<1>3. CASE BeginDowngrade
  BY <1>3, BeginDowngradeKeeps
<1>4. ASSUME NEW a \in Actors, Execute(a) PROVE SchemaInv'
  <2> DEFINE thing == Head(left[a])
  <2>1. /\ where[a] = "migrating" /\ left[a] # <<>>
        /\ dialect = "postgresql" => \A b \in Actors \ {a} : done[b] = <<>>
        /\ UNCHANGED <<dialect, stamp, deaths, met>>
    BY <1>4 DEF Execute
  <2>2. CASE (thing \in things) = (a # Operator)
    BY <1>4, <2>1, <2>2, FailingKeeps DEF Execute
  <2>3. CASE (thing \in things) # (a # Operator)
    <3>1. /\ left' = [left EXCEPT ![a] = Tail(@)] /\ UNCHANGED where
          /\ IF dialect = "postgresql"
             THEN done' = [done EXCEPT ![a] = Append(@, thing)] /\ UNCHANGED things
             ELSE /\ things' = IF a = Operator THEN things \ {thing} ELSE things \cup {thing}
                  /\ UNCHANGED done
      BY <1>4, <2>3 DEF Execute
    <3>2. CASE a = Operator
      BY <2>1, <2>3, <3>1, <3>2, DroppingKeeps
    <3>3. CASE a # Operator
      <4>1. a \in Processes
        BY <3>3 DEF Actors
      <4> QED
        BY <2>1, <2>3, <3>1, <3>3, <4>1, CreatingKeeps
    <3> QED
      BY <3>2, <3>3
  <2> QED
    BY <2>2, <2>3
<1>5. ASSUME NEW a \in Actors, StampVersion(a) PROVE SchemaInv'
  BY <1>5, StampVersionKeeps
<1>6. ASSUME NEW a \in Actors, Die(a) PROVE SchemaInv'
  BY <1>6, DieKeeps
<1>7. CASE UNCHANGED schema
  <2>1. UNCHANGED <<dialect, things, stamp, where, left, done, deaths, met>>
    BY <1>7 DEF schema
  <2>2. SchemaTypes' /\ Statements'
    BY <2>1 DEF SchemaInv, SchemaTypes, Statements
  <2>3. \A p : Begun(p)' = Begun(p)
    BY <2>1 DEF Begun
  <2>4. Upgrading' /\ Standing'
    BY <2>1, <2>3 DEF SchemaInv, Upgrading, Standing
  <2>5. TablesStand' /\ Downgrading'
    BY <2>1, <2>3 DEF SchemaInv, TablesStand, Downgrading
  <2> QED
    BY <2>2, <2>4, <2>5 DEF SchemaInv
<1> QED
  BY <1>1, <1>2, <1>3, <1>4, <1>5, <1>6, <1>7 DEF SchemaNext

(* The database is whole where its version says so, and a start only fails *)
(* beside another or upon what is half done.                               *)
THEOREM SchemaStaysWhole == SchemaSpec => []SchemaIsWhole
BY SchemaStart, SchemaStep, SchemaHolds, PTL DEF SchemaSpec

-----------------------------------------------------------------------------
(* What an alert says and who is told.                                     *)

(* The classes of severity are five.                                       *)
LEMMA RankIsSmall ==
  ASSUME NEW severity, \E i \in 1 .. 5 : severity = Severities[i]
  PROVE  Rank(severity) \in 0 .. 4
<1> DEFINE P(i) == i \in 1 .. 5 /\ Severities[i] = severity
<1>1. PICK i : P(i)
  OBVIOUS
<1>2. (CHOOSE k \in 1 .. 5 : Severities[k] = severity) \in 1 .. 5
  BY <1>1, Zenon
<1> HIDE DEF P
<1> QED
  BY <1>2, SMT DEF Rank

LEMMA LeastIs ==
  ASSUME NEW a \in Nat, NEW b \in Nat
  PROVE  Least(a, b) \in Nat /\ Least(a, b) <= a /\ Least(a, b) <= b
BY DEF Least

LEMMA QuotientsGrow ==
  ASSUME NEW x \in Nat, NEW y \in Nat, NEW k \in Nat \ {0}, x <= y
  PROVE  /\ x \div k \in Nat /\ y \div k \in Nat
         /\ x \div k <= y \div k
OBVIOUS

IsEvidence(e) == e \in Nat /\ e <= 3000

(* Evidence is worth between nothing and its whole weight, and the more    *)
(* the further past the threshold it is.                                   *)
LEMMA EvidenceIsBounded ==
  ASSUME NEW name, NEW magnitude \in Nat \cup {Nothing}
  PROVE  IsEvidence(EvidenceTerm(name, magnitude))
<1> DEFINE ref == ReferenceMagnitude(name)
<1>1. ref \in Nat \cup {Nothing}
  BY ContentAssumption DEF ReferenceMagnitude
<1>2. CASE ref \in {Nothing, 0} \/ magnitude = Nothing
  BY <1>2 DEF EvidenceTerm, IsEvidence
<1>3. CASE ~(ref \in {Nothing, 0} \/ magnitude = Nothing)
  <2>1. ref \in Nat \ {0} /\ magnitude \in Nat
    BY <1>1, <1>3
  <2>2. CASE magnitude <= ref
    BY <1>3, <2>1, <2>2 DEF EvidenceTerm, IsEvidence
  <2>3. CASE ~(magnitude <= ref)
    <3> DEFINE q == (3000 * (magnitude - ref)) \div (5 * ref)
    <3>1. 3000 * (magnitude - ref) \in Nat /\ 5 * ref \in Nat \ {0}
      BY <2>1, <2>3
    <3>2. q \in Nat
      BY <3>1, QuotientsGrow
    <3>3. EvidenceTerm(name, magnitude) = Least(q, 3000)
      BY <1>3, <2>3 DEF EvidenceTerm
    <3> HIDE DEF q
    <3> QED
      BY <3>2, <3>3 DEF Least, IsEvidence
  <2> QED
    BY <2>2, <2>3
<1> QED
  BY <1>2, <1>3

LEMMA EvidenceGrows ==
  ASSUME NEW name, NEW a \in Nat \cup {Nothing}, NEW b \in Nat \cup {Nothing},
         a = Nothing \/ (b # Nothing /\ a <= b)
  PROVE  EvidenceTerm(name, a) <= EvidenceTerm(name, b)
<1> DEFINE ref == ReferenceMagnitude(name)
<1>1. ref \in Nat \cup {Nothing}
  BY ContentAssumption DEF ReferenceMagnitude
<1>2. EvidenceTerm(name, b) \in Nat /\ EvidenceTerm(name, b) <= 3000
  BY EvidenceIsBounded DEF IsEvidence
<1>3. CASE ref \in {Nothing, 0} \/ a = Nothing
  <2>1. EvidenceTerm(name, a) = 0
    BY <1>3 DEF EvidenceTerm
  <2> QED
    BY <1>2, <2>1
<1>4. CASE ~(ref \in {Nothing, 0} \/ a = Nothing)
  <2>1. ref \in Nat \ {0} /\ a \in Nat /\ b \in Nat /\ b # Nothing /\ a <= b
    BY <1>1, <1>4
  <2>2. CASE a <= ref
    <3>1. EvidenceTerm(name, a) = 0
      BY <1>4, <2>2 DEF EvidenceTerm
    <3> QED
      BY <1>2, <3>1
  <2>3. CASE ~(a <= ref)
    <3> DEFINE x == 3000 * (a - ref)
               y == 3000 * (b - ref)
               k == 5 * ref
    <3>1. x \in Nat /\ y \in Nat /\ k \in Nat \ {0} /\ x <= y
      BY <2>1, <2>3
    <3>2. x \div k \in Nat /\ y \div k \in Nat /\ x \div k <= y \div k
      <4> HIDE DEF x, y, k
      <4> QED
        BY <3>1, QuotientsGrow
    <3>3. ~(b <= ref)
      BY <2>1, <2>3
    <3>4. /\ EvidenceTerm(name, a) = Least(x \div k, 3000)
          /\ EvidenceTerm(name, b) = Least(y \div k, 3000)
      BY <1>4, <2>1, <2>3, <3>3 DEF EvidenceTerm
    <3> HIDE DEF x, y, k
    <3> QED
      BY <3>2, <3>4 DEF Least
  <2> QED
    BY <2>2, <2>3
<1> QED
  BY <1>3, <1>4

----------------------------------------------------------------------------
(* What is raised was built from a finding.                                *)
FromDetector(alert) == \E d \in Detections : alert = BuildAlert(d)
FromRule(alert) == \E m \in Matches : alert = BuildRuleAlert(m)

LEMMA DetectorsAlert ==
  ASSUME NEW a, FromDetector(a)
  PROVE  /\ a.source = "detector"
         /\ \E i \in 1 .. 5 : a.severity = Severities[i]
         /\ a.magnitude \in Nat \cup {Nothing}
         /\ a.confidence = ScoreAlert(a.name, a.severity, a.magnitude)
<1>1. PICK d \in Detections : a = BuildAlert(d)
  BY DEF FromDetector
<1> QED
  BY <1>1, ContentAssumption DEF BuildAlert

LEMMA RulesAlert ==
  ASSUME NEW a, FromRule(a)
  PROVE  /\ a.source = "rule_engine"
         /\ \E i \in 1 .. 5 : a.severity = Severities[i]
         /\ a.confidence = ScoreRuleMatch(a.severity)
<1>1. PICK m \in Matches : a = BuildRuleAlert(m)
  BY DEF FromRule
<1> QED
  BY <1>1, ContentAssumption DEF BuildRuleAlert

LEMMA ScoresAreBounded ==
  ASSUME NEW a, FromDetector(a) \/ FromRule(a)
  PROVE  a.confidence \in 0 .. Certain
<1>1. CASE FromDetector(a)
  <2> DEFINE e == EvidenceTerm(a.name, a.magnitude)
             r == Rank(a.severity)
  <2>1. /\ r \in 0 .. 4 /\ a.magnitude \in Nat \cup {Nothing}
        /\ a.confidence = ScoreAlert(a.name, a.severity, a.magnitude)
    BY <1>1, DetectorsAlert, RankIsSmall
  <2>2. a.confidence = Least(5000 + 500 * r + e, Certain)
    BY <2>1 DEF ScoreAlert
  <2>3. IsEvidence(e)
    BY <2>1, EvidenceIsBounded, Zenon
  <2> HIDE DEF e, r
  <2> QED
    BY <2>1, <2>2, <2>3 DEF Certain, Least, IsEvidence
<1>2. CASE FromRule(a)
  <2> DEFINE r == Rank(a.severity)
  <2>1. r \in 0 .. 4 /\ a.confidence = 9500 - 500 * (4 - r)
    BY <1>2, RulesAlert, RankIsSmall DEF ScoreRuleMatch
  <2> HIDE DEF r
  <2> QED
    BY <2>1 DEF Certain
<1> QED
  BY <1>1, <1>2

LEMMA ScoresGrow ==
  ASSUME NEW a, NEW b, FromDetector(a) \/ FromRule(a), FromDetector(b) \/ FromRule(b),
         a.source = b.source, a.source = "detector" => a.name = b.name,
         Rank(a.severity) <= Rank(b.severity),
         a.magnitude = Nothing \/ (b.magnitude # Nothing /\ a.magnitude <= b.magnitude)
  PROVE  a.confidence <= b.confidence
<1> DEFINE r == Rank(a.severity)
           t == Rank(b.severity)
<1>1. CASE FromDetector(a) /\ FromDetector(b)
  <2> DEFINE e == EvidenceTerm(a.name, a.magnitude)
             f == EvidenceTerm(b.name, b.magnitude)
  <2>1. /\ a.confidence = ScoreAlert(a.name, a.severity, a.magnitude)
        /\ b.confidence = ScoreAlert(b.name, b.severity, b.magnitude)
        /\ a.magnitude \in Nat \cup {Nothing} /\ b.magnitude \in Nat \cup {Nothing}
        /\ a.name = b.name /\ r \in 0 .. 4 /\ t \in 0 .. 4
    BY <1>1, DetectorsAlert, RankIsSmall
  <2>2. IsEvidence(e) /\ IsEvidence(f) /\ e <= f
    <3>1. IsEvidence(e)
      BY <2>1, EvidenceIsBounded, Zenon
    <3>2. IsEvidence(f)
      BY <2>1, EvidenceIsBounded, Zenon
    <3>3. EvidenceTerm(a.name, a.magnitude) <= EvidenceTerm(a.name, b.magnitude)
      BY <2>1, EvidenceGrows, Zenon
    <3> QED
      BY <2>1, <3>1, <3>2, <3>3, Zenon
  <2>3. /\ a.confidence = Least(5000 + 500 * r + e, Certain)
        /\ b.confidence = Least(5000 + 500 * t + f, Certain)
    BY <2>1 DEF ScoreAlert
  <2>4. r <= t
    OBVIOUS
  <2> HIDE DEF e, f, r, t
  <2> QED
    BY <2>1, <2>2, <2>3, <2>4 DEF Least, Certain, IsEvidence
<1>2. CASE FromRule(a) /\ FromRule(b)
  <2>1. /\ r \in 0 .. 4 /\ a.confidence = 9500 - 500 * (4 - r)
        /\ t \in 0 .. 4 /\ b.confidence = 9500 - 500 * (4 - t)
    BY <1>2, RulesAlert, RankIsSmall DEF ScoreRuleMatch
  <2>2. r <= t
    OBVIOUS
  <2> HIDE DEF r, t
  <2> QED
    BY <2>1, <2>2
<1> QED
  BY <1>1, <1>2, DetectorsAlert, RulesAlert

----------------------------------------------------------------------------
TheAlerts == {BuildAlert(d) : d \in Detections} \cup {BuildRuleAlert(m) : m \in Matches}
CounterKinds == {"delivered", "failed"}

ContentTypes ==
    /\ hooks \in Seq(DOMAIN Hooks) /\ raised \in Seq(TheAlerts)
    /\ sending \in [Senders -> TheAlerts \cup {Nothing}]
    /\ next \in [Senders -> Nat]
    /\ tally \in [Senders -> [kind : CounterKinds, value : Nat] \cup {Nothing}]
    /\ counted \in [DOMAIN Hooks -> [CounterKinds -> Nat]]
    /\ told \in [DOMAIN Hooks -> Seq(TheAlerts)]

(* Some hook was given the alert a sender hands out.                       *)
Heard(h, s) == \E k \in DOMAIN told[h] : told[h][k] = sending[s]

(* A sender is at a hook of the list or past it, and counts what it has    *)
(* just given.                                                             *)
SendersStand ==
    \A s \in Senders :
      /\ sending[s] # Nothing => next[s] \in 1 .. Len(hooks) + 1
      /\ tally[s] # Nothing =>
           sending[s] # Nothing /\ next[s] \in 1 .. Len(hooks) /\ Heard(hooks[next[s]], s)

(* A counter of a hook, and what senders that count have read of it: one   *)
(* may be written over the other, so each has to stay within the calls     *)
(* that are over.                                                          *)
Counting(s, h) == tally[s] # Nothing /\ hooks[next[s]] = h
Pending(h) ==
    (IF Counting("capture", h) THEN 1 ELSE 0) + (IF Counting("evaluation", h) THEN 1 ELSE 0)
Holds(h, counter, n) ==
    \/ n = counted[h][counter]
    \/ \E s \in Senders : Counting(s, h) /\ tally[s].kind = counter /\ tally[s].value = n

CountsAreTrue ==
    \A h \in DOMAIN Hooks : \A d, f \in Nat :
      Holds(h, "delivered", d) /\ Holds(h, "failed", f) => d + f + Pending(h) <= Len(told[h])

OnlyWanted == \A h \in DOMAIN Hooks : \A i \in DOMAIN told[h] : ShouldSend(h, told[h][i])

NoneMissed ==
    \A s \in Senders : sending[s] # Nothing =>
      \A i \in 1 .. Len(hooks) :
        i < next[s] /\ ShouldSend(hooks[i], sending[s]) => Heard(hooks[i], s)

ContentInv == ContentTypes /\ SendersStand /\ CountsAreTrue /\ OnlyWanted /\ NoneMissed

LEMMA HooksServed == ContentInv => HooksAreServed
<1> SUFFICES ASSUME ContentInv, NEW h \in DOMAIN Hooks
             PROVE  /\ counted[h].delivered + counted[h].failed <= Len(told[h])
                    /\ \A i \in DOMAIN told[h] : ShouldSend(h, told[h][i])
                    /\ \A s \in Senders, i \in DOMAIN hooks :
                         sending[s] # Nothing /\ hooks[i] = h /\ i < next[s]
                         /\ ShouldSend(h, sending[s]) => Heard(h, s)
  BY DEF HooksAreServed, Heard
<1>1. counted[h].delivered + counted[h].failed <= Len(told[h])
  <2>1. counted[h].delivered \in Nat /\ counted[h].failed \in Nat
    BY DEF ContentInv, ContentTypes, CounterKinds
  <2>2. Holds(h, "delivered", counted[h].delivered) /\ Holds(h, "failed", counted[h].failed)
    BY DEF Holds
  <2>3. counted[h].delivered + counted[h].failed + Pending(h) <= Len(told[h])
    BY <2>1, <2>2 DEF ContentInv, CountsAreTrue
  <2>4. Pending(h) \in Nat /\ Len(told[h]) \in Nat
    BY DEF Pending, ContentInv, ContentTypes
  <2> QED
    BY <2>1, <2>3, <2>4
<1>2. \A i \in DOMAIN told[h] : ShouldSend(h, told[h][i])
  BY DEF ContentInv, OnlyWanted
<1>3. DOMAIN hooks = 1 .. Len(hooks)
  BY DEF ContentInv, ContentTypes
<1>4. \A s \in Senders, i \in DOMAIN hooks :
        sending[s] # Nothing /\ hooks[i] = h /\ i < next[s] /\ ShouldSend(h, sending[s]) => Heard(h, s)
  BY <1>3 DEF ContentInv, NoneMissed
<1> QED
  BY <1>1, <1>2, <1>4

LEMMA NoLessSure == ContentInv => WorseIsNoLessSure
<1> SUFFICES ASSUME ContentInv, NEW i \in DOMAIN raised, NEW j \in DOMAIN raised
             PROVE  /\ raised[i].confidence \in 0 .. Certain
                    /\ /\ raised[i].source = raised[j].source
                       /\ raised[i].source = "detector" => raised[i].name = raised[j].name
                       /\ Rank(raised[i].severity) <= Rank(raised[j].severity)
                       /\ \/ raised[i].magnitude = Nothing
                          \/ raised[j].magnitude # Nothing /\ raised[i].magnitude <= raised[j].magnitude
                       => raised[i].confidence <= raised[j].confidence
  BY Zenon DEF WorseIsNoLessSure
<1>1. raised[i] \in TheAlerts /\ raised[j] \in TheAlerts
  BY DEF ContentInv, ContentTypes
<1>2. /\ FromDetector(raised[i]) \/ FromRule(raised[i])
      /\ FromDetector(raised[j]) \/ FromRule(raised[j])
  BY <1>1, Zenon DEF TheAlerts, FromDetector, FromRule
<1> QED
  BY <1>2, ScoresAreBounded, ScoresGrow, Zenon

LEMMA ContentStart == ContentInit => ContentInv
<1> SUFFICES ASSUME ContentInit PROVE ContentInv
  OBVIOUS
<1> USE DEF ContentInit
<1>1. ContentTypes
  BY DEF ContentTypes, CounterKinds
<1>2. SendersStand /\ OnlyWanted /\ NoneMissed
  BY DEF SendersStand, OnlyWanted, NoneMissed
<1>3. CountsAreTrue
  BY DEF CountsAreTrue, Holds, Counting, Pending, Senders
<1> QED
  BY <1>1, <1>2, <1>3 DEF ContentInv

(* A hook that registers goes to the end of the list, past where the       *)
(* senders are.                                                            *)
LEMMA RegisterKeeps ==
  ASSUME ContentInv, NEW hook \in DOMAIN Hooks, Register(hook)
  PROVE  ContentInv'
<1>1. /\ hooks' = Append(hooks, hook)
      /\ UNCHANGED <<raised, sending, next, tally, counted, told>>
  BY DEF Register
<1>2. /\ hooks' \in Seq(DOMAIN Hooks) /\ Len(hooks') = Len(hooks) + 1 /\ Len(hooks) \in Nat
      /\ \A i \in 1 .. Len(hooks) : hooks'[i] = hooks[i]
  BY <1>1 DEF ContentInv, ContentTypes
<1>3. ContentTypes'
  BY <1>1, <1>2 DEF ContentInv, ContentTypes
<1>4. \A s \in Senders : tally[s] # Nothing => next[s] \in 1 .. Len(hooks) /\ hooks'[next[s]] = hooks[next[s]]
  BY <1>2 DEF ContentInv, SendersStand
<1>5. \A h, s : Heard(h, s)' = Heard(h, s)
  BY <1>1 DEF Heard
<1>6. SendersStand'
  BY <1>1, <1>2, <1>4, <1>5 DEF ContentInv, SendersStand, ContentTypes
<1>7. CountsAreTrue'
  <2>1. \A h, s : s \in Senders => Counting(s, h)' = Counting(s, h)
    BY <1>1, <1>4 DEF Counting
  <2>2. \A h : Pending(h)' = Pending(h)
    BY <2>1 DEF Pending, Senders
  <2>3. \A h, counter, n : Holds(h, counter, n)' => Holds(h, counter, n)
    BY <1>1, <2>1 DEF Holds
  <2> QED
    BY <1>1, <2>2, <2>3 DEF ContentInv, CountsAreTrue
<1>8. OnlyWanted'
  BY <1>1 DEF ContentInv, OnlyWanted, ShouldSend
<1>9. NoneMissed'
  <2> SUFFICES ASSUME NEW s \in Senders, sending[s] # Nothing, NEW i \in 1 .. Len(hooks'),
                      i < next[s], ShouldSend(hooks'[i], sending[s])
               PROVE  Heard(hooks[i], s)'
    BY <1>1 DEF NoneMissed, ShouldSend
  <2>1. next[s] \in 1 .. Len(hooks) + 1
    BY DEF ContentInv, SendersStand
  <2>2. i \in 1 .. Len(hooks)
    BY <1>2, <2>1
  <2>3. hooks'[i] = hooks[i]
    BY <1>2, <2>2
  <2>4. Heard(hooks[i], s)
    BY <2>2, <2>3 DEF ContentInv, NoneMissed
  <2> QED
    BY <1>1, <2>3, <2>4 DEF Heard
<1> QED
  BY <1>3, <1>6, <1>7, <1>8, <1>9 DEF ContentInv

LEMMA DispatchKeeps ==
  ASSUME ContentInv, NEW s \in Senders, NEW alert \in TheAlerts, Dispatch(s, alert)
  PROVE  ContentInv'
<1>1. /\ sending[s] = Nothing
      /\ raised' = Append(raised, alert)
      /\ sending' = [sending EXCEPT ![s] = alert]
      /\ next' = [next EXCEPT ![s] = 1]
      /\ UNCHANGED <<hooks, tally, counted, told>>
  BY DEF Dispatch
<1>2. ContentTypes'
  BY <1>1 DEF ContentInv, ContentTypes
<1>3. tally[s] = Nothing
  BY <1>1 DEF ContentInv, SendersStand
<1>4. /\ next'[s] = 1
      /\ \A t \in Senders \ {s} : next'[t] = next[t] /\ sending'[t] = sending[t]
  BY <1>1 DEF ContentInv, ContentTypes
<1>5. \A h : \A t \in Senders \ {s} : Heard(h, t)' = Heard(h, t)
  BY <1>1, <1>4 DEF Heard
<1>6. SendersStand'
  <2>1. Len(hooks) \in Nat
    BY DEF ContentInv, ContentTypes
  <2> QED
    BY <1>1, <1>3, <1>4, <1>5, <2>1 DEF ContentInv, SendersStand
<1>7. CountsAreTrue'
  <2>1. \A h : \A t \in Senders : Counting(t, h)' = Counting(t, h)
    BY <1>1, <1>3, <1>4 DEF Counting
  <2>2. \A h : Pending(h)' = Pending(h)
    BY <2>1 DEF Pending, Senders
  <2>3. \A h, counter, n : Holds(h, counter, n)' => Holds(h, counter, n)
    BY <1>1, <2>1 DEF Holds
  <2> QED
    BY <1>1, <2>2, <2>3 DEF ContentInv, CountsAreTrue
<1>8. OnlyWanted'
  BY <1>1 DEF ContentInv, OnlyWanted, ShouldSend
<1>9. NoneMissed'
  BY <1>1, <1>4, <1>5 DEF ContentInv, NoneMissed, ShouldSend
<1> QED
  BY <1>2, <1>6, <1>7, <1>8, <1>9 DEF ContentInv

(* A hook that does not want the alert is passed by.                       *)
LEMMA PassingKeeps ==
  ASSUME ContentInv, NEW s \in Senders, sending[s] # Nothing, tally[s] = Nothing,
         next[s] \in DOMAIN hooks, ~ShouldSend(hooks[next[s]], sending[s]),
         Passed(s), UNCHANGED <<hooks, raised, sending, tally, counted, told>>
  PROVE  ContentInv'
<1>1. /\ next[s] \in 1 .. Len(hooks) /\ Len(hooks) \in Nat
      /\ next'[s] = next[s] + 1 /\ next' \in [Senders -> Nat]
      /\ \A t \in Senders \ {s} : next'[t] = next[t]
  BY DEF ContentInv, ContentTypes, Passed
<1>2. ContentTypes'
  BY <1>1 DEF ContentInv, ContentTypes
<1>3. \A h, t : Heard(h, t)' = Heard(h, t)
  BY DEF Heard
<1>4. SendersStand'
  BY <1>1, <1>3 DEF ContentInv, SendersStand
<1>5. CountsAreTrue'
  <2>1. \A h : \A t \in Senders : Counting(t, h)' = Counting(t, h)
    BY <1>1 DEF Counting
  <2>2. \A h : Pending(h)' = Pending(h)
    BY <2>1 DEF Pending, Senders
  <2>3. \A h, counter, n : Holds(h, counter, n)' => Holds(h, counter, n)
    BY <2>1 DEF Holds
  <2> QED
    BY <2>2, <2>3 DEF ContentInv, CountsAreTrue
<1>6. OnlyWanted'
  BY DEF ContentInv, OnlyWanted, ShouldSend
<1>7. NoneMissed'
  <2> SUFFICES ASSUME NEW t \in Senders, sending[t] # Nothing, NEW i \in 1 .. Len(hooks),
                      i < next'[t], ShouldSend(hooks[i], sending[t])
               PROVE  Heard(hooks[i], t)
    BY <1>3 DEF NoneMissed, ShouldSend
  <2>1. i < next[t]
    BY <1>1
  <2> QED
    BY <2>1 DEF ContentInv, NoneMissed
<1> QED
  BY <1>2, <1>4, <1>5, <1>6, <1>7 DEF ContentInv

(* The hook is called; what is to be counted has been read.                *)
LEMMA CallingKeeps ==
  ASSUME ContentInv, NEW s \in Senders, NEW hook, NEW counter \in CounterKinds,
         sending[s] # Nothing, tally[s] = Nothing,
         next[s] \in DOMAIN hooks, hook = hooks[next[s]], ShouldSend(hook, sending[s]),
         told' = [told EXCEPT ![hook] = Append(@, sending[s])], Read(s, hook, counter),
         UNCHANGED <<hooks, raised, sending, next, counted>>
  PROVE  ContentInv'
<1> DEFINE reading == [kind |-> counter, value |-> counted[hook][counter]]
<1>1. /\ next[s] \in 1 .. Len(hooks) /\ hook \in DOMAIN Hooks
      /\ sending[s] \in TheAlerts
      /\ counted[hook][counter] \in Nat
  BY DEF ContentInv, ContentTypes
<1>2. /\ tally' = [tally EXCEPT ![s] = reading]
      /\ reading \in [kind : CounterKinds, value : Nat]
      /\ reading.kind = counter /\ reading.value = counted[hook][counter]
  BY <1>1 DEF Read
<1> HIDE DEF reading
<1>3. /\ told'[hook] = Append(told[hook], sending[s])
      /\ told[hook] \in Seq(TheAlerts) /\ Len(told[hook]) \in Nat
      /\ \A h \in DOMAIN Hooks \ {hook} : told'[h] = told[h]
      /\ told' \in [DOMAIN Hooks -> Seq(TheAlerts)]
  BY <1>1 DEF ContentInv, ContentTypes
<1>4. /\ tally'[s] = reading /\ \A t \in Senders \ {s} : tally'[t] = tally[t]
      /\ tally' \in [Senders -> [kind : CounterKinds, value : Nat] \cup {Nothing}]
  BY <1>2 DEF ContentInv, ContentTypes
<1>5. ContentTypes'
  BY <1>3, <1>4 DEF ContentInv, ContentTypes
<1>6. /\ Len(told'[hook]) = Len(told[hook]) + 1
      /\ told'[hook][Len(told[hook]) + 1] = sending[s]
      /\ DOMAIN told[hook] = 1 .. Len(told[hook])
      /\ DOMAIN told'[hook] = 1 .. Len(told[hook]) + 1
      /\ \A k \in 1 .. Len(told[hook]) : told'[hook][k] = told[hook][k]
  BY <1>1, <1>3
<1>7. \A h \in DOMAIN Hooks, t \in Senders : Heard(h, t) => Heard(h, t)'
  BY <1>3, <1>6 DEF Heard
<1>8. Heard(hook, s)'
  BY <1>3, <1>6 DEF Heard
<1>9. SendersStand'
  <2>1. \A i \in 1 .. Len(hooks) : hooks[i] \in DOMAIN Hooks
    BY DEF ContentInv, ContentTypes
  <2> QED
    BY <1>1, <1>4, <1>7, <1>8, <2>1 DEF ContentInv, SendersStand
<1>10. CountsAreTrue'
  <2> SUFFICES ASSUME NEW h \in DOMAIN Hooks, NEW d \in Nat, NEW f \in Nat,
                      Holds(h, "delivered", d)', Holds(h, "failed", f)'
               PROVE  d + f + Pending(h)' <= Len(told'[h])
    BY DEF CountsAreTrue
  <2>1. \A t \in Senders \ {s} : Counting(t, h)' = Counting(t, h)
    BY <1>4 DEF Counting
  <2>2. ~Counting(s, h) /\ (Counting(s, h)' => h = hook)
    BY DEF Counting
  <2>3. \A k, n : Holds(h, k, n)' => Holds(h, k, n)
    BY <1>2, <1>4, <2>1, <2>2 DEF Holds
  <2>4. d + f + Pending(h) <= Len(told[h])
    BY <2>3 DEF ContentInv, CountsAreTrue
  <2>5. Pending(h) \in Nat /\ Pending(h)' \in Nat /\ Len(told[h]) \in Nat
    BY DEF Pending, ContentInv, ContentTypes
  <2>6. CASE h = hook
    <3>1. Pending(h)' <= Pending(h) + 1
      BY <2>1, <2>2 DEF Pending, Senders
    <3> QED
      BY <1>6, <2>4, <2>5, <2>6, <3>1
  <2>7. CASE h # hook
    <3>1. Pending(h)' = Pending(h)
      BY <2>1, <2>2, <2>7 DEF Pending, Senders
    <3> QED
      BY <1>3, <2>4, <2>7, <3>1
  <2> QED
    BY <2>6, <2>7
<1>11. OnlyWanted'
  BY <1>3, <1>6 DEF ContentInv, OnlyWanted, ShouldSend
<1>12. NoneMissed'
  <2>1. \A i \in 1 .. Len(hooks) : hooks[i] \in DOMAIN Hooks
    BY DEF ContentInv, ContentTypes
  <2> QED
    BY <1>7, <2>1 DEF ContentInv, NoneMissed, ShouldSend
<1> QED
  BY <1>5, <1>9, <1>10, <1>11, <1>12 DEF ContentInv

(* What was read is written back, over what another sender may have        *)
(* written since; the call it stands for is no longer pending.             *)
LEMMA CountKeeps ==
  ASSUME ContentInv, NEW s \in Senders, Count(s)
  PROVE  ContentInv'
<1> DEFINE hook == hooks[next[s]]
           counter == tally[s].kind
           value == tally[s].value
<1>1. /\ tally[s] # Nothing
      /\ counted' = [counted EXCEPT ![hook][counter] = value + 1]
      /\ tally' = [tally EXCEPT ![s] = Nothing]
      /\ next' = [next EXCEPT ![s] = @ + 1]
      /\ UNCHANGED <<hooks, raised, sending, told>>
  BY DEF Count, Passed
<1>2. /\ tally[s] \in [kind : CounterKinds, value : Nat]
      /\ sending[s] # Nothing /\ next[s] \in 1 .. Len(hooks) /\ Heard(hook, s)
      /\ hook \in DOMAIN Hooks /\ counter \in CounterKinds /\ value \in Nat
      /\ Len(hooks) \in Nat
  BY <1>1 DEF ContentInv, ContentTypes, SendersStand
<1>3. Counting(s, hook) /\ Holds(hook, counter, value)
  BY <1>1 DEF Counting, Holds
<1> HIDE DEF hook, counter, value
<1>4. /\ next'[s] = next[s] + 1 /\ next' \in [Senders -> Nat]
      /\ tally'[s] = Nothing
      /\ \A t \in Senders \ {s} : next'[t] = next[t] /\ tally'[t] = tally[t]
      /\ tally' \in [Senders -> [kind : CounterKinds, value : Nat] \cup {Nothing}]
  BY <1>1 DEF ContentInv, ContentTypes
<1>5. /\ counted'[hook][counter] = value + 1
      /\ \A k \in CounterKinds \ {counter} : counted'[hook][k] = counted[hook][k]
      /\ \A h \in DOMAIN Hooks \ {hook} : counted'[h] = counted[h]
      /\ counted' \in [DOMAIN Hooks -> [CounterKinds -> Nat]]
  <2> DEFINE entry == [counted[hook] EXCEPT ![counter] = value + 1]
  <2>1. /\ counted \in [DOMAIN Hooks -> [CounterKinds -> Nat]]
        /\ counted[hook] \in [CounterKinds -> Nat] /\ value + 1 \in Nat
    BY <1>2 DEF ContentInv, ContentTypes
  <2>2. /\ entry \in [CounterKinds -> Nat] /\ entry[counter] = value + 1
        /\ \A k \in CounterKinds \ {counter} : entry[k] = counted[hook][k]
    BY <1>2, <2>1
  <2>3. counted' = [counted EXCEPT ![hook] = entry]
    BY <1>1
  <2> HIDE DEF entry
  <2> QED
    BY <1>2, <2>1, <2>2, <2>3
<1>6. ContentTypes'
  BY <1>1, <1>4, <1>5 DEF ContentInv, ContentTypes
<1>7. \A h, t : Heard(h, t)' = Heard(h, t)
  BY <1>1 DEF Heard
<1>8. SendersStand'
  BY <1>1, <1>2, <1>4, <1>7 DEF ContentInv, SendersStand
<1>9. CountsAreTrue'
  <2> SUFFICES ASSUME NEW h \in DOMAIN Hooks, NEW d \in Nat, NEW f \in Nat,
                      Holds(h, "delivered", d)', Holds(h, "failed", f)'
               PROVE  d + f + Pending(h)' <= Len(told[h])
    BY <1>1 DEF CountsAreTrue
  <2>1. /\ \A t \in Senders \ {s} : Counting(t, h)' = Counting(t, h)
        /\ ~Counting(s, h)'
    BY <1>1, <1>4 DEF Counting
  <2>2. Pending(h) \in Nat /\ Pending(h)' \in Nat /\ Len(told[h]) \in Nat
    BY DEF Pending, ContentInv, ContentTypes
  <2>3. CASE h = hook
    <3>1. Pending(h) = Pending(h)' + 1
      BY <1>3, <2>1, <2>3 DEF Pending, Senders
    <3>2. \A k \in CounterKinds, n \in Nat : Holds(h, k, n)' =>
            Holds(h, k, n) \/ (k = counter /\ n = value + 1)
      BY <1>4, <1>5, <2>1, <2>3 DEF Holds
    <3>3. /\ Holds(h, "delivered", d) \/ ("delivered" = counter /\ d = value + 1)
          /\ Holds(h, "failed", f) \/ ("failed" = counter /\ f = value + 1)
      BY <3>2 DEF CounterKinds
    <3>4. CASE Holds(h, "delivered", d) /\ Holds(h, "failed", f)
      <4>1. d + f + Pending(h) <= Len(told[h])
        BY <3>4 DEF ContentInv, CountsAreTrue
      <4> QED
        BY <2>2, <3>1, <4>1
    <3>5. CASE counter = "delivered" /\ d = value + 1 /\ Holds(h, "failed", f)
      <4>1. value + f + Pending(h) <= Len(told[h])
        BY <1>2, <1>3, <2>3, <3>5 DEF ContentInv, CountsAreTrue
      <4> QED
        BY <1>2, <2>2, <3>1, <3>5, <4>1
    <3>6. CASE counter = "failed" /\ f = value + 1 /\ Holds(h, "delivered", d)
      <4>1. d + value + Pending(h) <= Len(told[h])
        BY <1>2, <1>3, <2>3, <3>6 DEF ContentInv, CountsAreTrue
      <4> QED
        BY <1>2, <2>2, <3>1, <3>6, <4>1
    <3> QED
      BY <3>3, <3>4, <3>5, <3>6
  <2>4. CASE h # hook
    <3>1. ~Counting(s, h)
      BY <2>4 DEF Counting, hook
    <3>2. Pending(h)' = Pending(h)
      BY <2>1, <3>1 DEF Pending, Senders
    <3>3. \A k, n : Holds(h, k, n)' => Holds(h, k, n)
      BY <1>4, <1>5, <2>1, <2>4 DEF Holds
    <3> QED
      BY <3>2, <3>3 DEF ContentInv, CountsAreTrue
  <2> QED
    BY <2>3, <2>4
<1>10. OnlyWanted'
  BY <1>1 DEF ContentInv, OnlyWanted, ShouldSend
<1>11. NoneMissed'
  <2> SUFFICES ASSUME NEW t \in Senders, sending[t] # Nothing, NEW i \in 1 .. Len(hooks),
                      i < next'[t], ShouldSend(hooks[i], sending[t])
               PROVE  Heard(hooks[i], t)
    BY <1>1, <1>7 DEF NoneMissed, ShouldSend
  <2>1. CASE i < next[t]
    BY <2>1 DEF ContentInv, NoneMissed
  <2>2. CASE ~(i < next[t])
    <3>1. t = s /\ i = next[s]
      BY <1>2, <1>4, <2>2
    <3> QED
      BY <1>2, <3>1 DEF hook
  <2> QED
    BY <2>1, <2>2
<1> QED
  BY <1>6, <1>8, <1>9, <1>10, <1>11 DEF ContentInv

LEMMA SentKeeps ==
  ASSUME ContentInv, NEW s \in Senders, Sent(s)
  PROVE  ContentInv'
<1>1. /\ tally[s] = Nothing
      /\ sending' = [sending EXCEPT ![s] = Nothing]
      /\ UNCHANGED <<hooks, raised, next, tally, counted, told>>
  BY DEF Sent
<1>2. /\ sending'[s] = Nothing /\ \A t \in Senders \ {s} : sending'[t] = sending[t]
      /\ sending' \in [Senders -> TheAlerts \cup {Nothing}]
  BY <1>1 DEF ContentInv, ContentTypes
<1>3. ContentTypes'
  BY <1>1, <1>2 DEF ContentInv, ContentTypes
<1>4. \A h : \A t \in Senders \ {s} : Heard(h, t)' = Heard(h, t)
  BY <1>1, <1>2 DEF Heard
<1>5. SendersStand'
  BY <1>1, <1>2, <1>4 DEF ContentInv, SendersStand
<1>6. CountsAreTrue'
  BY <1>1 DEF ContentInv, CountsAreTrue, Holds, Pending, Counting
<1>7. OnlyWanted'
  BY <1>1 DEF ContentInv, OnlyWanted, ShouldSend
<1>8. NoneMissed'
  BY <1>1, <1>2, <1>4 DEF ContentInv, NoneMissed, ShouldSend
<1> QED
  BY <1>3, <1>5, <1>6, <1>7, <1>8 DEF ContentInv

LEMMA ContentStep == ContentInv /\ [ContentNext]_content => ContentInv'
<1> SUFFICES ASSUME ContentInv, [ContentNext]_content PROVE ContentInv'
  OBVIOUS
<1>1. ASSUME NEW hook \in DOMAIN Hooks, Register(hook) PROVE ContentInv'
  BY <1>1, RegisterKeeps
<1>2. CASE HandleFinding
  <2>1. ASSUME NEW d \in Detections, Dispatch("evaluation", BuildAlert(d)) PROVE ContentInv'
    <3>1. BuildAlert(d) \in TheAlerts /\ "evaluation" \in Senders
      BY Zenon DEF TheAlerts, Senders
    <3> QED
      BY <2>1, <3>1, DispatchKeeps, Zenon
  <2>2. ASSUME NEW m \in Matches, Dispatch("capture", BuildRuleAlert(m)) PROVE ContentInv'
    <3>1. BuildRuleAlert(m) \in TheAlerts /\ "capture" \in Senders
      BY Zenon DEF TheAlerts, Senders
    <3> QED
      BY <2>2, <3>1, DispatchKeeps, Zenon
  <2> QED
    BY <1>2, <2>1, <2>2 DEF HandleFinding
<1>3. ASSUME NEW s \in Senders, Send(s) PROVE ContentInv'
  <2> DEFINE hook == hooks[next[s]]
  <2>1. /\ sending[s] # Nothing /\ tally[s] = Nothing /\ next[s] \in DOMAIN hooks
        /\ UNCHANGED <<hooks, raised, sending, counted>>
        /\ IF ~ShouldSend(hook, sending[s]) THEN Passed(s) /\ UNCHANGED <<told, tally>>
           ELSE /\ told' = [told EXCEPT ![hook] = Append(@, sending[s])]
                /\ \E counter \in CounterKinds : Read(s, hook, counter)
                /\ UNCHANGED next
    BY <1>3, Zenon DEF Send, CounterKinds
  <2>2. CASE ~ShouldSend(hook, sending[s])
    BY <2>1, <2>2, PassingKeeps
  <2>3. CASE ShouldSend(hook, sending[s])
    <3>1. PICK counter \in CounterKinds : Read(s, hook, counter)
      BY <2>1, <2>3
    <3> QED
      BY <2>1, <2>3, <3>1, CallingKeeps
  <2> QED
    BY <2>2, <2>3
<1>4. ASSUME NEW s \in Senders, Count(s) PROVE ContentInv'
  BY <1>4, CountKeeps
<1>5. ASSUME NEW s \in Senders, Sent(s) PROVE ContentInv'
  BY <1>5, SentKeeps
<1>6. CASE UNCHANGED content
  <2>1. UNCHANGED <<hooks, raised, sending, next, tally, counted, told>>
    BY <1>6 DEF content
  <2>2. ContentTypes' /\ SendersStand'
    BY <2>1 DEF ContentInv, ContentTypes, SendersStand, Heard
  <2>3. CountsAreTrue'
    BY <2>1 DEF ContentInv, CountsAreTrue, Holds, Pending, Counting
  <2>4. OnlyWanted' /\ NoneMissed'
    BY <2>1 DEF ContentInv, OnlyWanted, NoneMissed, Heard, ShouldSend
  <2> QED
    BY <2>2, <2>3, <2>4 DEF ContentInv
<1> QED
  BY <1>1, <1>2, <1>3, <1>4, <1>5, <1>6 DEF ContentNext

-----------------------------------------------------------------------------
(* What the database keeps.                                                *)

Shelves == {"packets", "alerts", "statistics", "cache"}
Evidence == [alert : Nat, at : Nat]
Snapshots == [at : Nat]
Lookups == [expires : Nat]
AnyRow == Evidence \cup Snapshots \cup Lookups

Shelved(shelf) ==
    /\ shelf \in [Shelves -> SUBSET AnyRow]
    /\ shelf["packets"] \subseteq Evidence /\ shelf["alerts"] \subseteq Evidence
    /\ shelf["statistics"] \subseteq Snapshots /\ shelf["cache"] \subseteq Lookups

UpkeepTypeOK ==
    /\ policy \in Policies \cup {Absent}
    /\ policy # Absent => ValidPolicy(policy)
    /\ day \in Nat /\ reference \in Nat /\ reference <= day
    /\ sweep \in 0 .. 4
    /\ raising \in Evidence \cup {Absent}
    /\ Shelved(rows) /\ Shelved(stored) /\ Shelved(due)
    /\ IsFiniteSet(stored["alerts"])

(* No alert is numbered beyond those there were, evidence is of one of     *)
(* them, and the one in hand has none yet.                                 *)
Numbered ==
    /\ \A r \in stored["alerts"] : r.alert <= Cardinality(stored["alerts"])
    /\ stored["packets"] \subseteq stored["alerts"]
    /\ raising # Absent => raising \in stored["alerts"] /\ raising \notin stored["packets"]
    /\ policy = Absent => raising = Absent /\ sweep = 0

(* What the last sweep has to remove had outlived its window when it began *)
(* and is one of the rows there were.                                      *)
Doomed ==
    \A t \in Shelves : \A r \in due[t] : r \in stored[t] /\ Outlived(t, r, reference)

OnlyOutlived ==
    \A t \in Shelves : \A r \in stored[t] \ rows[t] : Outlived(t, r, day)

(* What may be in a table though the sweep had to remove it.               *)
Spared(t) == IF t = "alerts" THEN revived ELSE {}

Removed ==
    \A i \in 1 .. 4 :
      sweep = 0 \/ i < sweep => due[Tables[i]] \cap rows[Tables[i]] \subseteq Spared(Tables[i])

UpkeepInv ==
    /\ UpkeepTypeOK /\ Numbered /\ Doomed /\ OnlyOutlived /\ Removed
    /\ \A t \in Shelves : rows[t] \subseteq stored[t]
    /\ rows["packets"] \subseteq rows["alerts"]

LEMMA TablesAre ==
    /\ Tables[1] = "packets" /\ Tables[2] = "alerts" /\ Tables[3] = "statistics" /\ Tables[4] = "cache"
    /\ DOMAIN Tables = 1 .. 4 /\ Len(Tables) = 4
    /\ \A i \in 1 .. 4 : Tables[i] \in Shelves
BY DEF Tables, Shelves

LEMMA EmptyIs == Shelved(Empty) /\ \A t \in Shelves : Empty[t] = {}
BY DEF Empty, Shelved, Shelves

LEMMA UpkeepStart == UpkeepInit => UpkeepInv
<1> SUFFICES ASSUME UpkeepInit PROVE UpkeepInv
  OBVIOUS
<1> USE EmptyIs DEF UpkeepInit
<1>1. Empty["packets"] = {} /\ Empty["alerts"] = {}
  BY DEF Shelves
<1>2. UpkeepTypeOK
  BY <1>1, FS_EmptySet DEF UpkeepTypeOK
<1>3. Numbered /\ Doomed /\ OnlyOutlived /\ Removed
  BY <1>1, TablesAre DEF Numbered, Doomed, OnlyOutlived, Removed
<1> QED
  BY <1>1, <1>2, <1>3 DEF UpkeepInv

(* What has outlived its window stays so, and the cutoff of a sweep is     *)
(* that window as of its day.                                              *)
LEMMA OutlivedStays ==
  ASSUME UpkeepTypeOK, policy # Absent, NEW t \in Shelves, NEW r,
         t \in {"packets", "alerts"} => r \in Evidence,
         t = "statistics" => r \in Snapshots, t = "cache" => r \in Lookups,
         NEW d \in Nat, NEW e \in Nat, d <= e, Outlived(t, r, d)
  PROVE  Outlived(t, r, e)
<1>1. policy \in [alerts : Nat, packets : Nat, statistics : Nat]
  BY UpkeepAssumption DEF UpkeepTypeOK
<1>2. CASE t = "cache"
  BY <1>2 DEF Outlived, Lookups
<1>3. CASE t = "packets"
  BY <1>1, <1>3 DEF Outlived, Evidence
<1>4. CASE t = "alerts"
  BY <1>1, <1>4 DEF Outlived, Evidence
<1>5. CASE t = "statistics"
  BY <1>1, <1>5 DEF Outlived, Snapshots
<1> QED
  BY <1>2, <1>3, <1>4, <1>5 DEF Shelves

(* No packet is kept longer than its alert.                                *)
LEMMA EvidenceGoesFirst ==
  ASSUME UpkeepTypeOK, policy # Absent, NEW r \in Evidence,
         NEW d \in Nat, NEW e \in Nat, d <= e, Outlived("alerts", r, d)
  PROVE  Outlived("packets", r, e)
<1>1. policy \in [alerts : Nat, packets : Nat, statistics : Nat]
  BY UpkeepAssumption DEF UpkeepTypeOK
<1>2. policy.packets <= policy.alerts
  BY DEF UpkeepTypeOK, ValidPolicy
<1> QED
  BY <1>1, <1>2 DEF Outlived, Evidence

LEMMA StaleIs ==
  ASSUME NEW t \in Shelves, NEW r
  PROVE  Stale(t, r) <=> Outlived(t, r, reference)
<1>1. CASE t = "cache"
  BY <1>1 DEF Stale, Outlived
<1>2. CASE t = "packets"
  BY <1>2 DEF Stale, Outlived
<1>3. CASE t = "alerts"
  BY <1>3 DEF Stale, Outlived
<1>4. CASE t = "statistics"
  BY <1>4 DEF Stale, Outlived
<1> QED
  BY <1>1, <1>2, <1>3, <1>4 DEF Shelves

(* A row that enters a table: it was never there, or is a lookup that      *)
(* expires later than any that a sweep is after.                           *)
LEMMA Inserted ==
  ASSUME UpkeepInv, policy # Absent, NEW t \in Shelves, NEW r, Insert(t, r),
         t \in {"packets", "alerts"} => r \in Evidence,
         t = "statistics" => r \in Snapshots, t = "cache" => r \in Lookups,
         r \notin due[t],
         t = "packets" => r \in rows["alerts"],
         UNCHANGED <<policy, day, Sweeping>>
  PROVE  /\ rows' \in [Shelves -> SUBSET AnyRow] /\ stored' \in [Shelves -> SUBSET AnyRow]
         /\ Shelved(rows)' /\ Shelved(stored)'
         /\ rows'[t] = rows[t] \cup {r} /\ stored'[t] = stored[t] \cup {r}
         /\ \A u \in Shelves \ {t} : rows'[u] = rows[u] /\ stored'[u] = stored[u]
         /\ Doomed' /\ OnlyOutlived' /\ Removed'
         /\ \A u \in Shelves : rows'[u] \subseteq stored'[u]
         /\ rows'["packets"] \subseteq rows'["alerts"]
<1>1. /\ rows \in [Shelves -> SUBSET AnyRow] /\ stored \in [Shelves -> SUBSET AnyRow]
      /\ r \in AnyRow
  BY DEF UpkeepInv, UpkeepTypeOK, Shelved, AnyRow, Shelves
<1>2. /\ rows' = [rows EXCEPT ![t] = @ \cup {r}] /\ stored' = [stored EXCEPT ![t] = @ \cup {r}]
      /\ UNCHANGED <<policy, day, sweep, reference, due, revived>>
  BY DEF Insert, Sweeping
<1>3. /\ rows'[t] = rows[t] \cup {r} /\ stored'[t] = stored[t] \cup {r}
      /\ \A u \in Shelves \ {t} : rows'[u] = rows[u] /\ stored'[u] = stored[u]
      /\ rows' \in [Shelves -> SUBSET AnyRow] /\ stored' \in [Shelves -> SUBSET AnyRow]
  BY <1>1, <1>2
<1>4. Shelved(rows)' /\ Shelved(stored)'
  BY <1>3 DEF UpkeepInv, UpkeepTypeOK, Shelved, Shelves
<1>5. \A u \in Shelves : rows'[u] \subseteq stored'[u]
  BY <1>3 DEF UpkeepInv
<1>6. rows'["packets"] \subseteq rows'["alerts"]
  BY <1>3 DEF UpkeepInv, Shelves
<1>7. Doomed'
  BY <1>2, <1>3 DEF UpkeepInv, Doomed, Outlived
<1>8. OnlyOutlived'
  <2>1. \A q, v : v \in Shelves /\ q \in stored'[v] \ rows'[v] => q \in stored[v] \ rows[v]
    BY <1>3
  <2> QED
    BY <1>2, <2>1 DEF UpkeepInv, OnlyOutlived, Outlived
<1>9. Removed'
  <2> SUFFICES ASSUME NEW i \in 1 .. 4, sweep = 0 \/ i < sweep
               PROVE  due[Tables[i]] \cap rows'[Tables[i]] \subseteq Spared(Tables[i])
    BY <1>2 DEF Removed, Spared
  <2>1. due[Tables[i]] \cap rows[Tables[i]] \subseteq Spared(Tables[i]) /\ Tables[i] \in Shelves
    BY TablesAre DEF UpkeepInv, Removed
  <2> QED
    BY <1>3, <2>1
<1> QED
  BY <1>3, <1>4, <1>5, <1>6, <1>7, <1>8, <1>9

LEMMA AlertStored ==
  ASSUME UpkeepInv, StoreAlert
  PROVE  UpkeepInv'
<1> USE DEF Shelves
<1>1. PICK time \in 0 .. day : raising' = [alert |-> Cardinality(stored.alerts) + 1, at |-> time]
  BY DEF StoreAlert
<1>2. /\ policy # Absent /\ Insert("alerts", raising') /\ UNCHANGED <<policy, day, Sweeping>>
  BY DEF StoreAlert
<1>3. Cardinality(stored["alerts"]) \in Nat /\ day \in Nat
  BY FS_CardinalityType DEF UpkeepInv, UpkeepTypeOK
<1>4. /\ raising' \in Evidence /\ raising' # Absent
      /\ raising'.alert = Cardinality(stored["alerts"]) + 1
  BY <1>1, <1>3, UpkeepAssumption DEF Evidence
<1>5. raising' \notin stored["alerts"]
  BY <1>3, <1>4 DEF UpkeepInv, Numbered
<1>6. raising' \notin due["alerts"] /\ raising' \notin stored["packets"]
  BY <1>5 DEF UpkeepInv, Doomed, Numbered
<1>7. /\ Shelved(rows)' /\ Shelved(stored)'
      /\ stored'["alerts"] = stored["alerts"] \cup {raising'} /\ stored'["packets"] = stored["packets"]
      /\ Doomed' /\ OnlyOutlived' /\ Removed'
      /\ \A u \in Shelves : rows'[u] \subseteq stored'[u]
      /\ rows'["packets"] \subseteq rows'["alerts"]
  BY <1>2, <1>4, <1>5, <1>6, Inserted
<1>8. IsFiniteSet(stored'["alerts"]) /\ Cardinality(stored'["alerts"]) = Cardinality(stored["alerts"]) + 1
  <2>1. IsFiniteSet(stored["alerts"])
    BY DEF UpkeepInv, UpkeepTypeOK
  <2>2. \A r : r \notin stored["alerts"] =>
          /\ IsFiniteSet(stored["alerts"] \cup {r})
          /\ Cardinality(stored["alerts"] \cup {r}) = Cardinality(stored["alerts"]) + 1
    BY <2>1, FS_AddElement
  <2> QED
    BY <1>5, <1>7, <2>2
<1>9. UpkeepTypeOK'
  BY <1>2, <1>4, <1>7, <1>8 DEF UpkeepInv, UpkeepTypeOK, Sweeping, Shelved
<1>10. Numbered'
  <2>1. \A r \in stored'["alerts"] : r.alert <= Cardinality(stored'["alerts"])
    <3> SUFFICES ASSUME NEW r \in stored'["alerts"] PROVE r.alert <= Cardinality(stored["alerts"]) + 1
      BY <1>8
    <3>1. CASE r = raising'
      BY <1>3, <1>4, <3>1
    <3>2. CASE r \in stored["alerts"]
      <4>1. r.alert \in Nat /\ r.alert <= Cardinality(stored["alerts"])
        BY <3>2 DEF UpkeepInv, UpkeepTypeOK, Shelved, Evidence, Numbered
      <4> QED
        BY <1>3, <4>1
    <3> QED
      BY <1>7, <3>1, <3>2
  <2> QED
    BY <1>2, <1>6, <1>7, <2>1 DEF UpkeepInv, Numbered
<1> QED
  BY <1>7, <1>9, <1>10 DEF UpkeepInv

LEMMA PacketSaved ==
  ASSUME UpkeepInv, SavePacket
  PROVE  UpkeepInv'
<1> USE DEF Shelves
<1>1. /\ raising # Absent /\ raising' = Absent /\ UNCHANGED <<policy, day, Sweeping>>
      /\ policy # Absent /\ raising \in Evidence
  BY DEF SavePacket, UpkeepInv, Numbered, UpkeepTypeOK
<1>2. CASE UNCHANGED <<rows, stored>>
  BY <1>1, <1>2 DEF UpkeepInv, UpkeepTypeOK, Shelved, Sweeping, Numbered, Doomed, OnlyOutlived,
                    Outlived, Removed, Spared
<1>3. CASE raising \in rows["alerts"] /\ Insert("packets", raising)
  <2>1. raising \notin due["packets"]
    BY <1>1 DEF UpkeepInv, Numbered, Doomed
  <2>2. /\ Shelved(rows)' /\ Shelved(stored)'
        /\ stored'["packets"] = stored["packets"] \cup {raising} /\ stored'["alerts"] = stored["alerts"]
        /\ Doomed' /\ OnlyOutlived' /\ Removed'
        /\ \A u \in Shelves : rows'[u] \subseteq stored'[u]
        /\ rows'["packets"] \subseteq rows'["alerts"]
    BY <1>1, <1>3, <2>1, Inserted
  <2>3. UpkeepTypeOK'
    BY <1>1, <2>2 DEF UpkeepInv, UpkeepTypeOK, Shelved, Sweeping
  <2>4. Numbered'
    BY <1>1, <2>2 DEF UpkeepInv, Numbered
  <2> QED
    BY <2>2, <2>3, <2>4 DEF UpkeepInv
<1> QED
  BY <1>2, <1>3 DEF SavePacket

(* A save that puts an alert back adds a row there was before, and where   *)
(* the sweep had to remove it, one that is among the revived.              *)
LEMMA SavedAgain ==
  ASSUME UpkeepInv, SaveAgain
  PROVE  UpkeepInv'
<1> USE DEF Shelves
<1>1. PICK r \in stored.alerts \ rows.alerts :
        /\ rows' = [rows EXCEPT !.alerts = @ \cup {r}] /\ revived' = revived \cup {r}
        /\ UNCHANGED <<policy, day, stored, raising, sweep, reference, due>>
  BY DEF SaveAgain
<1>2. rows \in [Shelves -> SUBSET AnyRow] /\ r \in Evidence /\ r \in AnyRow
  BY <1>1 DEF UpkeepInv, UpkeepTypeOK, Shelved, AnyRow
<1>3. /\ rows'["alerts"] = rows["alerts"] \cup {r} /\ rows' \in [Shelves -> SUBSET AnyRow]
      /\ \A u \in Shelves \ {"alerts"} : rows'[u] = rows[u]
  BY <1>1, <1>2
<1>4. UpkeepTypeOK'
  BY <1>1, <1>2, <1>3 DEF UpkeepInv, UpkeepTypeOK, Shelved
<1>5. Numbered' /\ Doomed'
  BY <1>1 DEF UpkeepInv, Numbered, Doomed, Outlived
<1>6. OnlyOutlived'
  <2>1. \A q, v : v \in Shelves /\ q \in stored'[v] \ rows'[v] => q \in stored[v] \ rows[v]
    BY <1>1, <1>3
  <2> QED
    BY <1>1, <2>1 DEF UpkeepInv, OnlyOutlived, Outlived
<1>7. Removed'
  <2> SUFFICES ASSUME NEW i \in 1 .. 4, sweep = 0 \/ i < sweep
               PROVE  due[Tables[i]] \cap rows'[Tables[i]] \subseteq Spared(Tables[i])'
    BY <1>1 DEF Removed
  <2>1. due[Tables[i]] \cap rows[Tables[i]] \subseteq Spared(Tables[i]) /\ Tables[i] \in Shelves
    BY TablesAre DEF UpkeepInv, Removed
  <2> QED
    BY <1>1, <1>3, <2>1 DEF Spared
<1>8. (\A u \in Shelves : rows'[u] \subseteq stored'[u]) /\ rows'["packets"] \subseteq rows'["alerts"]
  BY <1>1, <1>3 DEF UpkeepInv
<1> QED
  BY <1>4, <1>5, <1>6, <1>7, <1>8 DEF UpkeepInv

(* Snapshots and lookups are no alerts.                                    *)
LEMMA ElseStored ==
  ASSUME UpkeepInv, RecordSnapshot \/ CacheLookup
  PROVE  UpkeepInv'
<1> USE DEF Shelves
<1>1. policy # Absent /\ UNCHANGED <<policy, day, raising, Sweeping>> /\ day \in Nat
  BY DEF RecordSnapshot, CacheLookup, UpkeepInv, UpkeepTypeOK
<1>2. PICK t \in {"statistics", "cache"}, r \in Snapshots \cup Lookups :
        /\ Insert(t, r) /\ r \notin due[t]
        /\ t = "statistics" => r \in Snapshots
        /\ t = "cache" => r \in Lookups
  <2>1. CASE RecordSnapshot
    <3>1. [at |-> day] \in Snapshots /\ [at |-> day] \notin due["statistics"]
      BY <1>1, <2>1 DEF RecordSnapshot, Snapshots, UpkeepInv, Doomed
    <3> QED
      BY <2>1, <3>1 DEF RecordSnapshot
  <2>2. CASE CacheLookup
    <3> DEFINE r == [expires |-> day + CacheDays]
    <3>1. r \in Lookups
      BY <1>1, UpkeepAssumption DEF Lookups
    <3>2. r \notin due["cache"]
      <4> SUFFICES ASSUME r \in due["cache"] PROVE FALSE
        OBVIOUS
      <4>1. Outlived("cache", r, reference)
        BY DEF UpkeepInv, Doomed
      <4>2. day + CacheDays <= reference
        BY <4>1 DEF Outlived
      <4> QED
        BY <4>2, UpkeepAssumption DEF UpkeepInv, UpkeepTypeOK
    <3> QED
      BY <2>2, <3>1, <3>2 DEF CacheLookup
  <2> QED
    BY <2>1, <2>2
<1>3. /\ Shelved(rows)' /\ Shelved(stored)'
      /\ stored'["alerts"] = stored["alerts"] /\ stored'["packets"] = stored["packets"]
      /\ Doomed' /\ OnlyOutlived' /\ Removed'
      /\ \A u \in Shelves : rows'[u] \subseteq stored'[u]
      /\ rows'["packets"] \subseteq rows'["alerts"]
  BY <1>1, <1>2, Inserted
<1>4. UpkeepTypeOK'
  BY <1>1, <1>3 DEF UpkeepInv, UpkeepTypeOK, Shelved, Sweeping
<1>5. Numbered'
  BY <1>1, <1>3 DEF UpkeepInv, Numbered, Sweeping
<1> QED
  BY <1>3, <1>4, <1>5 DEF UpkeepInv

LEMMA SweepBegun ==
  ASSUME UpkeepInv, BeginSweep
  PROVE  UpkeepInv'
<1>1. /\ policy # Absent /\ sweep = 0 /\ sweep' = 1 /\ reference' = day
      /\ due' = [t \in DOMAIN rows |-> {r \in rows[t] : Outlived(t, r, day)}]
      /\ UNCHANGED <<policy, day, rows, stored, raising>>
  BY DEF BeginSweep
<1>2. DOMAIN rows = Shelves /\ \A t \in Shelves : due'[t] = {r \in rows[t] : Outlived(t, r, day)}
  BY <1>1 DEF UpkeepInv, UpkeepTypeOK, Shelved
<1>3. Shelved(due)'
  <2>1. \A t \in Shelves : due'[t] \subseteq rows[t]
    BY <1>2
  <2> QED
    BY <1>1, <1>2, <2>1 DEF UpkeepInv, UpkeepTypeOK, Shelved, Shelves
<1>4. UpkeepTypeOK'
  BY <1>1, <1>3 DEF UpkeepInv, UpkeepTypeOK, Shelved
<1>5. Numbered' /\ OnlyOutlived'
  BY <1>1 DEF UpkeepInv, Numbered, OnlyOutlived, Outlived
<1>6. Doomed'
  BY <1>1, <1>2 DEF UpkeepInv, Doomed, Outlived
<1>7. Removed'
  BY <1>1 DEF Removed
<1> QED
  BY <1>1, <1>4, <1>5, <1>6, <1>7 DEF UpkeepInv

(* A table is rid of what is stale, an alert of its evidence, and of       *)
(* nothing else.                                                           *)
LEMMA TablePruned ==
  ASSUME UpkeepInv, PruneTable
  PROVE  UpkeepInv'
<1> DEFINE table == Tables[sweep]
           stale == {r \in rows[table] : Stale(table, r)}
<1>1. /\ sweep \in 1 .. 4 /\ policy # Absent /\ table \in Shelves
      /\ UNCHANGED <<policy, day, stored, raising, reference, due, revived>>
      /\ rows \in [Shelves -> SUBSET AnyRow]
      /\ day \in Nat /\ reference \in Nat /\ reference <= day
  BY TablesAre DEF PruneTable, UpkeepInv, UpkeepTypeOK, Numbered, Shelved
<1>2. rows' = IF table = "alerts"
              THEN [rows EXCEPT !["alerts"] = @ \ stale, !["packets"] = @ \ stale]
              ELSE [rows EXCEPT ![table] = @ \ stale]
  BY DEF PruneTable
<1>3. sweep' = IF sweep < 4 THEN sweep + 1 ELSE 0
  BY TablesAre DEF PruneTable
<1>4. stale = {r \in rows[table] : Outlived(table, r, reference)}
  BY <1>1, StaleIs
<1> HIDE DEF stale, table
<1>5. /\ rows' \in [Shelves -> SUBSET AnyRow]
      /\ rows'[table] = rows[table] \ stale
      /\ table = "alerts" => rows'["packets"] = rows["packets"] \ stale
      /\ \A u \in Shelves : u # table /\ ~(u = "packets" /\ table = "alerts") => rows'[u] = rows[u]
      /\ \A u \in Shelves : rows'[u] \subseteq rows[u]
  BY <1>1, <1>2 DEF Shelves
<1>6. UpkeepTypeOK'
  BY <1>1, <1>3, <1>5 DEF UpkeepInv, UpkeepTypeOK, Shelved, Shelves
<1>7. Numbered' /\ Doomed'
  BY <1>1 DEF UpkeepInv, Numbered, Doomed, Outlived
<1>8. /\ \A u \in Shelves : rows'[u] \subseteq stored'[u]
      /\ rows'["packets"] \subseteq rows'["alerts"]
  BY <1>1, <1>5 DEF UpkeepInv, Shelves
<1>9. OnlyOutlived'
  <2> SUFFICES ASSUME NEW u \in Shelves, NEW q \in stored[u] \ rows'[u]
               PROVE  Outlived(u, q, day)
    BY <1>1 DEF OnlyOutlived, Outlived
  <2>1. CASE q \notin rows[u]
    BY <2>1 DEF UpkeepInv, OnlyOutlived
  <2>2. CASE q \in rows[u]
    <3>1. /\ u \in {"packets", "alerts"} => q \in Evidence
          /\ u = "statistics" => q \in Snapshots
          /\ u = "cache" => q \in Lookups
      BY <2>2 DEF UpkeepInv, UpkeepTypeOK, Shelved
    <3>2. Outlived(table, q, reference) /\ (u # table => u = "packets" /\ table = "alerts")
      BY <1>4, <1>5, <2>2 DEF stale
    <3>3. CASE u # table
      BY <1>1, <3>1, <3>2, <3>3, EvidenceGoesFirst DEF UpkeepInv
    <3> QED
      BY <1>1, <3>1, <3>2, <3>3, OutlivedStays DEF UpkeepInv
  <2> QED
    BY <2>1, <2>2
<1>10. Removed'
  <2> SUFFICES ASSUME NEW i \in 1 .. 4, sweep' = 0 \/ i < sweep'
               PROVE  due[Tables[i]] \cap rows'[Tables[i]] \subseteq Spared(Tables[i])
    BY <1>1 DEF Removed, Spared
  <2>1. i < sweep \/ i = sweep
    BY <1>1, <1>3
  <2>2. CASE i < sweep
    <3>1. /\ due[Tables[i]] \cap rows[Tables[i]] \subseteq Spared(Tables[i])
          /\ Tables[i] \in Shelves
      BY <2>2, TablesAre DEF UpkeepInv, Removed
    <3> QED
      BY <1>5, <3>1
  <2>3. CASE i = sweep
    <3>1. Tables[i] = table
      BY <2>3 DEF table
    <3>2. \A r \in due[table] : Outlived(table, r, reference)
      BY <1>1 DEF UpkeepInv, Doomed
    <3> QED
      BY <1>4, <1>5, <3>1, <3>2
  <2> QED
    BY <2>1, <2>2, <2>3
<1> QED
  BY <1>6, <1>7, <1>8, <1>9, <1>10 DEF UpkeepInv

LEMMA UpkeepStep == UpkeepInv /\ [UpkeepNext]_upkeep => UpkeepInv'
<1> SUFFICES ASSUME UpkeepInv, [UpkeepNext]_upkeep PROVE UpkeepInv'
  OBVIOUS
<1>1. ASSUME UNCHANGED <<policy, day, rows, stored, raising, sweep, reference, due, revived>>
      PROVE  UpkeepInv'
  BY <1>1 DEF UpkeepInv, UpkeepTypeOK, Shelved, Numbered, Doomed, OnlyOutlived, Outlived, Removed,
              Spared
<1>2. CASE FailSweep
  <2>1. /\ sweep' = 0 /\ due' = Empty
        /\ UNCHANGED <<policy, day, rows, stored, raising, reference>>
    BY <1>2 DEF FailSweep
  <2>2. UpkeepTypeOK'
    BY <2>1, EmptyIs DEF UpkeepInv, UpkeepTypeOK, Shelved
  <2>3. Numbered' /\ OnlyOutlived'
    BY <2>1 DEF UpkeepInv, Numbered, OnlyOutlived, Outlived
  <2>4. Doomed' /\ Removed'
    BY <2>1, EmptyIs, TablesAre DEF Doomed, Removed
  <2> QED
    BY <2>1, <2>2, <2>3, <2>4 DEF UpkeepInv
<1>3. CASE Tick
  <2>1. /\ policy # Absent /\ day' = day + 1
        /\ UNCHANGED <<policy, rows, stored, raising, sweep, reference, due, revived>>
    BY <1>3 DEF Tick, Sweeping
  <2>2. day \in Nat /\ day' \in Nat /\ day <= day' /\ reference \in Nat /\ reference <= day'
    BY <2>1 DEF UpkeepInv, UpkeepTypeOK
  <2>3. UpkeepTypeOK'
    BY <2>1, <2>2 DEF UpkeepInv, UpkeepTypeOK, Shelved
  <2>4. Numbered' /\ Removed' /\ Doomed'
    BY <2>1 DEF UpkeepInv, Numbered, Removed, Spared, Doomed, Outlived
  <2>5. OnlyOutlived'
    <3> SUFFICES ASSUME NEW u \in Shelves, NEW q \in stored[u] \ rows[u]
                 PROVE  Outlived(u, q, day')
      BY <2>1 DEF OnlyOutlived, Outlived
    <3>1. Outlived(u, q, day)
      BY DEF UpkeepInv, OnlyOutlived
    <3>2. /\ u \in {"packets", "alerts"} => q \in Evidence
          /\ u = "statistics" => q \in Snapshots
          /\ u = "cache" => q \in Lookups
      BY DEF UpkeepInv, UpkeepTypeOK, Shelved
    <3> QED
      BY <2>1, <2>2, <3>1, <3>2, OutlivedStays DEF UpkeepInv
  <2> QED
    BY <2>1, <2>3, <2>4, <2>5 DEF UpkeepInv
<1> QED
  BY <1>1, <1>2, <1>3, AlertStored, SavedAgain, PacketSaved, ElseStored, SweepBegun, TablePruned
     DEF UpkeepNext, FailSnapshot, upkeep

(* What the sweeps leave is what is to be kept.                            *)
LEMMA KeptAsMeant == UpkeepInv => RetentionHolds
<1> SUFFICES ASSUME UpkeepInv PROVE RetentionHolds
  OBVIOUS
<1>1. DOMAIN rows = Shelves /\ DOMAIN Tables = 1 .. 4
  BY TablesAre DEF UpkeepInv, UpkeepTypeOK, Shelved
<1>2. /\ \A t \in DOMAIN rows : \A r \in stored[t] \ rows[t] : Outlived(t, r, day)
      /\ \A i \in DOMAIN Tables :
           sweep = 0 \/ i < sweep =>
             due[Tables[i]] \cap rows[Tables[i]]
               \subseteq (IF Tables[i] = "alerts" THEN revived ELSE {})
      /\ rows.packets \subseteq rows.alerts
  BY <1>1 DEF UpkeepInv, OnlyOutlived, Removed, Spared
<1>3. ASSUME policy # Absent, NEW days \in 0 .. policy.statistics
      PROVE  Series(days) = {r \in stored.statistics : r.at + days >= day}
  <2>1. policy \in [alerts : Nat, packets : Nat, statistics : Nat] /\ day \in Nat
    BY <1>3, UpkeepAssumption DEF UpkeepInv, UpkeepTypeOK
  <2>2. rows["statistics"] \subseteq stored["statistics"]
    BY DEF UpkeepInv, Shelves
  <2>3. ASSUME NEW r \in stored["statistics"], r.at + days >= day
        PROVE  r \in rows["statistics"]
    <3>1. r.at \in Nat
      BY <2>3 DEF UpkeepInv, UpkeepTypeOK, Shelved, Snapshots
    <3>2. ~Outlived("statistics", r, day)
      BY <1>3, <2>1, <2>3, <3>1 DEF Outlived
    <3> QED
      BY <2>3, <3>2 DEF UpkeepInv, OnlyOutlived, Shelves
  <2> QED
    BY <2>2, <2>3 DEF Series
<1> QED
  BY <1>2, <1>3 DEF RetentionHolds

THEOREM RowsAreKept == UpkeepInit /\ [][UpkeepNext]_upkeep => []RetentionHolds
BY UpkeepStart, UpkeepStep, KeptAsMeant, PTL

-----------------------------------------------------------------------------
(* What the dashboard shows.                                               *)

Views ==
    [screen : {"alerts"}, of : Filters, page : Nat]
      \cup [screen : {"alert"}, of : {"first", "second"}, page : {0}]
      \cup [screen : {"rules"}, of : {"all"}, page : {0}]

Replies == [view : Views, items : BOOLEAN, more : BOOLEAN, none : BOOLEAN, writes : Nat]

DashboardTypeOK ==
    /\ view \in Views
    /\ data \in Replies \cup {Blank}
    /\ error \in BOOLEAN /\ loading \in BOOLEAN /\ turned \in BOOLEAN
    /\ asked \in Nat /\ writes \in Nat /\ confirmed \in Nat
    /\ fetches \subseteq [id : Nat, view : Views, answer : Replies \cup {Blank, Failed}]
    /\ pages \in [Filters -> Nat]

(* What an answer tells of the view it answers, and of the writes before.  *)
Truthful(reply) == reply.view.page = 0 => reply.items \/ reply.none

(* A fetch is answered for the view it asked about; the newest is about    *)
(* the page on screen, and was answered after the writes that page knows.  *)
OnTheWay ==
    \A f \in fetches :
      /\ f.id <= asked
      /\ f.id = asked => f.view = view
      /\ f.answer \notin {Blank, Failed} =>
           /\ f.answer.view = f.view /\ Truthful(f.answer)
           /\ f.id = asked => confirmed <= f.answer.writes

DashboardInv ==
    /\ DashboardTypeOK /\ OnTheWay
    /\ confirmed <= writes
    /\ ~turned => view.page = 0
    /\ ~loading /\ ~error /\ data # Blank =>
         data.view = view /\ confirmed <= data.writes /\ Truthful(data)

LEMMA DashboardStart == DashboardInit => DashboardInv
<1> SUFFICES ASSUME DashboardInit PROVE DashboardInv
  OBVIOUS
<1>1. (CHOOSE f \in Filters : TRUE) \in Filters
  BY DashboardAssumption
<1>2. /\ data = Blank
      /\ asked = 1 /\ writes = 0 /\ confirmed = 0
      /\ fetches = {[id |-> 1, view |-> view, answer |-> Blank]}
      /\ pages \in [Filters -> 0 .. MaxPages]
  BY Zenon DEF DashboardInit
<1>3. error \in BOOLEAN /\ loading \in BOOLEAN /\ turned \in BOOLEAN /\ loading
  BY Zenon DEF DashboardInit
<1>4. view \in Views /\ view.page = 0
  <2>1. PICK f \in Filters : view = View("alerts", f, 0)
    BY <1>1, Zenon DEF DashboardInit
  <2> QED
    BY <2>1 DEF View, Views
<1>5. pages \in [Filters -> Nat]
  BY <1>2, DashboardAssumption
<1>6. fetches \subseteq [id : Nat, view : Views, answer : Replies \cup {Blank, Failed}]
  BY <1>2, <1>4
<1>7. DashboardTypeOK
  BY <1>2, <1>3, <1>4, <1>5, <1>6 DEF DashboardTypeOK
<1>8. OnTheWay
  BY <1>2 DEF OnTheWay
<1> QED
  BY <1>2, <1>3, <1>4, <1>7, <1>8 DEF DashboardInv

(* Once it has asked, the page waits, and the newest fetch is its own.     *)
LEMMA AskedAnew ==
  ASSUME DashboardInv, NEW v \in Views, Fetch(v),
         data' \in {data, Blank}, error' \in BOOLEAN, turned' \in BOOLEAN,
         UNCHANGED <<pages, writes>>, confirmed' \in Nat, confirmed' <= writes,
         ~turned' => v.page = 0
  PROVE  DashboardInv'
<1>1. /\ asked \in Nat /\ asked' = asked + 1 /\ view' = v /\ loading' = TRUE
      /\ fetches' = fetches \cup {[id |-> asked + 1, view |-> v, answer |-> Blank]}
  BY DEF Fetch, DashboardInv, DashboardTypeOK
<1>2. DashboardTypeOK'
  BY <1>1 DEF DashboardInv, DashboardTypeOK
<1>3. OnTheWay'
  <2> SUFFICES ASSUME NEW f \in fetches'
               PROVE  /\ f.id <= asked'
                      /\ f.id = asked' => f.view = view'
                      /\ f.answer \notin {Blank, Failed} =>
                           /\ f.answer.view = f.view /\ Truthful(f.answer)
                           /\ f.id = asked' => confirmed' <= f.answer.writes
    BY DEF OnTheWay, Truthful
  <2>1. CASE f \in fetches
    <3>1. f.id \in Nat /\ f.id <= asked
      BY <2>1 DEF DashboardInv, DashboardTypeOK, OnTheWay
    <3>2. f.id <= asked' /\ f.id # asked'
      BY <1>1, <3>1
    <3> QED
      BY <2>1, <3>2 DEF DashboardInv, OnTheWay
  <2>2. CASE f = [id |-> asked + 1, view |-> v, answer |-> Blank]
    BY <1>1, <2>2
  <2> QED
    BY <1>1, <2>1, <2>2
<1> QED
  BY <1>1, <1>2, <1>3 DEF DashboardInv

(* What does not touch the page leaves it true.                            *)
LEMMA PageAlone ==
  ASSUME DashboardInv, UNCHANGED <<view, data, error, loading, asked, turned, confirmed>>,
         fetches' \subseteq fetches, pages' \in [Filters -> Nat], writes' \in Nat, writes <= writes'
  PROVE  DashboardInv'
<1>1. confirmed' <= writes'
  BY DEF DashboardInv, DashboardTypeOK
<1>2. DashboardTypeOK'
  BY DEF DashboardInv, DashboardTypeOK
<1>3. OnTheWay'
  BY DEF DashboardInv, OnTheWay, Truthful
<1> QED
  BY <1>1, <1>2, <1>3 DEF DashboardInv, Truthful

LEMMA AnswerTrue ==
  ASSUME DashboardInv, NEW f \in fetches, Answer(f)
  PROVE  DashboardInv'
<1>1. PICK a \in {Reply(f.view), Failed} :
           fetches' = (fetches \ {f}) \cup {[f EXCEPT !.answer = a]}
  BY DEF Answer
<1>2. UNCHANGED <<view, data, error, loading, asked, turned, confirmed, pages, writes>>
  BY DEF Answer, page
<1>3. f \in [id : Nat, view : Views, answer : Replies \cup {Blank, Failed}]
  BY DEF DashboardInv, DashboardTypeOK
<1>4. /\ Reply(f.view) \in Replies /\ Reply(f.view).view = f.view
      /\ Truthful(Reply(f.view)) /\ Reply(f.view).writes = writes
  <2> DEFINE n == IF f.view.screen = "alerts" THEN pages[f.view.of] ELSE 1
  <2>1. n \in Nat /\ f.view.page \in Nat /\ (f.view.screen # "alerts" => f.view.page = 0)
    BY <1>3 DEF Views, DashboardInv, DashboardTypeOK
  <2> HIDE DEF n
  <2>2. Reply(f.view) = [view |-> f.view, items |-> n > f.view.page, more |-> n > f.view.page + 1,
                         none |-> n = 0, writes |-> writes]
    BY DEF Reply, n
  <2>3. writes \in Nat /\ f.view \in Views
    BY <1>3 DEF DashboardInv, DashboardTypeOK
  <2> DEFINE filled == n > f.view.page
             further == n > f.view.page + 1
             empty == n = 0
  <2>4. /\ filled \in BOOLEAN /\ further \in BOOLEAN /\ empty \in BOOLEAN
        /\ f.view.page = 0 => filled \/ empty
    BY <2>1
  <2>5. Reply(f.view) = [view |-> f.view, items |-> filled, more |-> further, none |-> empty, writes |-> writes]
    BY <2>2
  <2> HIDE DEF filled, further, empty
  <2> QED
    BY <2>3, <2>4, <2>5 DEF Replies, Truthful
<1>5. DashboardTypeOK'
  BY <1>1, <1>2, <1>3, <1>4 DEF DashboardInv, DashboardTypeOK
<1>6. OnTheWay'
  <2> SUFFICES ASSUME NEW g \in fetches'
               PROVE  /\ g.id <= asked
                      /\ g.id = asked => g.view = view
                      /\ g.answer \notin {Blank, Failed} =>
                           /\ g.answer.view = g.view /\ Truthful(g.answer)
                           /\ g.id = asked => confirmed <= g.answer.writes
    BY <1>2 DEF OnTheWay, Truthful
  <2>1. CASE g \in fetches
    BY <2>1 DEF DashboardInv, OnTheWay
  <2>2. CASE g = [f EXCEPT !.answer = a]
    <3>1. g.id = f.id /\ g.view = f.view /\ g.answer = a
      BY <1>3, <2>2
    <3> QED
      BY <1>1, <1>4, <3>1 DEF DashboardInv, OnTheWay
  <2> QED
    BY <1>1, <2>1, <2>2
<1> QED
  BY <1>2, <1>5, <1>6 DEF DashboardInv, Truthful

LEMMA SettleTrue ==
  ASSUME DashboardInv, NEW f \in fetches, Settle(f)
  PROVE  DashboardInv'
<1>1. /\ f.answer # Blank /\ fetches' = fetches \ {f}
      /\ UNCHANGED <<view, asked, turned, pages, writes, confirmed>>
  BY DEF Settle
<1>2. f \in [id : Nat, view : Views, answer : Replies \cup {Blank, Failed}]
  BY DEF DashboardInv, DashboardTypeOK
<1>3. CASE f.id # asked
  BY <1>1, <1>3, PageAlone DEF Settle, DashboardInv, DashboardTypeOK
<1>4. CASE f.id = asked /\ f.answer = Failed
  <2>1. loading' = FALSE /\ error' = TRUE /\ data' = data
    BY <1>4 DEF Settle
  <2>2. DashboardTypeOK'
    BY <1>1, <2>1 DEF DashboardInv, DashboardTypeOK
  <2>3. OnTheWay'
    BY <1>1 DEF DashboardInv, OnTheWay, Truthful
  <2> QED
    BY <1>1, <2>1, <2>2, <2>3 DEF DashboardInv
<1>5. CASE f.id = asked /\ f.answer # Failed
  <2>1. loading' = FALSE /\ error' = FALSE /\ data' = f.answer
    BY <1>5 DEF Settle
  <2>2. /\ f.answer \in Replies /\ f.answer.view = view /\ confirmed <= f.answer.writes
        /\ Truthful(f.answer)
    BY <1>1, <1>2, <1>5 DEF DashboardInv, OnTheWay
  <2>3. DashboardTypeOK'
    BY <1>1, <2>1, <2>2 DEF DashboardInv, DashboardTypeOK
  <2>4. OnTheWay'
    BY <1>1 DEF DashboardInv, OnTheWay, Truthful
  <2> QED
    BY <1>1, <2>1, <2>2, <2>3, <2>4 DEF DashboardInv, Truthful
<1> QED
  BY <1>3, <1>4, <1>5

LEMMA DashboardStep ==
  ASSUME DashboardInv, [DashboardNext]_dashboard
  PROVE  DashboardInv'
<1> USE DashboardAssumption
<1>0. /\ view \in Views /\ confirmed \in Nat /\ writes \in Nat /\ confirmed <= writes
      /\ error \in BOOLEAN /\ turned \in BOOLEAN /\ pages \in [Filters -> Nat]
      /\ ~turned => view.page = 0
  BY DEF DashboardInv, DashboardTypeOK
<1>1. ASSUME NEW screen \in DOMAIN Subjects, Visit(screen) PROVE DashboardInv'
  <2>1. PICK of \in Subjects[screen] : Fetch(View(screen, of, 0))
    BY <1>1 DEF Visit
  <2>2. View(screen, of, 0) \in Views /\ View(screen, of, 0).page = 0
    BY DEF View, Views, Subjects
  <2> QED
    BY <1>0, <1>1, <2>1, <2>2, AskedAnew DEF Visit
<1>2. ASSUME NEW of \in Subjects.alert, ShowOther(of) PROVE DashboardInv'
  <2>1. View("alert", of, 0) \in Views /\ View("alert", of, 0).page = 0
    BY DEF View, Views, Subjects
  <2> QED
    BY <1>0, <1>2, <2>1, AskedAnew DEF ShowOther
<1>3. ASSUME NEW f \in Filters, UpdateFilter(f) PROVE DashboardInv'
  <2>1. View("alerts", f, 0) \in Views /\ View("alerts", f, 0).page = 0
    BY DEF View, Views
  <2> QED
    BY <1>0, <1>3, <2>1, AskedAnew DEF UpdateFilter
<1>4. CASE TurnPage
  <2>1. view \in [screen : {"alerts"}, of : Filters, page : Nat]
    BY <1>0, <1>4 DEF TurnPage, Views
  <2>2. CASE view.page > 0 /\ Fetch([view EXCEPT !.page = @ - 1]) /\ UNCHANGED turned
    <3>1. [view EXCEPT !.page = @ - 1] \in Views /\ turned
      BY <1>0, <2>1, <2>2 DEF Views
    <3> QED
      BY <1>0, <1>4, <2>2, <3>1, AskedAnew DEF TurnPage
  <2>3. CASE Fetch([view EXCEPT !.page = @ + 1]) /\ turned' = TRUE
    <3>1. [view EXCEPT !.page = @ + 1] \in Views
      BY <2>1 DEF Views
    <3> QED
      BY <1>0, <1>4, <2>3, <3>1, AskedAnew DEF TurnPage
  <2> QED
    BY <1>4, <2>2, <2>3 DEF TurnPage
<1>5. CASE Retry
  BY <1>0, <1>5, AskedAnew DEF Retry
<1>6. CASE Write \/ RowsChange
  BY <1>0, <1>6, PageAlone DEF Write, RowsChange, page
<1>7. ASSUME NEW f \in fetches, Answer(f) \/ Settle(f) PROVE DashboardInv'
  BY <1>7, AnswerTrue, SettleTrue
<1>8. ASSUME NEW c \in changes, Apply(c) PROVE DashboardInv'
  <2>1. writes' \in Nat /\ writes <= writes'
    BY <1>0, <1>8 DEF Apply
  <2> QED
    BY <1>0, <1>8, <2>1, PageAlone DEF Apply, page
<1>9. ASSUME NEW c \in changes, Written(c) PROVE DashboardInv'
  <2>1. CASE Fetch(view) /\ confirmed' = writes
    BY <1>0, <1>9, <2>1, AskedAnew DEF Written
  <2>2. CASE UNCHANGED <<view, loading, asked, fetches, confirmed>>
    BY <1>0, <1>9, <2>2, PageAlone DEF Written
  <2> QED
    BY <1>9, <2>1, <2>2 DEF Written
<1>10. CASE UNCHANGED dashboard
  BY <1>0, <1>10, PageAlone DEF dashboard
<1> QED
  BY <1>1, <1>2, <1>3, <1>4, <1>5, <1>6, <1>7, <1>8, <1>9, <1>10 DEF DashboardNext

(* A page that neither loads nor shows an error shows the answer to the    *)
(* question on screen, and none shown on a first page means none there.    *)
THEOREM ScreenStaysTrue == DashboardSpec => [](ShowsItsAnswer /\ EmptyMeansNone)
<1>1. DashboardInv => ShowsItsAnswer /\ EmptyMeansNone
  BY DEF DashboardInv, DashboardTypeOK, ShowsItsAnswer, EmptyMeansNone, Truthful, Replies
<1> QED
  BY DashboardStart, DashboardStep, <1>1, PTL DEF DashboardSpec

-----------------------------------------------------------------------------
(* The detectors that run.                                                 *)

PluginsInv == PluginsTypeOK /\ DetectorsStandAlone

(* A scan takes the fine classes of its modules whose names are free, once *)
(* for each place and way to it.                                           *)
LEMMA ScanTakesTheFine ==
  ASSUME NEW modules, NEW reserved
  PROVE  /\ \A d \in Registered(modules, reserved) :
              \E r \in Routes, p \in Places : d = <<loads + 1, r, p>>
         /\ \A r \in Routes, p \in Places :
              <<loads + 1, r, p>> \in Registered(modules, reserved) <=>
                /\ <<r, p[1]>> \in modules
                /\ Fine(ClassAt(p)) /\ ClassAt(p).name \notin reserved
<1>1. ASSUME NEW p \in Places
      PROVE  Fine(ClassAt(p)) <=> /\ ClassAt(p).form \notin {"abstract", "raises"}
                                  /\ BuildConfig(ClassAt(p))
  BY ClassesAssumption DEF Forms, Fine, BuildConfig
<1>2. \A d \in Registered(modules, reserved) : \E r \in Routes, p \in Places : d = <<loads + 1, r, p>>
  BY DEF Registered
<1>3. ASSUME NEW r \in Routes, NEW p \in Places
      PROVE  <<loads + 1, r, p>> \in Registered(modules, reserved) <=>
               /\ <<r, p[1]>> \in modules
               /\ Fine(ClassAt(p)) /\ ClassAt(p).name \notin reserved
  BY <1>1 DEF Registered
<1> QED
  BY <1>2, <1>3

(* What a load leaves stands: a place is a built-in's, or an entry point's *)
(* or the configuration's, and a built-in's name is taken before plugins   *)
(* are looked at.                                                          *)
LEMMA LoadStands ==
  ASSUME LoadDetectors
  PROVE  DetectorsStandAlone'
<1> DEFINE builtin == Registered({"builtin"} \X Importable(Impl), {})
           taken == {ClassAt(d[3]).name : d \in builtin}
           added == Registered(DiscoverModules, taken)
           At(r, p) == <<loads + 1, r, p>>
<1>1. detectors' = builtin \cup added /\ UNCHANGED <<sections, entries, listed, broken>>
  BY DEF LoadDetectors
<1>2. ASSUME NEW d \in builtin \cup added
      PROVE  \E r \in Routes, p \in Places : d = At(r, p)
  BY ScanTakesTheFine
<1>3. ASSUME NEW r \in Routes, NEW p \in Places
      PROVE  At(r, p) \in builtin <=> r = "builtin" /\ p[1] \in Impl \ broken /\ Fine(ClassAt(p))
  <2>1. At(r, p) \in builtin <=> /\ <<r, p[1]>> \in {"builtin"} \X Importable(Impl)
                                /\ Fine(ClassAt(p)) /\ ClassAt(p).name \notin {}
    <3> HIDE DEF At
    <3>1. At(r, p) = <<loads + 1, r, p>>
      BY DEF At
    <3> QED
      BY <3>1, ScanTakesTheFine
  <2>2. <<r, p[1]>> \in {"builtin"} \X Importable(Impl) <=> r = "builtin" /\ p[1] \in Impl \ broken
    BY DEF Importable
  <2> QED
    BY <2>1, <2>2
<1>4. ASSUME NEW r \in Routes, NEW p \in Places
      PROVE  At(r, p) \in added <=>
               /\ \/ r = "entry" /\ p[1] \in entries \ broken
                  \/ r = "listed" /\ p[1] \in (listed \ entries) \ broken
               /\ Fine(ClassAt(p)) /\ ClassAt(p).name \notin taken
  <2>1. <<r, p[1]>> \in DiscoverModules <=>
          \/ r = "entry" /\ p[1] \in entries \ broken
          \/ r = "listed" /\ p[1] \in (listed \ entries) \ broken
    BY DEF DiscoverModules, Importable
  <2>2. At(r, p) \in added <=> /\ <<r, p[1]>> \in DiscoverModules
                              /\ Fine(ClassAt(p)) /\ ClassAt(p).name \notin taken
    <3> HIDE DEF At, taken
    <3>1. At(r, p) = <<loads + 1, r, p>>
      BY DEF At
    <3> QED
      BY <3>1, ScanTakesTheFine
  <2> QED
    BY <2>1, <2>2
<1>5. \A n : n \in taken <=>
        \E p \in Places : p[1] \in Impl \ broken /\ Fine(ClassAt(p)) /\ ClassAt(p).name = n
  <2>1. ASSUME NEW n \in taken
        PROVE  \E p \in Places : p[1] \in Impl \ broken /\ Fine(ClassAt(p)) /\ ClassAt(p).name = n
    <3>1. PICK d \in builtin : ClassAt(d[3]).name = n
      OBVIOUS
    <3>2. PICK r \in Routes, p \in Places : d = At(r, p)
      BY <1>2
    <3>3. d[3] = p
      BY <3>2
    <3> QED
      BY <1>3, <3>1, <3>2, <3>3
  <2>2. ASSUME NEW p \in Places, p[1] \in Impl \ broken, Fine(ClassAt(p))
        PROVE  ClassAt(p).name \in taken
    <3>1. At("builtin", p) \in builtin
      BY <1>3, <2>2 DEF Routes
    <3>2. At("builtin", p)[3] = p
      OBVIOUS
    <3> HIDE DEF builtin, At
    <3> QED
      BY <3>1, <3>2
  <2> QED
    BY <2>1, <2>2
<1>6. ASSUME NEW c \in {ClassAt(p) : p \in Places}
      PROVE  LET running == {d \in detectors' : ClassAt(d[3]) = c}
             IN  IF ~ Fine(c) \/ Showing(c, Impl \cup entries \cup listed) = {} \/ Shadowed(c)
                 THEN running = {}
                 ELSE running # {} /\ \A d, e \in running : d # e => d[3] # e[3]
  <2> DEFINE running == {d \in detectors' : ClassAt(d[3]) = c}
             visible == Showing(c, Impl \cup entries \cup listed)
  <2>1. ASSUME NEW d \in running
        PROVE  /\ d[3] \in visible /\ Fine(c)
               /\ d[3] \notin Showing(c, Impl) => c.name \notin taken
               /\ d = At(d[2], d[3]) /\ d[2] \in Routes /\ d[3] \in Places
    <3>1. PICK r \in Routes, p \in Places : d = At(r, p)
      BY <1>1, <1>2
    <3>2. d[2] = r /\ d[3] = p /\ ClassAt(p) = c
      BY <3>1
    <3>3. At(r, p) \in builtin \/ At(r, p) \in added
      BY <1>1, <3>1
    <3> QED
      BY <1>3, <1>4, <3>1, <3>2, <3>3 DEF Showing
  <2>2. CASE ~ Fine(c) \/ visible = {}
    BY <2>1, <2>2
  <2>3. CASE Shadowed(c)
    BY <1>5, <2>1, <2>3 DEF Shadowed
  <2>4. CASE Fine(c) /\ visible # {} /\ ~ Shadowed(c)
    <3>1. running # {}
      <4>1. CASE Showing(c, Impl) # {}
        <5>1. PICK p \in Places : p[1] \in Impl \ broken /\ ClassAt(p) = c
          BY <4>1 DEF Showing
        <5>2. At("builtin", p) \in builtin
          BY <1>3, <2>4, <5>1 DEF Routes
        <5>3. At("builtin", p) \in running
          <6>1. At("builtin", p) \in detectors' /\ At("builtin", p)[3] = p
            BY <1>1, <5>2
          <6> QED
            BY <5>1, <6>1
        <5> QED
          BY <5>3
      <4>2. CASE Showing(c, Impl) = {}
        <5>1. c.name \notin taken
          BY <1>5, <2>4, <4>2 DEF Shadowed
        <5>2. PICK p \in Places : p[1] \in (entries \cup listed) \ broken /\ ClassAt(p) = c
          BY <2>4, <4>2 DEF Showing
        <5>3. PICK r \in Routes : At(r, p) \in added
          BY <1>4, <2>4, <5>1, <5>2 DEF Routes
        <5>4. At(r, p) \in running
          <6>1. At(r, p) \in detectors' /\ At(r, p)[3] = p
            BY <1>1, <5>3
          <6> QED
            BY <5>2, <6>1
        <5> QED
          BY <5>4
      <4> QED
        BY <4>1, <4>2
    <3>2. ASSUME NEW d \in running, NEW e \in running, d[3] = e[3]
          PROVE  d = e
      <4> DEFINE p == d[3]
      <4>1. d = At(d[2], p) /\ e = At(e[2], p) /\ p \in Places /\ {d[2], e[2]} \subseteq Routes /\ Fine(c)
        BY <2>1, <3>2
      <4>2. ASSUME At("builtin", p) \in builtin
            PROVE  \A r \in Routes : At(r, p) \notin added
        <5>1. ClassAt(p).name \in taken
          BY <4>1, <4>2, <1>3, <1>5 DEF Routes
        <5> QED
          BY <1>4, <4>1, <5>1
      <4>3. d \in builtin \cup added /\ e \in builtin \cup added
        BY <1>1
      <4>4. d[2] = e[2]
        <5> HIDE DEF At, builtin, added, p
        <5>1. CASE At("builtin", p) \in builtin
          <6>1. d \in builtin /\ e \in builtin
            BY <4>1, <4>2, <4>3, <5>1
          <6> QED
            BY <1>3, <4>1, <6>1
        <5>2. CASE At("builtin", p) \notin builtin
          <6>1. At(d[2], p) \in added /\ At(e[2], p) \in added
            BY <1>3, <4>1, <4>3, <5>2
          <6> QED
            BY <1>4, <4>1, <6>1
        <5> QED
          BY <5>1, <5>2
      <4> QED
        BY <4>1, <4>4
    <3> QED
      BY <2>4, <3>1, <3>2
  <2> QED
    BY <2>2, <2>3, <2>4
<1>7. \A c : (Fine(c)' <=> Fine(c)) /\ (Shadowed(c)' <=> Shadowed(c))
  BY <1>1 DEF Fine, Shadowed, Showing
<1>8. \A c : Showing(c, Impl \cup entries \cup listed)' = Showing(c, Impl \cup entries \cup listed)
  BY <1>1 DEF Showing
<1> QED
  BY <1>6, <1>7, <1>8 DEF DetectorsStandAlone

LEMMA PluginsStart == PluginsInit => PluginsInv
BY DEF PluginsInit, PluginsInv, PluginsTypeOK, DetectorsStandAlone

LEMMA PluginsStep == PluginsInv /\ [LoadDetectors]_plugins => PluginsInv'
<1> SUFFICES ASSUME PluginsInv, [LoadDetectors]_plugins
             PROVE  PluginsInv'
  OBVIOUS
<1> USE DEF PluginsInv
<1>1. CASE LoadDetectors
  <2>1. UNCHANGED <<sections, entries, listed, broken>> /\ loads' \in 0 .. 2
    BY <1>1 DEF LoadDetectors, PluginsTypeOK
  <2>2. loads + 1 \in 1 .. 2
    BY <1>1 DEF LoadDetectors, PluginsTypeOK
  <2>3. detectors' \subseteq (1 .. 2) \X Routes \X Places
    BY <1>1, <2>2 DEF LoadDetectors, Registered
  <2> QED
    BY <1>1, <2>1, <2>3, LoadStands DEF PluginsTypeOK
<1>2. CASE UNCHANGED plugins
  BY <1>2 DEF plugins, PluginsTypeOK, DetectorsStandAlone, Fine, Showing, Shadowed
<1> QED
  BY <1>1, <1>2

(* One bad plugin costs itself alone, at every load.                       *)
THEOREM DetectorsStand == PluginsInit /\ [][LoadDetectors]_plugins => []DetectorsStandAlone
BY PluginsStart, PluginsStep, PTL DEF PluginsInv

-----------------------------------------------------------------------------
(* A deployment is each of its parts.                                      *)

(* Every step of a deployment is one of a part, and none to the others; a  *)
(* finding is a step of the requests, which share its threads.             *)
LEMMA StepsAreOfParts ==
  ASSUME [DeploymentNext]_deployed
  PROVE  /\ [ConfigurationNext]_configuration /\ [RequestsNext]_requests
         /\ [LoggingNext]_logging /\ [ContentNext]_content /\ [LoadDetectors]_plugins
         /\ [UpkeepNext]_upkeep /\ [DashboardNext]_dashboard /\ [SchemaNext]_schema
<1>1. CASE Configuring
  BY <1>1 DEF Configuring
<1>2. CASE Finding
  <2>1. TracingNext /\ UNCHANGED <<call, answer, row, database, built, faults, seen>>
    BY <1>2 DEF Finding
  <2>2. RequestsNext
    BY <2>1, Zenon DEF RequestsNext
  <2> QED
    BY <1>2, <2>2 DEF Finding
<1>3. CASE Requesting
  BY <1>3 DEF Requesting
<1>4. CASE WritingLogs
  BY <1>4 DEF WritingLogs
<1>5. CASE Notifying
  BY <1>5 DEF Notifying
<1>6. CASE Discovering
  BY <1>6 DEF Discovering
<1>7. CASE Keeping
  BY <1>7 DEF Keeping
<1>8. CASE Browsing
  BY <1>8 DEF Browsing
<1>9. CASE Migrating
  BY <1>9 DEF Migrating
<1>10. CASE UNCHANGED deployed
  BY <1>10 DEF deployed
<1> QED
  BY <1>1, <1>2, <1>3, <1>4, <1>5, <1>6, <1>7, <1>8, <1>9, <1>10 DEF DeploymentNext

(* A deployment implements the specification of every part.                *)
THEOREM DeploymentIsItsParts ==
  DeploymentSpec =>
    /\ ConfigurationSpec /\ RequestsSpec /\ DashboardSpec /\ SchemaSpec
    /\ LoggingInit /\ [][LoggingNext]_logging
    /\ ContentInit /\ [][ContentNext]_content
    /\ PluginsInit /\ [][LoadDetectors]_plugins
    /\ UpkeepInit /\ [][UpkeepNext]_upkeep
<1>1. DeploymentInit =>
        /\ ConfigurationInit /\ RequestsInit /\ LoggingInit /\ ContentInit
        /\ PluginsInit /\ UpkeepInit /\ DashboardInit /\ SchemaInit
  BY DEF DeploymentInit
<1> QED
  BY <1>1, StepsAreOfParts, PTL
     DEF DeploymentSpec, ConfigurationSpec, RequestsSpec, DashboardSpec, SchemaSpec

(* Every line of a job carries the id it began with, and no line shows a   *)
(* credential the redaction has a word for, is written twice or misses its *)
(* stream.                                                                 *)
THEOREM LinesStaySound == DeploymentSpec => []LinesAreSound
BY DeploymentIsItsParts, IdsFollowJobs, LogsStayClean, PTL DEF LinesAreSound

(* What a request is answered fits what it asked and found.                *)
THEOREM DeployedAnswersFit == DeploymentSpec => []AnswersFit
BY DeploymentIsItsParts, AnswersAreTrue, PTL

(* What is on screen is true.                                              *)
THEOREM DeployedScreenIsTrue == DeploymentSpec => []ScreenIsTrue
BY DeploymentIsItsParts, ScreenStaysTrue, PTL DEF ScreenIsTrue

(* Alerts rank as they should, and the hooks that want one get it.         *)
THEOREM AlertsGetHeard == DeploymentSpec => []AlertsAreHeard
BY DeploymentIsItsParts, ContentStart, ContentStep, NoLessSure, HooksServed, PTL DEF AlertsAreHeard

(* The layers of the configuration are told apart, and a process has the   *)
(* detectors that stand, however often it is started.                      *)
THEOREM SetUpStaysSound == DeploymentSpec => []SetUpIsSound
BY DeploymentIsItsParts, HighestLayerWins, DetectorsStand, PTL DEF SetUpIsSound

(* The tables are those the program expects, and the rows in them those    *)
(* that are to be kept.                                                    *)
THEOREM StoreStaysWhole == DeploymentSpec => []StoreHolds
BY DeploymentIsItsParts, SchemaStaysWhole, RowsAreKept, PTL DEF StoreHolds
=============================================================================
