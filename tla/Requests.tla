------------------------------- MODULE Requests -------------------------------
(***************************************************************************)
(* An HTTP request through the chain: security headers outside, then the   *)
(* correlation scope, the error handlers, the API key, validation, and the *)
(* endpoint with its transactions one by one.  Meanwhile retention may     *)
(* remove the alert a path names, the database may fail, and the dashboard *)
(* be built.                                                               *)
(***************************************************************************)
EXTENDS Tracing

CONSTANTS
    Keyed,      \* whether API_KEY is set
    Calls,      \* request -> what it may be: [endpoint, key, form, traced]
    MaxFaults   \* bound: how often the database changes between up and down

Endpoints ==
    {"live",       \* GET /health/live
     "health",     \* GET /health
     "page",       \* GET /dashboard/...
     "config",     \* GET /config
     "list",       \* the listings, the statistics, POST /rules/reload
     "one",        \* GET of an alert, a packet or a rule
     "evidence",   \* GET /alerts/{id}/packets
     "patch",      \* PATCH /alerts/{id}
     "toggle",     \* PATCH /rules/{name}
     "enrich"}     \* POST /alerts/{id}/enrich

Open == {"live", "health", "page"}       \* no AuthDep

ASSUME RequestsAssumption ==
    /\ Keyed \in BOOLEAN
    /\ \A r \in Requests :
         /\ None \notin Calls[r]
         /\ Calls[r] \subseteq [endpoint : Endpoints, key : BOOLEAN,
                                 form : {"malformed", "invalid", "valid"}, traced : BOOLEAN]

QuietPaths == {"live", "health"}
Apart == {"live", "page", "config"}      \* without the database
Named == {"one", "evidence", "patch", "toggle", "enrich"}    \* the path names a row

VARIABLES
    call,       \* request -> the member of Calls[request] it is
    answer,     \* request -> its response
    row,        \* whether the row the paths name is there
    database,   \* whether the database answers
    built,      \* whether index.html is there
    faults,     \* changes of the database so far
    seen        \* history: request -> [row, database] meanwhile

requests == <<tracing, call, answer, row, database, built, faults, seen>>

RequestsInit ==
    /\ TracingInit
    /\ call = [r \in Requests |-> None] /\ answer = [r \in Requests |-> None]
    /\ row = FALSE /\ database = TRUE /\ built = FALSE /\ faults = 0
    /\ seen = [r \in Requests |-> {}]

----------------------------------------------------------------------------
Response(status, id, secured) == [status |-> status, id |-> id, secured |-> secured]

(* The way out: CorrelationMiddleware logs, puts its id into a header and  *)
(* leaves the scope; SecurityHeadersMiddleware adds its own.               *)
Respond(r, status) ==
    /\ lines' = IF call[r].endpoint \in QuietPaths THEN lines ELSE Logged(r, {"audit"})
    /\ answer' = [answer EXCEPT ![r] = Response(status, current[r], TRUE)]
    /\ LeaveScope(r)

(* What no handler knows leaves through both middlewares as an exception:  *)
(* the access line is written, then the server's own handler logs and      *)
(* answers outside the scope, with none of the headers.                    *)
Fail(r) ==
    /\ LeaveScope(r)
    /\ answer' = [answer EXCEPT ![r] = Response(500, current'[r], FALSE)]
    /\ lines' = (IF call[r].endpoint \in QuietPaths THEN lines ELSE Logged(r, {"audit"}))
                  \cup {Line(r, current'[r], "failure")}

Pass(r, place) == at' = [at EXCEPT ![r] = place] /\ UNCHANGED <<current, about, minted, answer>>

Meanwhile ==
    [q \in Requests |-> IF at[q] = "idle" THEN seen[q]
                        ELSE seen[q] \cup {[row |-> row', database |-> database']}]

Inside == <<fired, queue, idOf, call, row, database, built, faults, seen>>

(* CorrelationMiddleware.dispatch: an id that comes along is used.         *)
Receive(r) ==
    /\ at[r] = "idle" /\ call[r] = None
    /\ \E c \in Calls[r] :
         /\ call' = [call EXCEPT ![r] = c]
         /\ EnterScope(r, r, IF c.traced THEN Client ELSE None)
    /\ at' = [at EXCEPT ![r] = "received"]
    /\ idOf' = [idOf EXCEPT ![r] = current'[r]]
    /\ seen' = [seen EXCEPT ![r] = {[row |-> row, database |-> database]}]
    /\ UNCHANGED <<fired, queue, lines, answer, row, database, built, faults>>

(* AuthDep: a key is asked for where one is set.                           *)
Refused(c) == c.endpoint \notin Open /\ Keyed /\ ~c.key

(* A body that is no JSON is refused before the key is asked for, a field  *)
(* out of its bounds after.                                                *)
Admit(r) ==
    /\ at[r] = "received"
    /\ LET c == call[r]
       IN  IF c.form = "malformed" THEN Respond(r, 422)
           ELSE IF Refused(c) THEN Respond(r, 401)
           ELSE IF c.form = "invalid" THEN Respond(r, 422)
           ELSE Pass(r, "admitted") /\ UNCHANGED lines
    /\ UNCHANGED Inside

----------------------------------------------------------------------------
(* The handlers, one transaction a step.                                   *)
Handles(r, endpoint, place) == at[r] = place /\ call[r].endpoint = endpoint

Ask(r, reply) ==
    /\ IF database THEN reply ELSE Fail(r)
    /\ UNCHANGED Inside

(* Mutant: what is not there is found out later.                           *)
FindLater(r, place) ==
    Ask(r, IF place = "answer" THEN Respond(r, IF row THEN 200 ELSE 404)
           ELSE Pass(r, place) /\ UNCHANGED lines)

(* The row the path names is asked for, or there is none of that name;     *)
(* "answer" is where nothing is left to do.                                *)
Find(r, place) ==
    Ask(r, IF ~row THEN Respond(r, 404)
           ELSE IF place = "answer" THEN Respond(r, 200)
           ELSE Pass(r, place) /\ UNCHANGED lines)

Liveness(r) == Handles(r, "live", "admitted") /\ Respond(r, 200) /\ UNCHANGED Inside

GetConfig(r) == Handles(r, "config", "admitted") /\ Respond(r, 200) /\ UNCHANGED Inside

ServeDashboard(r) ==
    /\ Handles(r, "page", "admitted")
    /\ Respond(r, IF built THEN 200 ELSE 503)
    /\ UNCHANGED Inside

(* The alerting service counts its alerts and raises when it cannot; the   *)
(* database, asked after, only reports how it is.                          *)
Readiness(r) ==
    \/ Handles(r, "health", "admitted") /\ Ask(r, Pass(r, "counted") /\ UNCHANGED lines)
    \/ Handles(r, "health", "counted") /\ Respond(r, IF database THEN 200 ELSE 503) /\ UNCHANGED Inside

ListRows(r) == Handles(r, "list", "admitted") /\ Ask(r, Respond(r, 200))

GetOne(r) == Handles(r, "one", "admitted") /\ Find(r, "answer")

GetEvidence(r) ==
    \/ Handles(r, "evidence", "admitted") /\ Find(r, "found")
    \/ Handles(r, "evidence", "found") /\ Ask(r, Respond(r, 200))

(* save inserts an alert that is gone meanwhile anew.                      *)
Save(r, reply) ==
    /\ IF database THEN reply /\ row' = TRUE ELSE Fail(r) /\ UNCHANGED row
    /\ UNCHANGED <<fired, queue, idOf, call, database, built, faults>>
    /\ seen' = Meanwhile

UpdateStatus(r) ==
    \/ Handles(r, "patch", "admitted") /\ Find(r, "found")
    \/ Handles(r, "patch", "found") /\ Save(r, Respond(r, 200))

ToggleRule(r) ==
    \/ Handles(r, "toggle", "admitted") /\ Find(r, "found")
    \/ Handles(r, "toggle", "found") /\ Ask(r, Pass(r, "set") /\ UNCHANGED lines)
    \/ Handles(r, "toggle", "set") /\ Find(r, "answer")

(* enrich_alert_now asks for the alert itself; it has nothing to store if  *)
(* there is none, or no public address in it.                              *)
EnrichNow(r) ==
    \/ Handles(r, "enrich", "admitted") /\ Find(r, "found")
    \/ /\ Handles(r, "enrich", "found")
       /\ Ask(r, \/ Pass(r, "stored") /\ UNCHANGED lines
                 \/ row /\ Pass(r, "enriched") /\ lines' = Logged(r, {"audit"}))
    \/ Handles(r, "enrich", "enriched") /\ Save(r, Pass(r, "stored") /\ UNCHANGED lines)
    \/ Handles(r, "enrich", "stored") /\ Find(r, "answer")

(* Meanwhile.                                                              *)
Change ==
    /\ \/ row' = ~row /\ UNCHANGED <<database, built, faults>>
       \/ faults < MaxFaults /\ faults' = faults + 1 /\ database' = ~database /\ UNCHANGED <<row, built>>
       \/ ~built /\ built' = TRUE /\ UNCHANGED <<row, database, faults>>
    /\ seen' = Meanwhile
    /\ UNCHANGED <<tracing, call, answer>>

Serve(r) ==
    \/ Liveness(r) \/ GetConfig(r) \/ ServeDashboard(r) \/ Readiness(r) \/ ListRows(r) \/ GetOne(r)
    \/ GetEvidence(r) \/ UpdateStatus(r) \/ ToggleRule(r) \/ EnrichNow(r)

RequestsNext ==
    \/ TracingNext /\ UNCHANGED <<call, answer, row, database, built, faults, seen>>
    \/ \E r \in Requests : Receive(r) \/ Admit(r) \/ Serve(r)
    \/ Change

RequestsSpec == RequestsInit /\ [][RequestsNext]_requests

----------------------------------------------------------------------------
(* The answer to r beside what r asked for and what was there meanwhile.   *)
Fits(r) ==
    LET a == answer[r]
        c == call[r]
        down == \E s \in seen[r] : ~s.database
    IN  /\ a.status \in {500, 503} => down \/ c.endpoint = "page"
        /\ a.status = 404 => \E s \in seen[r] : ~s.row
        /\ a.status = 200 /\ c.endpoint \in Named => \E s \in seen[r] : s.row
        /\ c.endpoint \in {"live", "config"} /\ c.form = "valid" => a.status \in {200, 401}
        /\ a.status = 401 <=> Refused(c) /\ c.form # "malformed"
        /\ IF a.status = 500 THEN a.id = None /\ ~a.secured
           ELSE a.id = idOf[r] /\ a.secured

(* An answer is true of some moment of the request: what is missing was    *)
(* missing, what is shown was there, and the server fails only if the      *)
(* database did; who needs no database is answered whatever it does.       *)
(* The key is what decides who is refused.  And every answer names the id  *)
(* of its request and carries the security headers, unless it is that of   *)
(* the last resort.                                                        *)
AnswersFit == \A r \in Requests : answer[r] # None => Fits(r)
=============================================================================
