------------------------------ MODULE Deployment ------------------------------
(***************************************************************************)
(* What the processes of a deployment share with the pipeline only at its  *)
(* edges, one part at a time: how each is configured, which detectors it   *)
(* loads, how findings and requests run with their ids, what becomes of a  *)
(* log record, what an alert says and who is told, how the database comes  *)
(* by its schema, what it keeps and what the dashboard shows.  The parts   *)
(* share no state: to each, what the others do is an input.  A behaviour   *)
(* is one of the chosen part, the rest stays as it is.                     *)
(***************************************************************************)
EXTENDS Configuration, Requests, Logging, AlertContent, Plugins, Upkeep, Dashboard,
        DatabaseSchema

VARIABLE part    \* the part this behaviour is about

deployed == <<part, configuration, requests, logging, content, plugins, upkeep, dashboard, schema>>

Parts == {"configuration", "findings", "requests", "logging", "content", "plugins", "upkeep",
          "dashboard", "schema"}

(* The inputs of the parts a behaviour is not about.                       *)
AtRest ==
    /\ part # "configuration" =>
         /\ kind = "str" /\ file = NoConfig /\ limits = TRUE
         /\ dotenv = [key |-> Unset, url |-> Unset, secret |-> Unset]
         /\ environ = [key |-> Unset, url |-> Unset, secret |-> Unset, section |-> Unset]
    /\ part # "logging" => settings = "absent" /\ process = "network-defender-api"
    /\ part # "plugins" =>
         sections = [n \in {ClassAt(p).name : p \in Places} |-> "absent"]
         /\ entries = {} /\ listed = {} /\ broken = {}
    /\ part # "upkeep" => policy = Absent
    /\ part # "dashboard" => pages = [f \in Filters |-> 0]
    /\ part # "schema" => dialect = "sqlite" /\ override = FALSE /\ embedded = {}

DeploymentInit ==
    /\ part \in Parts
    /\ AtRest
    /\ ConfigurationInit /\ RequestsInit /\ LoggingInit
    /\ ContentInit /\ PluginsInit /\ UpkeepInit /\ DashboardInit /\ SchemaInit

Configuring ==
    /\ part = "configuration" /\ ConfigurationNext
    /\ UNCHANGED <<part, requests, logging, content, plugins, upkeep, dashboard, schema>>

Finding ==
    /\ part = "findings" /\ TracingNext
    /\ UNCHANGED <<part, call, answer, row, database, built, faults, seen>>
    /\ UNCHANGED <<configuration, logging, content, plugins, upkeep, dashboard, schema>>

(* One finding beside the requests is enough: two are the part before.     *)
Requesting ==
    /\ part = "requests" /\ RequestsNext /\ fired' <= 1
    /\ UNCHANGED <<part, configuration, logging, content, plugins, upkeep, dashboard, schema>>

WritingLogs ==
    /\ part = "logging" /\ LoggingNext
    /\ UNCHANGED <<part, configuration, requests, content, plugins, upkeep, dashboard, schema>>

Notifying ==
    /\ part = "content" /\ ContentNext
    /\ UNCHANGED <<part, configuration, requests, logging, plugins, upkeep, dashboard, schema>>

Discovering ==
    /\ part = "plugins" /\ LoadDetectors
    /\ UNCHANGED <<part, configuration, requests, logging, content, upkeep, dashboard, schema>>

Keeping ==
    /\ part = "upkeep" /\ UpkeepNext
    /\ UNCHANGED <<part, configuration, requests, logging, content, plugins, dashboard, schema>>

Browsing ==
    /\ part = "dashboard" /\ DashboardNext
    /\ UNCHANGED <<part, configuration, requests, logging, content, plugins, upkeep, schema>>

Migrating ==
    /\ part = "schema" /\ SchemaNext
    /\ UNCHANGED <<part, configuration, requests, logging, content, plugins, upkeep, dashboard>>

DeploymentNext ==
    Configuring \/ Finding \/ Requesting \/ WritingLogs \/ Notifying \/ Discovering \/ Keeping
    \/ Browsing \/ Migrating

DeploymentSpec == DeploymentInit /\ [][DeploymentNext]_deployed

----------------------------------------------------------------------------
(* Every line of a job carries the job's id (Tracing), and no line shows a *)
(* credential the redaction has a word for, is written twice or misses its *)
(* stream (Logging).                                                       *)
LinesAreSound == LinesAreTraced /\ LogsAreClean

(* Alerts rank as they should, and the hooks that want one get it          *)
(* (AlertContent).                                                         *)
AlertsAreHeard == WorseIsNoLessSure /\ HooksAreServed

(* The layers of the configuration are told apart (Configuration), and a   *)
(* process has the detectors that stand (Plugins).                         *)
SetUpIsSound == LayersRespected /\ DetectorsStandAlone

(* The tables are those the program expects (DatabaseSchema), and the rows *)
(* in them those that are to be kept (Upkeep).                             *)
StoreHolds == SchemaIsWhole /\ RetentionHolds

(* What is on screen is true (Dashboard).                                  *)
ScreenIsTrue == ShowsItsAnswer /\ EmptyMeansNone
=============================================================================
