---------------------------- MODULE DatabaseSchema ----------------------------
(***************************************************************************)
(* The schema of the database and how it comes about: every process that   *)
(* starts brings it to the head revision, an operator may take that back,  *)
(* and each may die between two statements.  On PostgreSQL a migration is  *)
(* one transaction; on SQLite each statement is.                           *)
(***************************************************************************)
EXTENDS Naturals, SequencesExt

CONSTANTS
    Processes,    \* a sensor, an API
    MaxDeaths     \* bound: processes that die half way

Operator == "operator"    \* who runs alembic downgrade
Actors == Processes \cup {Operator}

ASSUME SchemaAssumption == Operator \notin Processes /\ MaxDeaths \in Nat

----------------------------------------------------------------------------
(* The tables as the ORM declares them: columns that must have a value,    *)
(* columns that may be NULL, and what is indexed.                          *)
Table(required, optional, indexes) ==
    [required |-> required, optional |-> optional, indexes |-> indexes]

AlertRecord ==
    Table({"alert_id", "timestamp", "last_seen", "severity", "source", "rule_triggered",
           "packet_summary", "description", "confidence", "status", "occurrences", "evidence"},
          {"src_ip", "dst_ip", "src_port", "dst_port", "protocol", "tactic", "technique",
           "threat_intel"},
          {<<"timestamp">>, <<"rule_triggered">>, <<"src_ip">>, <<"dst_ip">>, <<"status">>,
           <<"severity", "timestamp">>, <<"status", "timestamp">>, <<"src_ip", "timestamp">>})

PacketRecord ==
    Table({"id", "timestamp", "protocol", "length", "raw_summary", "fields"},
          {"alert_id", "src_ip", "dst_ip", "src_port", "dst_port"},
          {<<"alert_id">>, <<"timestamp">>, <<"src_ip">>})

RuleRecord ==
    Table({"name", "severity", "enabled", "window", "threshold", "group_by", "conditions", "loaded_at"},
          {"source_path"}, {<<"enabled">>})

ThreatIntelCacheRecord ==
    Table({"id", "provider", "ip", "payload", "fetched_at", "expires_at"}, {},
          {<<"expires_at">>, <<"provider", "ip", "unique">>})

StatisticsRecord ==
    Table({"id", "captured_at", "total_packets", "total_alerts", "packets_per_second",
           "alerts_by_severity", "top_talkers"}, {}, {<<"captured_at">>})

Declared ==
    [alerts |-> AlertRecord, packets |-> PacketRecord, rules |-> RuleRecord,
     threat_intel_cache |-> ThreatIntelCacheRecord, statistics |-> StatisticsRecord]

(* A thing in the database: a table (of = <<>>), or an index of one.       *)
Thing(table, of) == [table |-> table, of |-> of]

DeclaredThings ==
    UNION {{Thing(t, of) : of \in Declared[t].indexes \cup {<<>>}} : t \in DOMAIN Declared}

----------------------------------------------------------------------------
(* What the initial revision creates, in its order.                        *)
Creates(name, required, optional, indexes) ==
    [name |-> name, required |-> required, optional |-> optional, indexes |-> indexes]

Upgrade ==
    <<Creates("alerts",
              {"alert_id", "timestamp", "last_seen", "severity", "source", "rule_triggered",
               "packet_summary", "description", "confidence", "status", "occurrences", "evidence"},
              {"src_ip", "dst_ip", "src_port", "dst_port", "protocol", "tactic", "technique",
               "threat_intel"},
              <<<<"dst_ip">>, <<"rule_triggered">>, <<"severity", "timestamp">>, <<"src_ip">>,
                <<"src_ip", "timestamp">>, <<"status">>, <<"status", "timestamp">>, <<"timestamp">>>>),
      Creates("rules",
              {"name", "severity", "enabled", "window", "threshold", "group_by", "conditions",
               "loaded_at"},
              {"source_path"}, <<<<"enabled">>>>),
      Creates("statistics",
              {"id", "captured_at", "total_packets", "total_alerts", "packets_per_second",
               "alerts_by_severity", "top_talkers"}, {}, <<<<"captured_at">>>>),
      Creates("threat_intel_cache",
              {"id", "provider", "ip", "payload", "fetched_at", "expires_at"}, {},
              <<<<"expires_at">>, <<"provider", "ip", "unique">>>>),
      Creates("packets",
              {"id", "timestamp", "protocol", "length", "raw_summary", "fields"},
              {"alert_id", "src_ip", "dst_ip", "src_port", "dst_port"},
              <<<<"alert_id">>, <<"src_ip">>, <<"timestamp">>>>)>>

(* Each table, then its indexes; and the way back, indexes first.          *)
ThingsOf(i) ==
    <<Thing(Upgrade[i].name, <<>>)>>
      \o [k \in DOMAIN Upgrade[i].indexes |-> Thing(Upgrade[i].name, Upgrade[i].indexes[k])]

UpgradeThings == ThingsOf(1) \o ThingsOf(2) \o ThingsOf(3) \o ThingsOf(4) \o ThingsOf(5)

Downgrade == Reverse(UpgradeThings)

VARIABLES
    dialect,      \* "sqlite" or "postgresql"
    override,     \* whether DATABASE_URL is set
    embedded,     \* processes whose embedder brings a configuration of its own
    things,       \* what there is in the database of config/setup.json
    stamp,        \* whether alembic_version names the head revision there
    where,        \* actor -> "down", "migrating", "up" or "failed"
    left,         \* actor -> the things still to be created or dropped
    done,         \* actor -> statements of its transaction so far
    deaths,       \* actors that died half way
    met           \* history: process -> whether it migrated beside another,
                  \* or on what was left half done

schema == <<dialect, override, embedded, things, stamp, where, left, done, deaths, met>>

SchemaInit ==
    /\ dialect \in {"sqlite", "postgresql"} /\ override \in BOOLEAN
    /\ embedded \in SUBSET Processes
    /\ things = {} /\ stamp = FALSE
    /\ where = [a \in Actors |-> "down"] /\ left = [a \in Actors |-> <<>>]
    /\ done = [a \in Actors |-> <<>>]
    /\ deaths = 0 /\ met = [p \in Processes |-> FALSE]

----------------------------------------------------------------------------
(* resolve_database_url, for the service: DATABASE_URL before the          *)
(* configuration it was given.  env.py reads the configuration itself.     *)
Serves(p) == IF override \/ p \notin embedded THEN "configured" ELSE "its own"

HalfDone == things # {} /\ ~stamp

(* DatabaseService._do_start: nothing is to be done at the head revision.  *)
StartDatabase(p) ==
    /\ where[p] \in {"down", "failed"} /\ where[Operator] # "migrating"
    /\ IF stamp THEN where' = [where EXCEPT ![p] = "up"] /\ UNCHANGED <<left, met>>
       ELSE LET others == {q \in Processes \ {p} : where[q] = "migrating"}
            IN  /\ where' = [where EXCEPT ![p] = "migrating"]
                /\ left' = [left EXCEPT ![p] = UpgradeThings]
                /\ met' = [q \in Processes |->
                             IF q = p THEN others # {} \/ HalfDone ELSE met[q] \/ q \in others]
    /\ UNCHANGED <<dialect, override, embedded, things, stamp, done, deaths>>

(* "alembic downgrade -1", of a deployment that is down.                   *)
BeginDowngrade ==
    /\ stamp /\ \A a \in Actors : where[a] \in {"down", "failed"}
    /\ where' = [where EXCEPT ![Operator] = "migrating"]
    /\ left' = [left EXCEPT ![Operator] = Downgrade]
    /\ UNCHANGED <<dialect, override, embedded, things, stamp, done, deaths, met>>

(* The next statement.  PostgreSQL has it wait for the transaction that    *)
(* holds the name, SQLite commits it.  What is there is not created again, *)
(* what is not there cannot be dropped.                                    *)
Execute(a) ==
    /\ where[a] = "migrating" /\ left[a] # <<>>
    /\ dialect = "postgresql" => \A b \in Actors \ {a} : done[b] = <<>>
    /\ LET thing == Head(left[a])
       IN  IF (thing \in things) = (a # Operator)
           THEN /\ where' = [where EXCEPT ![a] = "failed"]
                /\ left' = [left EXCEPT ![a] = <<>>]
                /\ done' = [done EXCEPT ![a] = <<>>]
                /\ UNCHANGED things
           ELSE /\ left' = [left EXCEPT ![a] = Tail(@)]
                /\ IF dialect = "postgresql"
                   THEN done' = [done EXCEPT ![a] = Append(@, thing)] /\ UNCHANGED things
                   ELSE /\ things' = IF a = Operator THEN things \ {thing} ELSE things \cup {thing}
                        /\ UNCHANGED done
                /\ UNCHANGED where
    /\ UNCHANGED <<dialect, override, embedded, stamp, deaths, met>>

(* The version is written last, with the transaction if there is one.      *)
StampVersion(a) ==
    /\ where[a] = "migrating" /\ left[a] = <<>>
    /\ stamp' = (a # Operator)
    /\ things' = IF a = Operator THEN things \ ToSet(done[a]) ELSE things \cup ToSet(done[a])
    /\ done' = [done EXCEPT ![a] = <<>>]
    /\ where' = [where EXCEPT ![a] = IF a = Operator THEN "down" ELSE "up"]
    /\ UNCHANGED <<dialect, override, embedded, left, deaths, met>>

(* One is killed: its transaction is rolled back.                          *)
Die(a) ==
    /\ where[a] = "migrating" /\ deaths < MaxDeaths
    /\ deaths' = deaths + 1
    /\ where' = [where EXCEPT ![a] = IF a = Operator THEN "failed" ELSE "down"]
    /\ left' = [left EXCEPT ![a] = <<>>] /\ done' = [done EXCEPT ![a] = <<>>]
    /\ UNCHANGED <<dialect, override, embedded, things, stamp, met>>

StopDatabase(p) ==
    /\ where[p] = "up"
    /\ where' = [where EXCEPT ![p] = "down"]
    /\ UNCHANGED <<dialect, override, embedded, things, stamp, left, done, deaths, met>>

SchemaNext ==
    \/ \E p \in Processes : StartDatabase(p) \/ StopDatabase(p)
    \/ BeginDowngrade
    \/ \E a \in Actors : Execute(a) \/ StampVersion(a) \/ Die(a)

SchemaSpec == SchemaInit /\ [][SchemaNext]_schema

----------------------------------------------------------------------------
(* "A fresh checkout, a container and a test run all reach the same        *)
(* schema": where the version says so, every table, column and index the   *)
(* ORM declares is there, unless a downgrade on SQLite was cut off; and a  *)
(* start fails only beside another process that migrates, or, on SQLite,   *)
(* upon what one that died has left.                                       *)
SchemaIsWhole ==
    /\ stamp /\ where[Operator] # "migrating" =>
         things = DeclaredThings \/ (dialect = "sqlite" /\ where[Operator] = "failed")
    /\ \A i \in DOMAIN Upgrade :
         LET t == Declared[Upgrade[i].name]
         IN  Upgrade[i].required = t.required /\ Upgrade[i].optional = t.optional
    /\ \A p \in Processes :
         /\ where[p] = "up" /\ Serves(p) = "configured" => stamp
         /\ where[p] = "failed" => met[p]
    /\ HalfDone /\ (\A a \in Actors : where[a] # "migrating") => dialect = "sqlite" /\ deaths > 0
=============================================================================
