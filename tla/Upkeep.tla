-------------------------------- MODULE Upkeep --------------------------------
(***************************************************************************)
(* What the database keeps and for how long: alerts with the packets that  *)
(* are their evidence, snapshots of the counters, cached lookups, and the  *)
(* sweep that goes over the four tables one transaction at a time while    *)
(* new rows come in.  Time is in days.                                     *)
(***************************************************************************)
EXTENDS Naturals, Sequences, FiniteSets

CONSTANTS
    Policies,     \* [alerts, packets, statistics]: windows an operator sets
    CacheDays,    \* life of a cached lookup
    MaxDay,       \* bound: days that pass
    Room,         \* bound: table -> rows that are ever stored in it
    MaxSweeps,    \* bound: sweeps that begin
    Absent

ASSUME UpkeepAssumption ==
    /\ Policies \subseteq [alerts : Nat, packets : Nat, statistics : Nat]
    /\ Absent \notin Policies \cup [alert : Nat, at : Nat]
    /\ CacheDays \in Nat \ {0} /\ MaxDay \in Nat

Tables == <<"packets", "alerts", "statistics", "cache">>

VARIABLES
    policy,       \* the windows in force, Absent if they are refused
    day,          \* the clock
    rows,         \* table -> rows: [alert, at], [at] or [expires]
    stored,       \* history: table -> every row there ever was
    raising,      \* the alert whose evidence is still to be stored
    sweep,        \* the table the sweep is at, 0 if none runs
    reference,    \* the day the sweep began
    sweeps, failures,    \* what maintenance counts
    due,          \* history: what the last sweep has to remove
    revived       \* history: alerts a save put back since that sweep began

upkeep == <<policy, day, rows, stored, raising, sweep, reference, sweeps, failures, due, revived>>

(* RetentionConfig: windows of a day at least.                             *)
ValidWindows(p) == p.alerts >= 1 /\ p.packets >= 1 /\ p.statistics >= 1

(* RetentionPolicy.__post_init__, which the configuration does not repeat. *)
ValidPolicy(p) == ValidWindows(p) /\ p.packets <= p.alerts

Empty == [packets |-> {}, alerts |-> {}, statistics |-> {}, cache |-> {}]

UpkeepInit ==
    /\ \E p \in Policies : policy = IF ValidPolicy(p) THEN p ELSE Absent
    /\ day = 0 /\ rows = Empty /\ stored = Empty /\ raising = Absent
    /\ sweep = 0 /\ reference = 0 /\ sweeps = 0 /\ failures = 0
    /\ due = Empty /\ revived = {}

----------------------------------------------------------------------------
Insert(table, row) ==
    /\ Cardinality(stored[table]) < Room[table]
    /\ rows' = [rows EXCEPT ![table] = @ \cup {row}]
    /\ stored' = [stored EXCEPT ![table] = @ \cup {row}]

Sweeping == <<sweep, reference, sweeps, failures, due, revived>>

(* A rule matches: the alert is stored, then the packet.  Both have the    *)
(* time of the packet, which a replay may have read from an old file.      *)
StoreAlert ==
    /\ policy # Absent /\ raising = Absent
    /\ \E at \in 0 .. day : raising' = [alert |-> Cardinality(stored.alerts) + 1, at |-> at]
    /\ Insert("alerts", raising')
    /\ UNCHANGED <<policy, day, Sweeping>>

(* A merge, a worker that enriched it and a PATCH save an alert they have  *)
(* in hand, and the save is an upsert: a row that was swept is inserted    *)
(* anew, as old as it was and without its evidence.                        *)
SaveAgain ==
    /\ policy # Absent
    /\ \E r \in stored.alerts \ rows.alerts :
         /\ rows' = [rows EXCEPT !.alerts = @ \cup {r}]
         /\ revived' = revived \cup {r}
    /\ UNCHANGED <<policy, day, stored, raising, sweep, reference, sweeps, failures, due>>

(* PacketRepository.save: the foreign key refuses evidence of an alert     *)
(* that is gone; a failure is logged, and the alert stands without.        *)
SavePacket ==
    /\ raising # Absent /\ raising' = Absent
    /\ \/ raising \in rows.alerts /\ Insert("packets", raising)
       \/ UNCHANGED <<rows, stored>>
    /\ UNCHANGED <<policy, day, Sweeping>>

(* run_statistics: a snapshot that fails is counted, and the next comes.   *)
RecordSnapshot ==
    /\ policy # Absent /\ [at |-> day] \notin stored.statistics
    /\ Insert("statistics", [at |-> day])
    /\ UNCHANGED <<policy, day, raising, Sweeping>>

FailSnapshot ==
    /\ policy # Absent /\ failures = 0    \* one failure is enough
    /\ failures' = failures + 1
    /\ UNCHANGED <<policy, day, rows, stored, raising, sweep, reference, sweeps, due, revived>>

CacheLookup ==
    /\ policy # Absent
    /\ Insert("cache", [expires |-> day + CacheDays])
    /\ UNCHANGED <<policy, day, raising, Sweeping>>

----------------------------------------------------------------------------
Outlived(table, row, date) ==
    IF table = "cache" THEN row.expires <= date ELSE row.at + policy[table] < date

(* prune, hourly or by hand: the clock is read once.                       *)
BeginSweep ==
    /\ policy # Absent /\ sweep = 0 /\ sweeps + failures < MaxSweeps
    /\ sweep' = 1 /\ reference' = day
    /\ due' = [t \in DOMAIN rows |-> {r \in rows[t] : Outlived(t, r, day)}] /\ revived' = {}
    /\ UNCHANGED <<policy, day, rows, stored, raising, sweeps, failures>>

(* Mutant: alerts are swept by the window of packets.                      *)
StaleAlike(table, row) ==
    IF table = "cache" THEN row.expires <= reference
    ELSE row.at + (IF table = "statistics" THEN policy.statistics ELSE policy.packets) < reference

(* The cutoff of each table.                                               *)
Stale(table, row) ==
    CASE table = "cache" -> row.expires <= reference
      [] table = "packets" -> row.at + policy.packets < reference
      [] table = "alerts" -> row.at + policy.alerts < reference
      [] table = "statistics" -> row.at + policy.statistics < reference

(* One table in one transaction; an alert takes its evidence with it.      *)
PruneTable ==
    /\ sweep # 0
    /\ LET table == Tables[sweep]
           stale == {r \in rows[table] : Stale(table, r)}
       IN  rows' = IF table = "alerts"
                   THEN [rows EXCEPT !.alerts = @ \ stale, !.packets = @ \ stale]
                   ELSE [rows EXCEPT ![table] = @ \ stale]
    /\ IF sweep < Len(Tables) THEN sweep' = sweep + 1 /\ UNCHANGED sweeps
       ELSE sweep' = 0 /\ sweeps' = sweeps + 1
    /\ UNCHANGED <<policy, day, stored, raising, reference, failures, due, revived>>

(* The database refuses: the tables after this one wait for the next sweep.*)
FailSweep ==
    /\ sweep # 0 /\ failures = 0
    /\ sweep' = 0 /\ failures' = failures + 1 /\ due' = Empty
    /\ UNCHANGED <<policy, day, rows, stored, raising, reference, sweeps, revived>>

(* A packet's evidence is stored long before the day is over, and so is a  *)
(* sweep.                                                                  *)
Tick ==
    /\ policy # Absent /\ raising = Absent /\ sweep \in {0, 2} /\ day < MaxDay
    /\ day' = day + 1
    /\ UNCHANGED <<policy, rows, stored, raising, Sweeping>>

UpkeepNext ==
    \/ StoreAlert \/ SaveAgain \/ SavePacket \/ RecordSnapshot \/ FailSnapshot \/ CacheLookup
    \/ BeginSweep \/ PruneTable \/ FailSweep \/ Tick

----------------------------------------------------------------------------
(* get_series: the snapshots of the last days, for the trend chart.        *)
Series(days) == {r \in rows.statistics : r.at + days >= day}

(* No row leaves a table before it has outlived its own window, whatever   *)
(* is stored meanwhile, and evidence of an alert goes with it no earlier;  *)
(* a sweep leaves nothing it had to remove but alerts that were saved      *)
(* again behind it; evidence never outlives its alert; and a chart over no *)
(* more days than snapshots are kept misses none.                          *)
RetentionHolds ==
    /\ \A t \in DOMAIN rows : \A r \in stored[t] \ rows[t] : Outlived(t, r, day)
    /\ \A i \in DOMAIN Tables :
         sweep = 0 \/ i < sweep =>
           due[Tables[i]] \cap rows[Tables[i]] \subseteq (IF Tables[i] = "alerts" THEN revived ELSE {})
    /\ rows.packets \subseteq rows.alerts
    /\ policy # Absent =>
         \A days \in 0 .. policy.statistics :
           Series(days) = {r \in stored.statistics : r.at + days >= day}
=============================================================================
