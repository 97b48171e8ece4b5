----------------------------- MODULE AlertStore -----------------------------
(***************************************************************************)
(* One row of the alerts table and everybody who rewrites it: the sensor's *)
(* pipeline (a merged duplicate), its enrichment worker, the API process   *)
(* (PATCH status, POST enrich) and the retention sweep.                    *)
(*                                                                         *)
(* Sensor threads share one Alert object; an API request works on a copy   *)
(* it read in an earlier transaction.  SqlAlchemyAlertRepository.save is   *)
(* three steps: load the row, copy every field onto it, and flush, where   *)
(* the UPDATE names only the columns that differ from what was loaded.     *)
(***************************************************************************)
EXTENDS Naturals, FiniteSets

CONSTANTS
    pipeline,     \* the thread merging duplicates
    worker,       \* the enrichment worker thread
    Patchers,     \* PATCH /alerts/{id} requests
    Enrichers,    \* POST /alerts/{id}/enrich requests
    Statuses,     \* the triage statuses, with
    New,          \* AlertStatus.NEW
    Prunes,       \* bound: retention sweeps that reach this alert
    MaxOcc        \* bound: occurrences folded into the alert

ASSUME StoreAssumption ==
    /\ New \in Statuses
    /\ Prunes \in Nat /\ MaxOcc \in Nat \ {0}
    /\ pipeline # worker /\ Patchers \cap Enrichers = {}
    /\ {pipeline, worker} \cap (Patchers \cup Enrichers) = {}

Sensor == {pipeline, worker}
Requests == Patchers \cup Enrichers
Savers == Sensor \cup Requests
Columns == {"occ", "status", "ti"}
Contents == [occ : 1 .. MaxOcc, status : Statuses, ti : BOOLEAN]

VARIABLES
    present,   \* whether the row exists
    row,       \* its columns: occurrences, status, whether it has threat_intel
    object,    \* the Alert object the sensor's threads share
    copy,      \* the Alert object of each API request
    base,      \* what each save loaded: <<present, row>>
    pending,   \* what each save will write: a value and the columns written
    pc,        \* where each saver is
    failed,    \* savers whose last save raised
    triage,    \* history: the status the last completed PATCH asked for
    pruned     \* sweeps so far

vars == <<present, row, object, copy, base, pending, pc, failed, triage, pruned>>

Alert(p) == IF p \in Sensor THEN object ELSE copy[p]
Goto(p, label) == pc' = [pc EXCEPT ![p] = label]

----------------------------------------------------------------------------
Fresh == [occ |-> 1, status |-> New, ti |-> FALSE]
Unread == <<FALSE, Fresh>>                      \* a session that loaded nothing
Nothing == [value |-> Fresh, columns |-> {}]    \* and has nothing to write

(* The alert has just been raised and inserted; its enrichment is queued.  *)
Init ==
    /\ present = TRUE /\ row = Fresh /\ object = Fresh
    /\ copy = [p \in Requests |-> Fresh]
    /\ base = [p \in Savers |-> Unread]
    /\ pending = [p \in Savers |-> Nothing]
    /\ pc = [p \in Savers |-> "start"]
    /\ failed = {} /\ triage = New /\ pruned = 0

(* AlertDeduplicator._merge on the shared object, then the write-back.     *)
MergeDuplicate ==
    /\ pc[pipeline] = "start"
    /\ object.occ < MaxOcc
    /\ object' = [object EXCEPT !.occ = @ + 1]
    /\ Goto(pipeline, "load")
    /\ UNCHANGED <<present, row, copy, base, pending, failed, triage, pruned>>

(* enrich_alert sets threat_intel on the shared object, then on_enriched   *)
(* saves it.                                                               *)
Enrich ==
    /\ pc[worker] = "start"
    /\ object' = [object EXCEPT !.ti = TRUE]
    /\ Goto(worker, "load")
    /\ UNCHANGED <<present, row, copy, base, pending, failed, triage, pruned>>

(* A request reads the alert; without a row it ends there.                 *)
RequestGet(p) ==
    /\ pc[p] = "start"
    /\ Goto(p, IF present THEN "got" ELSE "done")
    /\ copy' = IF present THEN [copy EXCEPT ![p] = row] ELSE copy
    /\ UNCHANGED <<present, row, object, base, pending, failed, triage, pruned>>

SetStatus(p) ==
    /\ p \in Patchers /\ pc[p] = "got"
    /\ \E s \in Statuses : copy' = [copy EXCEPT ![p].status = s]
    /\ Goto(p, "load")
    /\ UNCHANGED <<present, row, object, base, pending, failed, triage, pruned>>

(* enrich_alert_now: without a public address there is nothing to save.    *)
EnrichNow(p) ==
    /\ p \in Enrichers /\ pc[p] = "got"
    /\ \/ Goto(p, "load") /\ copy' = [copy EXCEPT ![p].ti = TRUE]
       \/ Goto(p, "done") /\ copy' = [copy EXCEPT ![p] = Fresh]
    /\ UNCHANGED <<present, row, object, base, pending, failed, triage, pruned>>

Load(p) ==
    /\ pc[p] = "load"
    /\ base' = [base EXCEPT ![p] = <<present, row>>]
    /\ Goto(p, "apply")
    /\ UNCHANGED <<present, row, object, copy, pending, failed, triage, pruned>>

(* Mutant: the UPDATE writes every column.                                 *)
DirtyEverything(p) == Columns

(* Mutant: apply_alert_to_record forgets threat_intel.                     *)
DirtyWithoutIntel(p) ==
    IF base[p][1] THEN {c \in {"occ", "status"} : Alert(p)[c] # base[p][2][c]}
                  ELSE Columns

(* alert_to_record for a missing row, apply_alert_to_record otherwise.     *)
Dirty(p) ==
    IF base[p][1] THEN {c \in Columns : Alert(p)[c] # base[p][2][c]} ELSE Columns

Apply(p) ==
    /\ pc[p] = "apply"
    /\ pending' = [pending EXCEPT ![p] = [value |-> Alert(p), columns |-> Dirty(p)]]
    /\ Goto(p, "commit")
    /\ UNCHANGED <<present, row, object, copy, base, failed, triage, pruned>>

(* The INSERT fails if the row appeared, the UPDATE if it went away.       *)
CanWrite(p) == \/ pending[p].columns = {}
               \/ base[p][1] = present

Written(p) ==
    [c \in Columns |-> IF c \in pending[p].columns THEN pending[p].value[c]
                                                   ELSE row[c]]

(* session_scope closes the session, whichever way it ended, and with its  *)
(* request an API copy of the alert is gone.                               *)
Close(p) ==
    /\ base' = [base EXCEPT ![p] = Unread]
    /\ pending' = [pending EXCEPT ![p] = Nothing]
    /\ copy' = IF p \in Requests THEN [copy EXCEPT ![p] = Fresh] ELSE copy

(* The pipeline goes on to the next duplicate, the others are finished.    *)
Commit(p) ==
    /\ pc[p] = "commit"
    /\ Goto(p, IF p = pipeline THEN "start" ELSE "done")
    /\ IF CanWrite(p)
       THEN /\ row' = Written(p)
            /\ present' = (present \/ pending[p].columns # {})
            /\ failed' = failed \ {p}
            /\ triage' = IF p \in Patchers THEN copy[p].status ELSE triage
       ELSE failed' = failed \cup {p} /\ UNCHANGED <<row, present, triage>>
    /\ Close(p)
    /\ UNCHANGED <<object, pruned>>

(* RetentionService._prune_alerts goes by the alert's first timestamp, so  *)
(* an alert still receiving duplicates can be swept.                       *)
Prune ==
    /\ pruned < Prunes /\ present
    /\ present' = FALSE /\ row' = Fresh
    /\ pruned' = pruned + 1
    /\ UNCHANGED <<object, copy, base, pending, pc, failed, triage>>

Request(p) == RequestGet(p) \/ SetStatus(p) \/ EnrichNow(p)

Save(p) == Load(p) \/ Apply(p) \/ Commit(p)

Next ==
    \/ MergeDuplicate \/ Enrich \/ Prune
    \/ \E p \in Requests : Request(p)
    \/ \E p \in Savers : Save(p)

Spec == Init /\ [][Next]_vars

----------------------------------------------------------------------------
TypeOK ==
    /\ present \in BOOLEAN
    /\ row \in Contents /\ object \in Contents
    /\ copy \in [Requests -> Contents]
    /\ base \in [Savers -> BOOLEAN \X Contents]
    /\ pending \in [Savers -> [value : Contents, columns : SUBSET Columns]]
    /\ pc \in [Savers -> {"start", "got", "load", "apply", "commit", "done"}]
    /\ failed \subseteq Savers
    /\ triage \in Statuses /\ pruned \in 0 .. Prunes

Quiet == \A p \in Savers : pc[p] \in {"start", "done"}

(* The sensor has had the row to itself: no request has read it.           *)
SensorOnly == \A p \in Requests : pc[p] = "start"

(* Once the worker has saved without an error and nobody is saving, a row  *)
(* only the sensor wrote carries the threat intel, wherever merges and a   *)
(* sweep fell (two sweeps would have to fall into one save to break it,    *)
(* and sweeps are an interval apart).                                      *)
EnrichmentLands ==
    SensorOnly /\ present /\ Quiet /\ pc[worker] = "done" /\ worker \notin failed
        => row.ti

(* "Triage is the one write it needs": a PATCH leaves every column but the *)
(* status alone, also one another writer changed between its load and its  *)
(* commit, provided nobody had changed one between its read and its load.  *)
PatchWritesOnlyStatus ==
    [][\A p \in Patchers :
         /\ pc[p] = "commit" /\ pc'[p] # "commit"
         /\ \A c \in {"occ", "ti"} : base[p][2][c] = copy[p][c]
         /\ base[p][1] /\ present
         => row'.occ = row.occ /\ row'.ti = row.ti]_vars

(* "Update triage status": the status an analyst's PATCH set is the status *)
(* of the row, once nothing is being saved.                                *)
TriageKept == present /\ Quiet => row.status = triage
=============================================================================
