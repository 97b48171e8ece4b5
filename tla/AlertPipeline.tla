--------------------------- MODULE AlertPipeline ---------------------------
(***************************************************************************)
(* The alert pipeline of services/alerts: AlertService._process, the       *)
(* AlertDeduplicator it calls, and what it hands on (repository row,       *)
(* notification and enrichment).                                           *)
(*                                                                         *)
(* No lock guards the deduplicator.  The capture thread enters _process    *)
(* for every rule match, the evaluation thread for every detector alert,   *)
(* and the main thread joins in at shutdown (DetectionService._do_stop     *)
(* runs one last evaluation), so every dictionary operation is a step of   *)
(* its own here, and a save is three: it loads the row, copies the shared  *)
(* Alert object onto it, and commits the column when it differs from what  *)
(* was loaded.  A row is abstracted to its `occurrences` column and an     *)
(* alert to its key, its two timestamps and its occurrences.               *)
(***************************************************************************)
EXTENDS Naturals, FiniteSets

CONSTANTS
    CaptureThreads,  \* threads that report rule matches (the capture thread)
    EvalThreads,     \* threads that report detector alerts
    RuleKeys,        \* dedup keys a rule match can have
    DetectorKeys,    \* dedup keys a detector alert can have
    Window,          \* DEDUP_WINDOW_SECONDS
    MaxTracked,      \* DEDUP_MAX_TRACKED_KEYS
    Skew,            \* how far behind the wall clock a packet may be stamped,
                     \* late, or read from a recording
    MaxAlerts,       \* bound: alerts built in a behaviour
    MaxTime,         \* bound: the last instant
    MaxFails,        \* bound: saves the database refuses
    MaxResets        \* bound: restarts of the service

ASSUME PipelineAssumption ==
    /\ Window \in Nat /\ Skew \in Nat
    /\ MaxTracked \in Nat \ {0}
    /\ MaxAlerts \in Nat /\ MaxTime \in Nat
    /\ MaxFails \in Nat /\ MaxResets \in Nat

ASSUME FiniteThreadsAndKeys ==
    /\ IsFiniteSet(CaptureThreads) /\ IsFiniteSet(EvalThreads)
    /\ IsFiniteSet(RuleKeys) /\ IsFiniteSet(DetectorKeys)
    /\ RuleKeys \cup DetectorKeys # {}

Threads == CaptureThreads \cup EvalThreads
Keys == RuleKeys \cup DetectorKeys
Ids == 1 .. MaxAlerts
NoAlert == 0

VARIABLES
    clock,      \* elapsed seconds
    built,      \* how many alerts were built: alert i is the i-th one
    alert,      \* the Alert objects, by id
    active,     \* the deduplicator's _active: key -> id, NoAlert if untracked
    before,     \* the order of _active: <<j, k>> when j is nearer eviction
    pc,         \* where each thread is inside _process
    own,        \* the alert each thread is processing
    expired,    \* keys the thread's _prune still has to delete
    found,      \* the alert the thread merges into or saves: what its last
                \* _active.get returned, or its own once inserted
    disturbed,  \* threads whose scan of _active another thread changed
    base,       \* the occurrences each thread's save loaded, 0 without a row
    pending,    \* the occurrences it copied
    row,        \* the stored occurrences of each alert, 0 without a row
    announced,  \* alerts dispatched to the hooks and handed to enrichment
    forgotten,  \* history: alerts evicted, reset away or abandoned by an error
    latest,     \* history: the newest timestamp folded into each alert
    overlapped, \* history: two threads were inside _process, or one was in a reset
    misdated,   \* history: an alert was stamped before an earlier one
    unsaved,    \* history: alerts whose last save raised
    met,        \* history: threads whose save met another of the same alert
    crossed,    \* history: alerts no save has had to itself since two met
    raised,     \* history: alerts whose thread left _process by a race's error
    refused,    \* history: alerts whose thread left by a save that failed
    resets

tracker == <<active, before>>
history == <<forgotten, latest, overlapped, misdated>>
saving == <<base, pending, met, crossed>>
persisted == <<row, announced, unsaved, refused, saving>>
vars == <<clock, built, alert, tracker, pc, own, expired, found, disturbed,
          persisted, history, resets, raised>>

Labels == {"idle", "prune", "drop", "merge", "touch", "getActive", "insert",
           "evict", "pop", "load", "copy", "commit", "announce"}

KeyOf(t) == alert[own[t]].key
Tracked == {k \in Keys : active[k] # NoAlert}

(* The one _active.items() scan of _prune: who is expired at time now.     *)
Expired(now) == {k \in Tracked : alert[active[k]].seen + Window < now}

(* OrderedDict operations on the pair <<active, before>>.                  *)
Without(k) == {e \in before : e[1] # k /\ e[2] # k}
AtEnd(k) == Without(k) \cup {<<j, k>> : j \in Tracked \ {k}}
Oldest(k) == k \in Tracked /\ \A e \in before : e[2] # k

(* Any change to the dictionary spoils the scans other threads are in.     *)
Disturb(t) == disturbed' = disturbed \cup {u \in Threads \ {t} : pc[u] = "prune"}

Goto(t, label) == pc' = [pc EXCEPT ![t] = label]

(* An exception leaves _process: the caller logs it and the alert is gone. *)
Abandon(t) ==
    /\ Goto(t, "idle")
    /\ forgotten' = forgotten \cup {own[t]}
    /\ raised' = raised \cup {own[t]}

----------------------------------------------------------------------------
Init ==
    /\ clock = 0 /\ built = 0
    /\ alert = [i \in Ids |-> [key |-> CHOOSE k \in Keys : TRUE,
                               time |-> 0, seen |-> 0, occ |-> 0]]
    /\ active = [k \in Keys |-> NoAlert]
    /\ before = {}
    /\ pc = [t \in Threads |-> "idle"]
    /\ own = [t \in Threads |-> NoAlert]
    /\ expired = [t \in Threads |-> {}]
    /\ found = [t \in Threads |-> NoAlert]
    /\ disturbed = {}
    /\ base = [t \in Threads |-> 0]
    /\ pending = [t \in Threads |-> 0]
    /\ row = [i \in Ids |-> 0]
    /\ announced = {} /\ unsaved = {} /\ forgotten = {}
    /\ latest = [i \in Ids |-> 0]
    /\ met = {} /\ crossed = {} /\ raised = {} /\ refused = {}
    /\ resets = 0
    /\ overlapped = FALSE /\ misdated = FALSE

Tick ==
    /\ clock < MaxTime
    /\ clock' = clock + 1
    /\ UNCHANGED <<built, alert, tracker, pc, own, expired, found, disturbed,
                   persisted, history, resets, raised>>

(* A rule match is stamped with its packet's time, a detector alert with   *)
(* the wall clock (build_rule_alert, build_alert).                         *)
Stamps(t) ==
    IF t \in CaptureThreads
    THEN {s \in 0 .. MaxTime : s <= clock /\ clock <= s + Skew}
    ELSE {clock}

(* The keys a thread's alerts can have.                                    *)
Reports(t) == IF t \in CaptureThreads THEN RuleKeys ELSE DetectorKeys

Begin(t) ==
    /\ pc[t] = "idle"
    /\ built < MaxAlerts
    /\ built' = built + 1
    /\ \E k \in Reports(t), s \in Stamps(t) :
         /\ alert' = [alert EXCEPT ![built + 1] =
                        [key |-> k, time |-> s, seen |-> s, occ |-> 1]]
         /\ latest' = [latest EXCEPT ![built + 1] = s]
         /\ misdated' = (misdated \/ \E i \in Ids : alert[i].time > s)
    /\ own' = [own EXCEPT ![t] = built + 1]
    /\ Goto(t, "prune")
    /\ disturbed' = disturbed \ {t}
    /\ overlapped' = (overlapped \/ \E u \in Threads : pc[u] # "idle")
    /\ UNCHANGED <<clock, tracker, expired, found, persisted, forgotten,
                   resets, raised>>

(* The scan ends.  If another thread changed the dictionary meanwhile, the *)
(* iterator may have noticed, or may have been past it already.            *)
PruneScan(t) ==
    /\ pc[t] = "prune"
    /\ \/ /\ expired' = [expired EXCEPT ![t] = Expired(alert[own[t]].time)]
          /\ Goto(t, "drop")
          /\ UNCHANGED <<forgotten, raised>>
       \/ /\ t \in disturbed
          /\ Abandon(t)
          /\ UNCHANGED expired
    /\ UNCHANGED <<clock, built, alert, tracker, own, found, disturbed,
                   persisted, latest, overlapped, misdated, resets>>

(* One `del self._active[key]`: whatever the key maps to by now goes, and  *)
(* a key another thread removed first raises KeyError.                     *)
PruneDrop(t) ==
    /\ pc[t] = "drop"
    /\ \E k \in expired[t] :
         IF k \in Tracked
         THEN /\ active' = [active EXCEPT ![k] = NoAlert]
              /\ before' = Without(k)
              /\ expired' = [expired EXCEPT ![t] = @ \ {k}]
              /\ Disturb(t)
              /\ UNCHANGED <<pc, forgotten, raised>>
         ELSE Abandon(t) /\ UNCHANGED <<tracker, expired, disturbed>>
    /\ UNCHANGED <<clock, built, alert, own, found, persisted, latest,
                   overlapped, misdated, resets>>

Lookup(t) ==
    /\ pc[t] = "drop" /\ expired[t] = {}
    /\ found' = [found EXCEPT ![t] = active[KeyOf(t)]]
    /\ Goto(t, IF active[KeyOf(t)] = NoAlert THEN "insert" ELSE "merge")
    /\ UNCHANGED <<clock, built, alert, tracker, own, expired, disturbed,
                   persisted, history, resets, raised>>

(* Mutant: only the occurrences are folded in.                             *)
MergeCountOnly(t) ==
    /\ pc[t] = "merge"
    /\ LET i == found[t]
           now == alert[own[t]].time
       IN /\ alert' = [alert EXCEPT ![i].occ = @ + 1]
          /\ latest' = [latest EXCEPT ![i] = IF now > @ THEN now ELSE @]
    /\ Goto(t, "touch")
    /\ UNCHANGED <<clock, built, tracker, own, expired, found, disturbed,
                   persisted, forgotten, overlapped, misdated, resets, raised>>

(* _merge mutates the tracked alert in place; last_seen is assigned, not   *)
(* maximised.                                                              *)
Merge(t) ==
    /\ pc[t] = "merge"
    /\ LET i == found[t]
           now == alert[own[t]].time
           merged == [alert[i] EXCEPT !.occ = @ + 1, !.seen = now]
       IN /\ alert' = [alert EXCEPT ![i] = merged]
          /\ latest' = [latest EXCEPT ![i] = IF now > @ THEN now ELSE @]
    /\ Goto(t, "touch")
    /\ UNCHANGED <<clock, built, tracker, own, expired, found, disturbed,
                   persisted, forgotten, overlapped, misdated, resets, raised>>

(* move_to_end, which raises KeyError when the key is gone.                *)
Touch(t) ==
    /\ pc[t] = "touch"
    /\ IF KeyOf(t) \in Tracked
       THEN /\ before' = AtEnd(KeyOf(t))
            /\ Disturb(t)
            /\ Goto(t, "getActive")
            /\ UNCHANGED <<forgotten, raised>>
       ELSE Abandon(t) /\ UNCHANGED <<before, disturbed>>
    /\ UNCHANGED <<clock, built, alert, active, own, expired, found, persisted,
                   latest, overlapped, misdated, resets>>

(* self._active[key] = alert: a new key goes last, a key another thread    *)
(* inserted meanwhile keeps its place and loses its alert.                 *)
Insert(t) ==
    /\ pc[t] = "insert"
    /\ found' = [found EXCEPT ![t] = own[t]]
    /\ LET k == KeyOf(t)
       IN /\ active' = [active EXCEPT ![k] = own[t]]
          /\ before' = IF k \in Tracked THEN before ELSE AtEnd(k)
          /\ IF k \in Tracked THEN UNCHANGED disturbed ELSE Disturb(t)
    /\ Goto(t, "evict")
    /\ UNCHANGED <<clock, built, alert, own, expired, persisted, history, resets,
                   raised>>

(* Mutant: the overflow test lets one key too many stay.                   *)
EvictTestLate(t) ==
    /\ pc[t] = "evict"
    /\ Goto(t, IF Cardinality(Tracked) > MaxTracked + 1 THEN "pop" ELSE "load")
    /\ UNCHANGED <<clock, built, alert, tracker, own, expired, found,
                   disturbed, persisted, history, resets, raised>>

(* _evict_overflow: the length test and the popitem are two steps.         *)
EvictTest(t) ==
    /\ pc[t] = "evict"
    /\ Goto(t, IF Cardinality(Tracked) > MaxTracked THEN "pop" ELSE "load")
    /\ UNCHANGED <<clock, built, alert, tracker, own, expired, found,
                   disturbed, persisted, history, resets, raised>>

EvictPop(t) ==
    /\ pc[t] = "pop"
    /\ IF Tracked = {}
       THEN Abandon(t) /\ UNCHANGED <<tracker, disturbed>>
       ELSE /\ \E k \in Tracked :
                 /\ Oldest(k)
                 /\ active' = [active EXCEPT ![k] = NoAlert]
                 /\ before' = Without(k)
                 /\ forgotten' = forgotten \cup {active[k]}
            /\ Disturb(t)
            /\ Goto(t, "evict")
            /\ UNCHANGED raised
    /\ UNCHANGED <<clock, built, alert, own, expired, found, persisted, latest,
                   overlapped, misdated, resets>>

(* repository.save of found[t], in a session of its own.  Other threads    *)
(* whose save has loaded the same row and not yet committed.               *)
Crossing(t) ==
    {u \in Threads \ {t} : pc[u] \in {"copy", "commit"} /\ found[u] = found[t]}

(* session.get, the row or none.                                           *)
Load(t) ==
    /\ pc[t] = "load"
    /\ base' = [base EXCEPT ![t] = row[found[t]]]
    /\ Goto(t, "copy")
    /\ IF Crossing(t) = {}
       THEN UNCHANGED <<met, crossed>>
       ELSE met' = met \cup Crossing(t) \cup {t} /\ crossed' = crossed \cup {found[t]}
    /\ UNCHANGED <<clock, built, alert, tracker, own, expired, found, disturbed,
                   pending, row, announced, unsaved, refused, history, resets,
                   raised>>

(* alert_to_record or apply_alert_to_record: the shared object as it is.   *)
Copy(t) ==
    /\ pc[t] = "copy"
    /\ pending' = [pending EXCEPT ![t] = alert[found[t]].occ]
    /\ Goto(t, "commit")
    /\ UNCHANGED <<clock, built, alert, tracker, own, expired, found, disturbed,
                   base, met, crossed, row, announced, unsaved, refused, history,
                   resets, raised>>

(* The UPDATE names the column only when it differs from what was loaded,  *)
(* and is an INSERT when there was no row.                                 *)
Written(t) == IF pending[t] = base[t] THEN row[found[t]] ELSE pending[t]
InsertsTwice(t) == base[t] = 0 /\ row[found[t]] > 0

(* The commit succeeds: the thread that raised the alert announces it.     *)
Stored(t, after) ==
    /\ ~InsertsTwice(t)
    /\ row' = [row EXCEPT ![found[t]] = Written(t)]
    /\ unsaved' = unsaved \ {found[t]}
    /\ crossed' = IF t \in met THEN crossed ELSE crossed \ {found[t]}
    /\ Goto(t, after)
    /\ UNCHANGED <<refused, forgotten, raised>>

(* The commit fails, and the session rolls back: the database refuses, or  *)
(* another thread's INSERT came first (an IntegrityError).                 *)
NotStored(t) ==
    /\ \/ /\ Cardinality(refused) < MaxFails
          /\ refused' = refused \cup {own[t]}
          /\ Goto(t, "idle")
          /\ UNCHANGED <<forgotten, raised>>
       \/ InsertsTwice(t) /\ Abandon(t) /\ UNCHANGED refused
    /\ unsaved' = unsaved \cup {found[t]}
    /\ UNCHANGED <<row, crossed>>

(* session_scope closes the session on every path.                         *)
Close(t) ==
    /\ base' = [base EXCEPT ![t] = 0]
    /\ pending' = [pending EXCEPT ![t] = 0]
    /\ met' = met \ {t}

(* Mutant: _process returns after persisting a new alert.                  *)
CommitOnly(t) ==
    /\ pc[t] = "commit"
    /\ Stored(t, "idle") \/ NotStored(t)
    /\ Close(t)
    /\ UNCHANGED <<clock, built, alert, tracker, own, expired, found, disturbed,
                   announced, latest, overlapped, misdated, resets>>

Commit(t) ==
    /\ pc[t] = "commit"
    /\ \/ Stored(t, IF found[t] = own[t] THEN "announce" ELSE "idle")
       \/ NotStored(t)
    /\ Close(t)
    /\ UNCHANGED <<clock, built, alert, tracker, own, expired, found, disturbed,
                   announced, latest, overlapped, misdated, resets>>

(* dispatcher.dispatch swallows every hook failure and the enrichment sink *)
(* never raises, so nothing can come between them and the return.          *)
Announce(t) ==
    /\ pc[t] = "announce"
    /\ announced' = announced \cup {own[t]}
    /\ Goto(t, "idle")
    /\ UNCHANGED <<clock, built, alert, tracker, own, expired, found, disturbed,
                   row, unsaved, refused, saving, history, resets, raised>>

(* Mutant: a suppressed duplicate ends in process(), nothing is written.   *)
GetActiveOnly(t) ==
    /\ pc[t] = "getActive"
    /\ found' = [found EXCEPT ![t] = active[KeyOf(t)]]
    /\ Goto(t, "idle")
    /\ UNCHANGED <<clock, built, alert, tracker, own, expired, disturbed,
                   persisted, history, resets, raised>>

(* After process() returned None: get_active may find another alert, or    *)
(* none, under the key.                                                    *)
GetActive(t) ==
    /\ pc[t] = "getActive"
    /\ found' = [found EXCEPT ![t] = active[KeyOf(t)]]
    /\ Goto(t, IF active[KeyOf(t)] = NoAlert THEN "idle" ELSE "load")
    /\ UNCHANGED <<clock, built, alert, tracker, own, expired, disturbed,
                   persisted, history, resets, raised>>

(* AlertService.start and stop clear the tracker.  The SDK has joined the  *)
(* capture thread by then, but waited only one interval for the evaluator. *)
Reset ==
    /\ resets < MaxResets
    /\ \A t \in CaptureThreads : pc[t] = "idle"
    /\ resets' = resets + 1
    /\ active' = [k \in Keys |-> NoAlert]
    /\ before' = {}
    /\ forgotten' = forgotten \cup {active[k] : k \in Tracked}
    /\ disturbed' = disturbed \cup {u \in Threads : pc[u] = "prune"}
    /\ overlapped' = (overlapped \/ \E u \in Threads : pc[u] # "idle")
    /\ UNCHANGED <<clock, built, alert, pc, own, expired, found, persisted,
                   latest, misdated, raised>>

Step(t) ==
    \/ Begin(t) \/ PruneScan(t) \/ PruneDrop(t) \/ Lookup(t)
    \/ Merge(t) \/ Touch(t) \/ GetActive(t)
    \/ Insert(t) \/ EvictTest(t) \/ EvictPop(t)
    \/ Load(t) \/ Copy(t) \/ Commit(t) \/ Announce(t)

Next == Tick \/ Reset \/ \E t \in Threads : Step(t)

Spec == Init /\ [][Next]_vars

----------------------------------------------------------------------------
(* Every variable stays in its range, and `before` orders the tracked keys *)
(* and nothing else.                                                       *)
TypeOK ==
    /\ clock \in 0 .. MaxTime
    /\ built \in 0 .. MaxAlerts
    /\ alert \in [Ids -> [key : Keys, time : Nat, seen : Nat, occ : Nat]]
    /\ active \in [Keys -> Ids \cup {NoAlert}]
    /\ before \subseteq (Tracked \X Tracked)
    /\ pc \in [Threads -> Labels]
    /\ own \in [Threads -> Ids \cup {NoAlert}]
    /\ expired \in [Threads -> SUBSET Keys]
    /\ found \in [Threads -> Ids \cup {NoAlert}]
    /\ disturbed \subseteq Threads
    /\ base \in [Threads -> Nat] /\ pending \in [Threads -> Nat]
    /\ row \in [Ids -> Nat]
    /\ announced \subseteq Ids /\ unsaved \subseteq Ids
    /\ forgotten \subseteq Ids
    /\ latest \in [Ids -> Nat]
    /\ met \subseteq Threads /\ crossed \subseteq Ids
    /\ raised \subseteq Ids /\ refused \subseteq Ids
    /\ resets \in 0 .. MaxResets
    /\ overlapped \in BOOLEAN /\ misdated \in BOOLEAN

(* A thread inside _process has its alert in hand, and one that merges or  *)
(* saves has the alert it does it to.                                      *)
InHand ==
    \A t \in Threads :
        /\ pc[t] # "idle" => own[t] # NoAlert
        /\ pc[t] \in {"merge", "touch", "evict", "pop", "load", "copy", "commit"} =>
               found[t] # NoAlert

(* Threads between inserting a key and finding the tracker short enough.   *)
Evicting == {t \in Threads : pc[t] \in {"evict", "pop"}}

(* "State is bounded": whatever the threads race on, the tracker exceeds   *)
(* DEDUP_MAX_TRACKED_KEYS by at most the threads that have inserted a key  *)
(* and have not yet found it short enough (_evict_overflow).               *)
TrackedBounded ==
    Cardinality(Tracked) <= MaxTracked + Cardinality(Evicting)

(* Some thread is inside _process with an alert of key k.                  *)
Busy(k) == \E t \in Threads : pc[t] # "idle" /\ KeyOf(t) = k

(* The row of the alert a key is tracked under holds every occurrence      *)
(* folded into it, once nobody is processing that key, unless its last     *)
(* save raised or two saves of it have met and none has had it to itself   *)
(* since: what crossing saves lose, the next that runs alone makes good    *)
(* (the write-back in AlertService._process).                              *)
ActiveRowsCurrent ==
    \A k \in Tracked : LET i == active[k] IN
        ~Busy(k) /\ i \notin unsaved \cup crossed => row[i] = alert[i].occ

(* A row nobody is still working on was announced, unless the very thread  *)
(* that raised the alert left _process by an exception: whatever another   *)
(* thread's failure or race spoils, it costs no other alert its            *)
(* notification and enrichment.  (The key is tracked before the save: when *)
(* that raises, the repeats are merged and written, and nobody is told.)   *)
RowsAreAnnounced ==
    \A i \in Ids : row[i] > 0 /\ ~Busy(alert[i].key) =>
        i \in announced \cup raised \cup refused

(* Two announced alerts of one key are more than a window apart, counted   *)
(* from the newest event folded into the first, unless the first was       *)
(* evicted or reset away: "Alerts sharing a key inside                     *)
(* DEDUP_WINDOW_SECONDS are merged".                                       *)
MergedInWindow ==
    \A a, b \in announced :
        /\ a < b
        /\ alert[a].key = alert[b].key
        /\ a \notin forgotten
        => alert[b].time > latest[a] + Window

(* "last_seen advances on each merged duplicate": it is the newest event   *)
(* folded into the alert (_merge assigns it, so a late packet, or a thread *)
(* that was overtaken, takes it back).                                     *)
LastSeenIsLatest == \A i \in Ids : alert[i].seen = latest[i]

(* As long as the threads have taken turns no dictionary operation and no  *)
(* second INSERT raises into the packet path, and if events were stamped   *)
(* in order the window is honoured and last_seen is the newest event: what *)
(* the pipeline lacks is a lock around _process, no more.                  *)
SoundInTurn ==
    ~overlapped => raised = {} /\ (~misdated => MergedInWindow /\ LastSeenIsLatest)
=============================================================================
