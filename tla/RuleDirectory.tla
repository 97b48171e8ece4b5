---------------------------- MODULE RuleDirectory ----------------------------
(***************************************************************************)
(* The rule files, the registries that mirror them and the snapshot in the *)
(* database.  A sensor loads the directory, then watches it; the API       *)
(* toggles rules and reloads them, in the sensor's process where both      *)
(* share one SDK and else in its own, whose engine nobody has started.     *)
(* Each file holds one rule; what the rule says apart from its enabled     *)
(* flag is left out.                                                       *)
(***************************************************************************)
EXTENDS Integers, Sequences, FiniteSets

CONSTANTS
    Files, Callers,      \* rule files, and threads serving requests
    MaxEdits, MaxCalls   \* bounds: changes of the directory, and requests

ASSUME DirectoryAssumption == MaxEdits \in Nat /\ MaxCalls \in Nat

Contents == {"absent", "broken", "on", "off"}
Readable == {"on", "off"}
Processes == {"sensor", "api"}

VARIABLES
    shared,     \* whether the API was given the sensor's SDK
    disk,       \* what each file holds
    registry,   \* RuleRegistry._rules of each process: "none", "on" or "off"
    loader,     \* RuleLoader: "stopped", "loading" or "watching"
    unread,     \* files the initial load has listed and not read
    events,     \* watchdog events on their way to the handler
    snapshot,   \* the rules table: "none", "on" or "off"
    synced,     \* whether the sensor has written it since its start
    at,         \* where a caller is in set_rule_enabled or reload_rules
    asked,      \* the file and the state a toggle is for
    collected,  \* the enabled rules a reload is about to write
    edits, calls,
    missed,     \* history: files a process could not learn the change of
    override,   \* history: rules toggled in a process, not loaded since
    drifted,    \* history: rules two requests raced for, or a file changed
    toggled     \* history: rules toggled since the last reload began

engine == <<registry, loader, unread, events, missed, override>>
requests == <<at, asked, collected, calls, toggled>>
directory == <<shared, disk, engine, snapshot, synced, requests, edits, drifted>>

Nowhere == [f \in Files |-> "none"]

Engine == IF shared THEN "sensor" ELSE "api"

DirectoryInit ==
    /\ shared \in BOOLEAN
    /\ disk \in [Files -> {"absent", "on", "off"}]
    /\ registry = [p \in Processes |-> Nowhere]
    /\ loader = [p \in Processes |-> "stopped"]
    /\ unread = [p \in Processes |-> {}]
    /\ events = [p \in Processes |-> <<>>]
    /\ snapshot = Nowhere /\ synced = FALSE
    /\ at = [c \in Callers |-> "idle"]
    /\ asked = [c \in Callers |-> <<>>] /\ collected = Nowhere
    /\ edits = 0 /\ calls = 0
    /\ missed = [p \in Processes |-> {}]
    /\ override = [p \in Processes |-> {}] /\ drifted = {} /\ toggled = {}

----------------------------------------------------------------------------
(* A file is written, removed, or, with renamed, saved by an editor that   *)
(* renames a finished copy over it: the watcher hears of it while it       *)
(* watches, save for the rename, which has no handler.                     *)
ChangeFile(f, content, renamed) ==
    LET hears(p) == loader[p] = "watching" /\ ~renamed
        event == <<IF content = "absent" THEN "deleted" ELSE "changed", f>>
    IN  /\ edits < MaxEdits /\ edits' = edits + 1
        /\ content # disk[f] /\ (renamed => content # "absent")
        /\ disk' = [disk EXCEPT ![f] = content]
        /\ events' = [p \in Processes |->
                        IF hears(p) THEN Append(events[p], event) ELSE events[p]]
        /\ missed' = [p \in Processes |-> IF hears(p) THEN missed[p] ELSE missed[p] \cup {f}]
        /\ drifted' = drifted \cup {f}
        /\ UNCHANGED <<shared, registry, loader, unread, snapshot, synced, requests, override>>

(* _load_rule_file: a file that cannot be read or is not valid leaves the  *)
(* rule it was before.                                                     *)
LoadRuleFile(p, f) ==
    IF disk[f] \in Readable
    THEN /\ registry' = [registry EXCEPT ![p][f] = disk[f]]
         /\ override' = [override EXCEPT ![p] = @ \ {f}]
         /\ missed' = [missed EXCEPT ![p] = @ \ {f}]
    ELSE UNCHANGED <<registry, override, missed>>

(* RuleLoader.start lists the directory, reads what it listed, and only    *)
(* then begins to watch.  The registry is not emptied before.              *)
BeginLoad(p) ==
    /\ loader' = [loader EXCEPT ![p] = "loading"]
    /\ unread' = [unread EXCEPT ![p] = {f \in Files : disk[f] # "absent"}]

StartSensor ==
    /\ loader["sensor"] = "stopped" /\ \A c \in Callers : at[c] # "stopped" \/ ~shared
    /\ ~synced
    /\ BeginLoad("sensor")
    /\ UNCHANGED <<shared, disk, registry, events, missed, override, snapshot, synced,
                   requests, edits, drifted>>

LoadNext(p) ==
    /\ loader[p] = "loading"
    /\ \E f \in unread[p] :
         /\ LoadRuleFile(p, f)
         /\ unread' = [unread EXCEPT ![p] = @ \ {f}]
    /\ UNCHANGED <<shared, disk, loader, events, snapshot, synced, requests, edits, drifted>>

Watch(p) ==
    /\ loader[p] = "loading" /\ unread[p] = {}
    /\ loader' = [loader EXCEPT ![p] = "watching"]
    /\ UNCHANGED <<shared, disk, registry, unread, events, missed, override, snapshot, synced,
                   requests, edits, drifted>>

(* Mutant: no on_deleted.                                                  *)
HandleEventKeeping(p) ==
    LET e == Head(events[p])
    IN  /\ loader[p] = "watching" /\ events[p] # <<>>
        /\ events' = [events EXCEPT ![p] = Tail(@)]
        /\ LoadRuleFile(p, e[2])
        /\ UNCHANGED <<shared, disk, loader, unread, snapshot, synced, requests, edits, drifted>>

(* on_created and on_modified load what the file holds by now, on_deleted  *)
(* removes the rule.                                                       *)
HandleEvent(p) ==
    LET e == Head(events[p])
    IN  /\ loader[p] = "watching" /\ events[p] # <<>>
        /\ events' = [events EXCEPT ![p] = Tail(@)]
        /\ IF e[1] = "changed" THEN LoadRuleFile(p, e[2])
           ELSE /\ registry' = [registry EXCEPT ![p][e[2]] = "none"]
                /\ override' = [override EXCEPT ![p] = @ \ {e[2]}]
                /\ missed' = [missed EXCEPT ![p] = IF disk[e[2]] = "absent"
                                                           THEN @ \ {e[2]} ELSE @ \cup {e[2]}]
        /\ UNCHANGED <<shared, disk, loader, unread, snapshot, synced, requests, edits, drifted>>

Enabled(rules) == [f \in Files |-> IF rules[f] = "on" THEN "on" ELSE "none"]

(* _sync_rule_snapshot, once the sensor has started.                       *)
SyncSnapshot ==
    /\ loader["sensor"] = "watching" /\ ~synced
    /\ synced' = TRUE
    /\ snapshot' = Enabled(registry["sensor"])
    /\ UNCHANGED <<shared, disk, engine, requests, edits, drifted>>

(* The sensor's process ends, with the requests it may be serving; its     *)
(* registry goes with it.                                                  *)
RestartSensor ==
    /\ synced /\ edits < MaxEdits /\ edits' = edits + 1
    /\ registry' = [registry EXCEPT !["sensor"] = Nowhere]
    /\ loader' = [loader EXCEPT !["sensor"] = "stopped"]
    /\ unread' = [unread EXCEPT !["sensor"] = {}]
    /\ events' = [events EXCEPT !["sensor"] = <<>>]
    /\ missed' = [missed EXCEPT !["sensor"] = {}]
    /\ override' = [override EXCEPT !["sensor"] = {}]
    /\ synced' = FALSE
    /\ drifted' = Files
    /\ at' = IF shared THEN [c \in Callers |-> "idle"] ELSE at
    /\ asked' = IF shared THEN [c \in Callers |-> <<>>] ELSE asked
    /\ UNCHANGED <<shared, disk, snapshot, collected, calls, toggled>>

----------------------------------------------------------------------------
(* set_rule_enabled(name, enabled) finds the rule in the snapshot, stores  *)
(* the state there, and then in the rules of its own process.              *)
Step(c, from, to) == at[c] = from /\ at' = [at EXCEPT ![c] = to]

Others(c) == {d \in Callers \ {c} : at[d] # "idle"}

Toggle(c, f, state) ==
    /\ Step(c, "idle", "found") /\ calls < MaxCalls /\ calls' = calls + 1
    /\ (shared => synced)
    /\ snapshot[f] # "none"
    /\ asked' = [asked EXCEPT ![c] = <<f, state>>]
    /\ drifted' = IF Others(c) # {} \/ events[Engine] # <<>>
                  THEN drifted \cup {f} ELSE drifted \ {f}
    /\ UNCHANGED <<shared, disk, engine, snapshot, synced, collected, edits, toggled>>

Store(c) ==
    LET f == asked[c][1]
    IN  /\ Step(c, "found", "stored")
        /\ snapshot' = [snapshot EXCEPT ![f] = IF @ = "none" THEN @ ELSE asked[c][2]]
        /\ UNCHANGED <<shared, disk, engine, synced, asked, collected, calls, edits, drifted, toggled>>

(* Mutant: the engine is not told.                                         *)
ApplyNowhere(c) ==
    /\ Step(c, "stored", "idle") /\ asked' = [asked EXCEPT ![c] = <<>>]
    /\ UNCHANGED <<shared, disk, engine, snapshot, synced, collected, calls, edits, drifted, toggled>>

ApplyToEngine(c) ==
    LET f == asked[c][1]
        p == Engine
    IN  /\ Step(c, "stored", "idle") /\ asked' = [asked EXCEPT ![c] = <<>>]
        /\ toggled' = toggled \cup {f}
        /\ IF registry[p][f] = "none" THEN UNCHANGED <<registry, override>>
           ELSE /\ registry' = [registry EXCEPT ![p][f] = asked[c][2]]
                /\ override' = [override EXCEPT ![p] = @ \cup {f}]
        /\ UNCHANGED <<shared, disk, loader, unread, events, missed, snapshot, synced,
                       collected, calls, edits, drifted>>

(* reload_rules: engine.stop joins the watcher, what it had not handled is *)
(* lost; engine.start loads and watches again; then the snapshot is        *)
(* replaced.  One reload at a time.                                        *)
StopEngine(c) ==
    LET p == Engine
    IN  /\ Step(c, "idle", "stopped") /\ calls < MaxCalls /\ calls' = calls + 1
        /\ (shared => synced)
        /\ \A d \in Callers : at[d] \notin {"stopped", "loading", "collected"}
        /\ loader' = [loader EXCEPT ![p] = "stopped"]
        /\ missed' = [missed EXCEPT ![p] = @ \cup {e[2] : e \in {events[p][i] : i \in DOMAIN events[p]}}]
        /\ events' = [events EXCEPT ![p] = <<>>]
        /\ drifted' = Files /\ toggled' = {}
        /\ UNCHANGED <<shared, disk, registry, unread, override, snapshot, synced,
                       asked, collected, edits>>

StartEngine(c) ==
    /\ Step(c, "stopped", "loading")
    /\ BeginLoad(Engine)
    /\ UNCHANGED <<shared, disk, registry, events, missed, override, snapshot, synced,
                   asked, collected, calls, edits, drifted, toggled>>

CollectRules(c) ==
    /\ Step(c, "loading", "collected")
    /\ loader[Engine] = "watching"
    /\ collected' = Enabled(registry[Engine])
    /\ UNCHANGED <<shared, disk, engine, snapshot, synced, asked, calls, edits, drifted, toggled>>

ReplaceSnapshot(c) ==
    /\ Step(c, "collected", "idle")
    /\ snapshot' = collected
    /\ UNCHANGED <<shared, disk, engine, synced, asked, collected, calls, edits, drifted, toggled>>

DirectoryNext ==
    \/ \E f \in Files, content \in Contents, renamed \in BOOLEAN : ChangeFile(f, content, renamed)
    \/ StartSensor \/ SyncSnapshot \/ RestartSensor
    \/ \E p \in Processes : LoadNext(p) \/ Watch(p) \/ HandleEvent(p)
    \/ \E c \in Callers :
         \/ \E f \in Files, state \in {"on", "off"} : Toggle(c, f, state)
         \/ Store(c) \/ ApplyToEngine(c)
         \/ StopEngine(c) \/ StartEngine(c) \/ CollectRules(c) \/ ReplaceSnapshot(c)

DirectorySpec == DirectoryInit /\ [][DirectoryNext]_directory

----------------------------------------------------------------------------
DirectoryTypeOK ==
    /\ shared \in BOOLEAN /\ synced \in BOOLEAN
    /\ disk \in [Files -> Contents]
    /\ registry \in [Processes -> [Files -> {"none", "on", "off"}]]
    /\ loader \in [Processes -> {"stopped", "loading", "watching"}]
    /\ unread \in [Processes -> SUBSET Files]
    /\ events \in [Processes -> Seq({"changed", "deleted"} \X Files)]
    /\ snapshot \in [Files -> {"none", "on", "off"}]
    /\ collected \in [Files -> {"none", "on", "off"}]
    /\ at \in [Callers -> {"idle", "found", "stored", "stopped", "loading", "collected"}]
    /\ asked \in [Callers -> {<<>>} \cup (Files \X {"on", "off"})]
    /\ missed \in [Processes -> SUBSET Files] /\ override \in [Processes -> SUBSET Files]
    /\ drifted \subseteq Files /\ toggled \subseteq Files
    /\ edits \in 0 .. MaxEdits /\ calls \in 0 .. MaxCalls

(* "These rules are hot-reloaded automatically": once the watcher has      *)
(* handled what it heard, the rules in force are those of the files it     *)
(* could hear of, apart from runtime toggles and from files that are not   *)
(* valid, in whichever order files came and went.                          *)
RegistryFollowsDisk ==
    \A p \in Processes :
      loader[p] = "watching" /\ events[p] = <<>> =>
        \A f \in Files \ (missed[p] \cup override[p]) :
          disk[f] # "broken" =>
            registry[p][f] = IF disk[f] = "absent" THEN "none" ELSE disk[f]

(* A toggle "marks the rule disabled in the running engine and the         *)
(* database snapshot": where both are in one process, once a toggle is     *)
(* through they agree, until a file changes, a reload begins or a second   *)
(* request comes between.                                                  *)
TogglesReach ==
    shared /\ synced /\ (\A c \in Callers : at[c] = "idle") =>
      \A f \in Files \ drifted :
        snapshot[f] # "none" => registry["sensor"][f] \in {snapshot[f], "none"}

(* A reload "clears any runtime enable/disable overrides, since the files  *)
(* are the source of truth": an override outlives one only if the file     *)
(* cannot be read by then, or was changed or toggled meanwhile.            *)
ReloadClears ==
    \A c \in Callers : at[c] = "collected" =>
      \A f \in override[Engine] \ (missed[Engine] \cup toggled) :
        disk[f] \notin Readable \/ events[Engine] # <<>>

(* A toggle holds from the moment it is through to the next reload, and no *)
(* longer.                                                                 *)
TogglesHold == TogglesReach /\ ReloadClears
=============================================================================
