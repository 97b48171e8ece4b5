---------------------------- MODULE DetectionProofs ----------------------------
(***************************************************************************)
(* What detection stands on: the breadth detectors, whatever the races of  *)
(* their two threads, the rules of the directory, whatever becomes of its  *)
(* files, and the series of a rule, which keep its promise of episodes.    *)
(***************************************************************************)
EXTENDS BreadthDetector, RuleEngine, SequenceTheorems, FiniteSetTheorems,
        WellFoundedInduction, TLAPS

Reloading == {c \in Callers : at[c] \in {"stopped", "loading", "collected"}}
InForce(content) == IF content = "absent" THEN "none" ELSE content
Pending(p, kind, f) == \E i \in DOMAIN events[p] : events[p][i] = <<kind, f>>

(* The reload under way, and what its stage says of the engine's loader.   *)
Stages ==
    /\ \A c, d \in Reloading : c = d
    /\ \A c \in Callers :
         /\ at[c] = "stopped" => loader[Engine] = "stopped"
         /\ at[c] = "loading" => loader[Engine] \in {"loading", "watching"}
         /\ at[c] = "collected" => loader[Engine] = "watching"
    /\ shared /\ ~synced => \A c \in Callers : at[c] = "idle"
    /\ shared /\ synced /\ Reloading = {} => loader["sensor"] = "watching"
    /\ \A p \in Processes : loader[p] # "watching" => events[p] = <<>>

(* What the registry has of file f, but for what was missed or toggled: a  *)
(* watched file's rule, or an event that will bring it; of a file that is  *)
(* not there, nothing, even before it is watched.                          *)
Known(p, f) ==
    \/ f \in missed[p] \cup override[p]
    \/ registry[p][f] = InForce(disk[f])
    \/ CASE loader[p] = "stopped" -> disk[f] # "absent"
         [] loader[p] = "loading" -> disk[f] = "broken" \/ (f \in unread[p] /\ disk[f] # "absent")
         [] loader[p] = "watching" -> \/ disk[f] = "broken"
                                      \/ disk[f] = "absent" /\ Pending(p, "deleted", f)
                                      \/ disk[f] \in Readable /\ Pending(p, "changed", f)

Follows == \A p \in Processes, f \in Files : Known(p, f)

(* A file about which the watcher has yet to hear, or a reload under way,  *)
(* has drifted; of any other a toggle under way is the only one, and what  *)
(* it has stored is what it will apply.                                    *)
AskedFor(f) == {c \in Callers : asked[c] # <<>> /\ asked[c][1] = f}

Agree(f) == snapshot[f] # "none" => registry["sensor"][f] \in {snapshot[f], "none"}

Settled(f) ==
    /\ Reloading = {}
    /\ \A c, d \in AskedFor(f) : c = d
    /\ \A c \in AskedFor(f) : at[c] = "stored" => snapshot[f] \in {"none", asked[c][2]}
    /\ AskedFor(f) = {} => Agree(f)

Heard == shared => \A i \in DOMAIN events["sensor"] : events["sensor"][i][2] \in drifted

Reach == shared /\ synced => \A f \in Files \ drifted : Settled(f)

(* While files are read again, an override stays only where its file has   *)
(* not been read yet, or cannot be.                                        *)
Cleared ==
    \A c \in Callers : at[c] \in {"loading", "collected"} =>
      \A f \in override[Engine] \ (missed[Engine] \cup toggled) :
        \/ disk[f] \notin Readable
        \/ loader[Engine] = "loading" /\ f \in unread[Engine]
        \/ Pending(Engine, "changed", f)

(* Who is in a toggle has asked for it.                                    *)
Asking ==
    \A c \in Callers : IF at[c] \in {"found", "stored"} THEN asked[c] # <<>> ELSE asked[c] = <<>>

DirectoryInv == DirectoryTypeOK /\ Stages /\ Follows /\ Heard /\ Reach /\ Cleared /\ Asking

----------------------------------------------------------------------------
(* What the conversions yield.                                             *)
LEMMA Typed ==
  /\ Nowhere \in [Files -> {"none", "on", "off"}]
  /\ Engine \in Processes
  /\ \A rules : Enabled(rules) \in [Files -> {"none", "on", "off"}]
BY DEF Nowhere, Engine, Processes, Enabled

LEMMA InitInv == DirectoryInit => DirectoryInv
<1> SUFFICES ASSUME DirectoryInit PROVE DirectoryInv
  OBVIOUS
<1> USE DEF DirectoryInit
<1>1. DirectoryTypeOK
  <2>1. events \in [Processes -> Seq({"changed", "deleted"} \X Files)]
    <3>1. <<>> \in Seq({"changed", "deleted"} \X Files)
      OBVIOUS
    <3> QED
      BY <3>1
  <2>2. edits \in 0 .. MaxEdits /\ calls \in 0 .. MaxCalls
    BY DirectoryAssumption
  <2>3. /\ unread \in [Processes -> SUBSET Files] /\ missed \in [Processes -> SUBSET Files]
        /\ override \in [Processes -> SUBSET Files]
    OBVIOUS
  <2> QED
    BY <2>1, <2>2, <2>3, Typed DEF DirectoryTypeOK, Contents
<1>2. Stages
  BY DEF Stages, Reloading, Engine, Processes
<1>3. Follows
  BY DEF Follows, Known, InForce, Nowhere, Processes
<1>4. Heard /\ Reach /\ Cleared /\ Asking
  BY DEF Heard, Reach, Cleared, Asking, Processes
<1> QED
  BY <1>1, <1>2, <1>3, <1>4 DEF DirectoryInv

(* A rule file that is loaded keeps the types of what it changes.          *)
LEMMA LoadTyped ==
  ASSUME DirectoryTypeOK, NEW p \in Processes, NEW f \in Files, LoadRuleFile(p, f)
  PROVE  /\ registry' \in [Processes -> [Files -> {"none", "on", "off"}]]
         /\ override' \in [Processes -> SUBSET Files]
         /\ missed' \in [Processes -> SUBSET Files]
<1> USE DEF DirectoryTypeOK, LoadRuleFile, Readable
<1>1. CASE disk[f] \in Readable
  <2>1. registry' = [registry EXCEPT ![p] = [registry[p] EXCEPT ![f] = disk[f]]]
    BY <1>1
  <2>2. [registry[p] EXCEPT ![f] = disk[f]] \in [Files -> {"none", "on", "off"}]
    BY <1>1
  <2>3. /\ override' = [override EXCEPT ![p] = @ \ {f}]
        /\ missed' = [missed EXCEPT ![p] = @ \ {f}]
    BY <1>1
  <2>4. override' \in [Processes -> SUBSET Files] /\ missed' \in [Processes -> SUBSET Files]
    BY <2>3
  <2> QED
    BY <2>1, <2>2, <2>4
<1> QED
  BY <1>1

LEMMA TypeStep == DirectoryInv /\ [DirectoryNext]_directory => DirectoryTypeOK'
<1> SUFFICES ASSUME DirectoryInv, [DirectoryNext]_directory PROVE DirectoryTypeOK'
  OBVIOUS
<1>t. DirectoryTypeOK /\ Asking
  BY DEF DirectoryInv
<1> USE <1>t, Typed
<1> USE DEF DirectoryTypeOK
<1>1. ASSUME NEW f \in Files, NEW content \in Contents, NEW renamed \in BOOLEAN,
             ChangeFile(f, content, renamed)
      PROVE  DirectoryTypeOK'
  <2> USE <1>1 DEF ChangeFile, requests
  <2>1. edits' \in 0 .. MaxEdits
    BY DirectoryAssumption
  <2>2. disk' \in [Files -> Contents]
    OBVIOUS
  <2>3. events' \in [Processes -> Seq({"changed", "deleted"} \X Files)]
    OBVIOUS
  <2>4. missed' \in [Processes -> SUBSET Files]
    OBVIOUS
  <2> QED
    BY <2>1, <2>2, <2>3, <2>4
<1>2. ASSUME StartSensor \/ \E p \in Processes : Watch(p)  PROVE DirectoryTypeOK'
  BY <1>2 DEF StartSensor, BeginLoad, Watch, requests, Processes
<1>3. ASSUME SyncSnapshot  PROVE DirectoryTypeOK'
  BY <1>3 DEF SyncSnapshot, engine, requests
<1>4. ASSUME RestartSensor  PROVE DirectoryTypeOK'
  <2> USE <1>4 DEF RestartSensor
  <2>1. edits' \in 0 .. MaxEdits
    BY DirectoryAssumption
  <2>2. registry' \in [Processes -> [Files -> {"none", "on", "off"}]]
    OBVIOUS
  <2>3. /\ at' \in [Callers -> {"idle", "found", "stored", "stopped", "loading", "collected"}]
        /\ asked' \in [Callers -> {<<>>} \cup (Files \X {"on", "off"})]
    OBVIOUS
  <2>4. /\ loader' \in [Processes -> {"stopped", "loading", "watching"}]
        /\ unread' \in [Processes -> SUBSET Files] /\ missed' \in [Processes -> SUBSET Files]
        /\ override' \in [Processes -> SUBSET Files]
    OBVIOUS
  <2>5. events' \in [Processes -> Seq({"changed", "deleted"} \X Files)]
    <3>1. <<>> \in Seq({"changed", "deleted"} \X Files)
      OBVIOUS
    <3> QED
      BY <3>1
  <2> QED
    BY <2>1, <2>2, <2>3, <2>4, <2>5
<1>5. ASSUME NEW p \in Processes, LoadNext(p)  PROVE DirectoryTypeOK'
  <2> USE <1>5 DEF LoadNext, requests
  <2>1. PICK f \in unread[p] : LoadRuleFile(p, f) /\ unread' = [unread EXCEPT ![p] = @ \ {f}]
    OBVIOUS
  <2>2. f \in Files
    OBVIOUS
  <2> QED
    BY <2>1, <2>2, LoadTyped
<1>6. ASSUME NEW p \in Processes, HandleEvent(p)  PROVE DirectoryTypeOK'
  <2> DEFINE e == Head(events[p])
  <2> USE <1>6 DEF HandleEvent, requests
  <2>1. /\ e \in {"changed", "deleted"} \X Files
        /\ Tail(events[p]) \in Seq({"changed", "deleted"} \X Files)
    OBVIOUS
  <2>2. PICK f \in Files : f = e[2]
    BY <2>1
  <2>3. events' \in [Processes -> Seq({"changed", "deleted"} \X Files)]
    BY <2>1
  <2>4. CASE e[1] = "changed"
    BY <2>2, <2>3, <2>4, LoadTyped
  <2>5. CASE e[1] # "changed"
    <3>1. registry' = [registry EXCEPT ![p] = [registry[p] EXCEPT ![f] = "none"]]
      BY <2>2, <2>5
    <3>2. registry' \in [Processes -> [Files -> {"none", "on", "off"}]]
      BY <3>1
    <3>3. /\ override' = [override EXCEPT ![p] = @ \ {f}]
          /\ missed' = [missed EXCEPT ![p] = IF disk[f] = "absent" THEN @ \ {f} ELSE @ \cup {f}]
      BY <2>2, <2>5
    <3>4. override' \in [Processes -> SUBSET Files] /\ missed' \in [Processes -> SUBSET Files]
      BY <3>3
    <3> QED
      BY <2>3, <2>5, <3>2, <3>4
  <2> QED
    BY <2>4, <2>5
<1>7. ASSUME NEW c \in Callers, NEW f \in Files, NEW state \in {"on", "off"}, Toggle(c, f, state)
      PROVE  DirectoryTypeOK'
  <2> USE <1>7 DEF Toggle, Step, engine
  <2>1. calls' \in 0 .. MaxCalls
    BY DirectoryAssumption
  <2>2. drifted' \subseteq Files
    OBVIOUS
  <2> QED
    BY <2>1, <2>2
<1>8. ASSUME NEW c \in Callers, Store(c)  PROVE DirectoryTypeOK'
  <2> USE <1>8 DEF Store, Step, engine
  <2>1. asked[c] \in Files \X {"on", "off"}
    BY DEF Asking
  <2> QED
    BY <2>1
<1>9. ASSUME NEW c \in Callers, ApplyToEngine(c)  PROVE DirectoryTypeOK'
  <2> USE <1>9 DEF ApplyToEngine, Step
  <2>1. asked[c] \in Files \X {"on", "off"}
    BY DEF Asking
  <2>2. PICK f \in Files, state \in {"on", "off"}, p \in Processes :
          asked[c] = <<f, state>> /\ p = Engine
    BY <2>1
  <2>3. /\ registry' \in [Processes -> [Files -> {"none", "on", "off"}]]
        /\ override' \in [Processes -> SUBSET Files]
    <3>1. CASE registry[p][f] = "none"
      BY <2>2, <3>1
    <3>2. CASE registry[p][f] # "none"
      <4>1. registry' = [registry EXCEPT ![p] = [registry[p] EXCEPT ![f] = state]]
        BY <2>2, <3>2
      <4>2. override' = [override EXCEPT ![p] = @ \cup {f}]
        BY <2>2, <3>2
      <4> QED
        BY <4>1, <4>2
    <3> QED
      BY <3>1, <3>2
  <2>4. toggled' \subseteq Files
    BY <2>2
  <2>5. /\ at' \in [Callers -> {"idle", "found", "stored", "stopped", "loading", "collected"}]
        /\ asked' \in [Callers -> {<<>>} \cup (Files \X {"on", "off"})]
    OBVIOUS
  <2> QED
    BY <2>3, <2>4, <2>5
<1>10. ASSUME NEW c \in Callers, StopEngine(c)  PROVE DirectoryTypeOK'
  <2> USE <1>10 DEF StopEngine, Step
  <2>1. calls' \in 0 .. MaxCalls
    BY DirectoryAssumption
  <2>2. PICK p \in Processes : p = Engine
    OBVIOUS
  <2>3. \A i \in DOMAIN events[p] : events[p][i][2] \in Files
    OBVIOUS
  <2>4. missed' \in [Processes -> SUBSET Files]
    BY <2>2, <2>3
  <2>5. events' \in [Processes -> Seq({"changed", "deleted"} \X Files)]
    OBVIOUS
  <2> QED
    BY <2>1, <2>4, <2>5
<1>11. ASSUME NEW c \in Callers, StartEngine(c) \/ CollectRules(c) \/ ReplaceSnapshot(c)
       PROVE  DirectoryTypeOK'
  <2>1. CASE StartEngine(c)
    BY <2>1 DEF StartEngine, Step, BeginLoad
  <2>2. CASE CollectRules(c)
    BY <2>2 DEF CollectRules, Step, engine
  <2>3. CASE ReplaceSnapshot(c)
    BY <2>3 DEF ReplaceSnapshot, Step, engine
  <2> QED
    BY <1>11, <2>1, <2>2, <2>3
<1>12. CASE UNCHANGED directory
  BY <1>12 DEF directory, engine, requests
<1> HIDE <1>t DEF DirectoryTypeOK
<1> QED
  BY <1>1, <1>2, <1>3, <1>4, <1>5, <1>6, <1>7, <1>8, <1>9, <1>10, <1>11, <1>12 DEF DirectoryNext

----------------------------------------------------------------------------
(* A step that touches no caller and no process leaves the stages alone.   *)
LEMMA StagesKept ==
  Stages /\ UNCHANGED <<shared, synced, at, loader, events>> => Stages'
BY DEF Stages, Reloading, Engine

LEMMA StagesStep == DirectoryInv /\ [DirectoryNext]_directory => Stages'
<1> SUFFICES ASSUME DirectoryInv, [DirectoryNext]_directory PROVE Stages'
  OBVIOUS
<1>t. DirectoryTypeOK /\ Stages
  BY DEF DirectoryInv
<1>u. /\ loader \in [Processes -> {"stopped", "loading", "watching"}]
      /\ events \in [Processes -> Seq({"changed", "deleted"} \X Files)]
      /\ at \in [Callers -> {"idle", "found", "stored", "stopped", "loading", "collected"}]
      /\ shared \in BOOLEAN /\ synced \in BOOLEAN
  BY <1>t DEF DirectoryTypeOK
<1> USE <1>t, <1>u
<1> USE DEF Stages, Reloading, Engine, Processes
<1>1. ASSUME NEW f \in Files, NEW content \in Contents, NEW renamed \in BOOLEAN,
             ChangeFile(f, content, renamed)
      PROVE  Stages'
  BY <1>1 DEF ChangeFile, requests
<1>2. ASSUME StartSensor  PROVE Stages'
  BY <1>2 DEF StartSensor, BeginLoad, requests
<1>3. ASSUME SyncSnapshot  PROVE Stages'
  BY <1>3 DEF SyncSnapshot, engine, requests
<1>4. ASSUME RestartSensor  PROVE Stages'
  BY <1>4 DEF RestartSensor
<1>5. ASSUME NEW p \in Processes, LoadNext(p)  PROVE Stages'
  BY <1>5, StagesKept DEF LoadNext, requests
<1>6. ASSUME NEW p \in Processes, Watch(p)  PROVE Stages'
  BY <1>6 DEF Watch, requests
<1>7. ASSUME NEW p \in Processes, HandleEvent(p)  PROVE Stages'
  BY <1>7 DEF HandleEvent, requests
<1>8. ASSUME NEW c \in Callers, NEW f \in Files, NEW state \in {"on", "off"}, Toggle(c, f, state)
      PROVE  Stages'
  BY <1>8 DEF Toggle, Step, engine
<1>9. ASSUME NEW c \in Callers, Store(c)  PROVE Stages'
  BY <1>9 DEF Store, Step, engine
<1>10. ASSUME NEW c \in Callers, ApplyToEngine(c)  PROVE Stages'
  BY <1>10 DEF ApplyToEngine, Step
<1>11. ASSUME NEW c \in Callers, StopEngine(c)  PROVE Stages'
  BY <1>11 DEF StopEngine, Step
<1>12. ASSUME NEW c \in Callers, StartEngine(c)  PROVE Stages'
  BY <1>12 DEF StartEngine, Step, BeginLoad
<1>13. ASSUME NEW c \in Callers, CollectRules(c)  PROVE Stages'
  BY <1>13 DEF CollectRules, Step, engine
<1>14. ASSUME NEW c \in Callers, ReplaceSnapshot(c)  PROVE Stages'
  BY <1>14 DEF ReplaceSnapshot, Step, engine
<1>15. CASE UNCHANGED directory
  BY <1>15, StagesKept DEF directory, engine, requests
<1> QED
  BY <1>1, <1>2, <1>3, <1>4, <1>5, <1>6, <1>7, <1>8, <1>9, <1>10, <1>11, <1>12, <1>13, <1>14,
     <1>15 DEF DirectoryNext

LEMMA AskingStep == DirectoryInv /\ [DirectoryNext]_directory => Asking'
<1> SUFFICES ASSUME DirectoryInv, [DirectoryNext]_directory PROVE Asking'
  OBVIOUS
<1>t. DirectoryTypeOK /\ Stages /\ Asking
  BY DEF DirectoryInv
<1>u. /\ at \in [Callers -> {"idle", "found", "stored", "stopped", "loading", "collected"}]
      /\ asked \in [Callers -> {<<>>} \cup (Files \X {"on", "off"})]
      /\ Asking
  BY <1>t DEF DirectoryTypeOK
<1> USE <1>u
<1>1. CASE UNCHANGED <<at, asked>>
  BY <1>1 DEF Asking
<1>2. ASSUME RestartSensor  PROVE Asking'
  BY <1>2 DEF RestartSensor, Asking
<1>3. ASSUME NEW c \in Callers, NEW f \in Files, NEW state \in {"on", "off"}, Toggle(c, f, state)
      PROVE  Asking'
  BY <1>3 DEF Toggle, Step, Asking
<1>4. ASSUME NEW c \in Callers, Store(c)  PROVE Asking'
  BY <1>4 DEF Store, Step, Asking
<1>5. ASSUME NEW c \in Callers, ApplyToEngine(c)  PROVE Asking'
  BY <1>5 DEF ApplyToEngine, Step, Asking
<1>6. ASSUME NEW c \in Callers, StopEngine(c)  PROVE Asking'
  BY <1>6 DEF StopEngine, Step, Asking
<1>7. ASSUME NEW c \in Callers, StartEngine(c) \/ CollectRules(c) \/ ReplaceSnapshot(c)
      PROVE  Asking'
  BY <1>7 DEF StartEngine, CollectRules, ReplaceSnapshot, Step, Asking
<1>8. ASSUME NEW f \in Files, NEW content \in Contents, NEW renamed \in BOOLEAN,
             ChangeFile(f, content, renamed)
      PROVE  Asking'
  BY <1>1, <1>8 DEF ChangeFile, requests
<1>9. ASSUME \/ StartSensor \/ SyncSnapshot
             \/ \E p \in Processes : LoadNext(p) \/ Watch(p) \/ HandleEvent(p)
      PROVE  Asking'
  BY <1>1, <1>9 DEF StartSensor, SyncSnapshot, LoadNext, Watch, HandleEvent, requests
<1>10. CASE UNCHANGED directory
  BY <1>1, <1>10 DEF directory, requests
<1> QED
  BY <1>2, <1>3, <1>4, <1>5, <1>6, <1>7, <1>8, <1>9, <1>10 DEF DirectoryNext

----------------------------------------------------------------------------
(* What a file's rule was known from stays, where nothing of it changes.   *)
LEMMA KnownKept ==
  ASSUME NEW p \in Processes, NEW f \in Files, Known(p, f),
         disk'[f] = disk[f], registry'[p][f] = registry[p][f],
         loader'[p] = loader[p], events'[p] = events[p],
         f \in missed[p] => f \in missed'[p], f \in override[p] => f \in override'[p],
         f \in unread[p] => f \in unread'[p],
         loader[p] \in {"stopped", "loading", "watching"}
  PROVE  Known(p, f)'
BY DEF Known, InForce, Pending

(* An event sent is pending, and so is what was before it.                 *)
LEMMA Sent ==
  ASSUME NEW p \in Processes, NEW kind \in {"changed", "deleted"}, NEW g \in Files,
         events[p] \in Seq({"changed", "deleted"} \X Files),
         events'[p] = Append(events[p], <<kind, g>>)
  PROVE  /\ Pending(p, kind, g)'
         /\ \A k, f : Pending(p, k, f) => Pending(p, k, f)'
<1>1. PICK s \in Seq({"changed", "deleted"} \X Files) : s = events[p]
  OBVIOUS
<1>2. PICK t : t = events'[p]
  OBVIOUS
<1>3. t = Append(s, <<kind, g>>)
  BY <1>1, <1>2
<1>4. /\ DOMAIN s = 1 .. Len(s) /\ DOMAIN t = 1 .. Len(s) + 1 /\ Len(s) \in Nat
      /\ t[Len(s) + 1] = <<kind, g>>
      /\ \A i \in 1 .. Len(s) : t[i] = s[i]
  BY <1>3
<1>5. Len(s) + 1 \in DOMAIN t /\ \A i \in DOMAIN s : i \in DOMAIN t
  BY <1>4
<1> QED
  BY <1>1, <1>2, <1>4, <1>5 DEF Pending

(* Whichever event is handled, the others stay pending.                    *)
LEMMA Handled ==
  ASSUME NEW p \in Processes, events[p] \in Seq({"changed", "deleted"} \X Files),
         events[p] # <<>>, events'[p] = Tail(events[p])
  PROVE  \A k, f : Pending(p, k, f) => Pending(p, k, f)' \/ Head(events[p]) = <<k, f>>
<1>1. PICK s \in Seq({"changed", "deleted"} \X Files) : s = events[p]
  OBVIOUS
<1>2. PICK t : t = events'[p]
  OBVIOUS
<1>3. t = Tail(s) /\ s # <<>>
  BY <1>1, <1>2
<1>4. /\ DOMAIN s = 1 .. Len(s) /\ DOMAIN t = 1 .. Len(s) - 1 /\ Len(s) \in Nat
      /\ Head(s) = s[1]
      /\ \A i \in 1 .. Len(s) - 1 : t[i] = s[i + 1]
  BY <1>3
<1> SUFFICES ASSUME NEW k, NEW f, NEW i \in DOMAIN s, s[i] = <<k, f>>, Head(s) # <<k, f>>
             PROVE  \E j \in DOMAIN t : t[j] = <<k, f>>
  BY <1>1, <1>2 DEF Pending
<1>5. i \in 1 .. Len(s) /\ i # 1
  BY <1>4
<1>6. i - 1 \in DOMAIN t /\ (i - 1) + 1 = i /\ i - 1 \in 1 .. Len(s) - 1
  BY <1>4, <1>5
<1>7. t[i - 1] = s[i]
  BY <1>4, <1>6
<1> QED
  BY <1>6, <1>7

(* A load begun lists every file that is there.                            *)
LEMMA Begun ==
  ASSUME DirectoryTypeOK, NEW p \in Processes, NEW f \in Files, Known(p, f),
         loader[p] = "stopped", BeginLoad(p), UNCHANGED <<disk, registry, missed, override>>
  PROVE  Known(p, f)'
<1>1. loader'[p] = "loading" /\ (disk[f] # "absent" => f \in unread'[p])
  BY DEF BeginLoad, DirectoryTypeOK
<1> QED
  BY <1>1 DEF Known, InForce

LEMMA FollowsStep == DirectoryInv /\ [DirectoryNext]_directory => Follows'
<1> SUFFICES ASSUME DirectoryInv, [DirectoryNext]_directory,
                    NEW p \in Processes, NEW f \in Files
             PROVE  Known(p, f)'
  BY DEF Follows
<1>t. DirectoryTypeOK /\ Stages /\ Known(p, f)
  BY DEF DirectoryInv, Follows
<1>u. /\ loader \in [Processes -> {"stopped", "loading", "watching"}]
      /\ events \in [Processes -> Seq({"changed", "deleted"} \X Files)]
      /\ disk \in [Files -> Contents]
      /\ registry \in [Processes -> [Files -> {"none", "on", "off"}]]
      /\ unread \in [Processes -> SUBSET Files]
      /\ missed \in [Processes -> SUBSET Files] /\ override \in [Processes -> SUBSET Files]
  BY <1>t DEF DirectoryTypeOK
<1>v. loader[p] \in {"stopped", "loading", "watching"}
  BY <1>u
<1> USE <1>t
<1>1. ASSUME NEW g \in Files, NEW content \in Contents, NEW renamed \in BOOLEAN,
             ChangeFile(g, content, renamed)
      PROVE  Known(p, f)'
  <2> DEFINE hears == loader[p] = "watching" /\ ~renamed
             kind == IF content = "absent" THEN "deleted" ELSE "changed"
  <2>1. /\ disk' = [disk EXCEPT ![g] = content]
        /\ events'[p] = IF hears THEN Append(events[p], <<kind, g>>) ELSE events[p]
        /\ missed'[p] = IF hears THEN missed[p] ELSE missed[p] \cup {g}
        /\ UNCHANGED <<registry, loader, unread, override>>
    BY <1>1 DEF ChangeFile
  <2>2. CASE f # g /\ ~hears
    BY <1>u, <1>v, <2>1, <2>2, KnownKept
  <2>3. CASE f = g /\ ~hears
    BY <2>1, <2>3 DEF Known
  <2>4. CASE hears
    <3>1. /\ Pending(p, kind, g)'
          /\ \A k, h : Pending(p, k, h) => Pending(p, k, h)'
      <4>1. /\ kind \in {"changed", "deleted"}
            /\ events[p] \in Seq({"changed", "deleted"} \X Files)
            /\ events'[p] = Append(events[p], <<kind, g>>)
        BY <1>u, <2>1, <2>4
      <4> HIDE DEF kind
      <4> QED
        BY <4>1, Sent
    <3>2. loader'[p] = "watching" /\ loader[p] = "watching" /\ missed'[p] = missed[p]
      BY <2>1, <2>4
    <3>3. CASE f = g
      <4>1. disk'[f] = content
        BY <1>u, <2>1, <3>3
      <4> QED
        BY <1>1, <3>1, <3>2, <3>3, <4>1 DEF Known, Contents, Readable
    <3>4. CASE f # g
      <4>1. disk'[f] = disk[f]
        BY <1>u, <2>1, <3>4
      <4> QED
        BY <2>1, <3>1, <3>2, <4>1 DEF Known, InForce
    <3> QED
      BY <3>3, <3>4
  <2> QED
    BY <2>2, <2>3, <2>4
<1>2. ASSUME StartSensor  PROVE Known(p, f)'
  <2>1. CASE p = "sensor"
    BY <1>2, <2>1, Begun DEF StartSensor
  <2>2. CASE p # "sensor"
    BY <1>2, <1>u, <1>v, <2>2, KnownKept DEF StartSensor, BeginLoad
  <2> QED
    BY <2>1, <2>2
<1>3. CASE UNCHANGED <<disk, engine>>
  BY <1>3, <1>v, KnownKept DEF engine
<1>4. ASSUME RestartSensor  PROVE Known(p, f)'
  <2>1. CASE p = "sensor"
    BY <1>4, <1>u, <2>1 DEF RestartSensor, Known, InForce, Nowhere
  <2>2. CASE p # "sensor"
    BY <1>4, <1>u, <1>v, <2>2, KnownKept DEF RestartSensor
  <2> QED
    BY <2>1, <2>2
<1>5. ASSUME NEW q \in Processes, LoadNext(q)  PROVE Known(p, f)'
  <2>1. PICK g \in unread[q] : LoadRuleFile(q, g) /\ unread' = [unread EXCEPT ![q] = @ \ {g}]
    BY <1>5 DEF LoadNext
  <2>2. g \in Files /\ loader[q] = "loading" /\ UNCHANGED <<disk, loader, events>>
    BY <1>5, <1>u DEF LoadNext
  <2>3. CASE p # q \/ f # g
    <3>1. /\ registry'[p][f] = registry[p][f]
          /\ f \in missed[p] => f \in missed'[p]
          /\ f \in override[p] => f \in override'[p]
      BY <1>u, <2>1, <2>2, <2>3 DEF LoadRuleFile
    <3>2. f \in unread[p] => f \in unread'[p]
      BY <1>u, <2>1, <2>3
    <3> QED
      BY <1>v, <2>2, <3>1, <3>2, KnownKept
  <2>4. CASE p = q /\ f = g /\ disk[f] \in Readable
    <3>1. registry'[p][f] = disk[f]
      BY <1>u, <2>1, <2>2, <2>4 DEF LoadRuleFile
    <3> QED
      BY <2>2, <2>4, <3>1 DEF Known, InForce, Readable
  <2>5. CASE p = q /\ f = g /\ disk[f] \notin Readable
    <3>1. UNCHANGED <<registry, override, missed>>
      BY <2>1, <2>5 DEF LoadRuleFile
    <3>2. disk[f] \in {"absent", "broken"}
      BY <1>u, <2>5 DEF Contents, Readable
    <3> QED
      BY <2>2, <2>5, <3>1, <3>2 DEF Known, InForce
  <2> QED
    BY <2>3, <2>4, <2>5
<1>6. ASSUME NEW q \in Processes, Watch(q)  PROVE Known(p, f)'
  <2>1. CASE p = q
    BY <1>6, <1>u, <2>1 DEF Watch, Known, InForce
  <2>2. CASE p # q
    BY <1>6, <1>u, <1>v, <2>2, KnownKept DEF Watch
  <2> QED
    BY <2>1, <2>2
<1>7. ASSUME NEW q \in Processes, HandleEvent(q)  PROVE Known(p, f)'
  <2>1. /\ loader[q] = "watching" /\ events[q] # <<>>
        /\ events' = [events EXCEPT ![q] = Tail(@)]
        /\ UNCHANGED <<disk, loader, unread>>
    BY <1>7 DEF HandleEvent
  <2>2. events[q] \in Seq({"changed", "deleted"} \X Files) /\ events'[q] = Tail(events[q])
    BY <1>u, <2>1
  <2>3. PICK kind \in {"changed", "deleted"}, g \in Files : Head(events[q]) = <<kind, g>>
    BY <2>1, <2>2
  <2>4. \A k, h : Pending(q, k, h) => Pending(q, k, h)' \/ (kind = k /\ g = h)
    BY <2>1, <2>2, <2>3, Handled
  <2>5. IF kind = "changed" THEN LoadRuleFile(q, g)
        ELSE /\ registry' = [registry EXCEPT ![q][g] = "none"]
             /\ override' = [override EXCEPT ![q] = @ \ {g}]
             /\ missed' = [missed EXCEPT ![q] = IF disk[g] = "absent" THEN @ \ {g} ELSE @ \cup {g}]
    BY <1>7, <2>3 DEF HandleEvent
  <2>6. CASE p # q \/ f # g
    <3>1. /\ registry'[p][f] = registry[p][f]
          /\ f \in missed[p] => f \in missed'[p]
          /\ f \in override[p] => f \in override'[p]
      BY <1>u, <2>5, <2>6 DEF LoadRuleFile
    <3>2. CASE p # q
      <4>1. events'[p] = events[p]
        BY <1>u, <2>1, <3>2
      <4> QED
        BY <1>v, <2>1, <3>1, <4>1, KnownKept
    <3>3. CASE p = q /\ f # g
      BY <2>1, <2>4, <3>1, <3>3 DEF Known
    <3> QED
      BY <2>6, <3>2, <3>3
  <2>7. CASE p = q /\ f = g /\ kind = "deleted"
    <3>1. CASE disk[f] = "absent"
      <4>1. registry'[p][f] = "none"
        BY <1>u, <2>5, <2>7
      <4> QED
        BY <2>1, <3>1, <4>1 DEF Known, InForce
    <3>2. CASE disk[f] # "absent"
      <4>1. missed' = [missed EXCEPT ![p] = @ \cup {f}]
        BY <2>5, <2>7, <3>2
      <4>2. f \in missed'[p]
        BY <1>u, <4>1
      <4> QED
        BY <4>2 DEF Known
    <3> QED
      BY <3>1, <3>2
  <2>8. CASE p = q /\ f = g /\ kind = "changed" /\ disk[f] \in Readable
    <3>1. registry'[p][f] = disk[f]
      BY <1>u, <2>5, <2>8 DEF LoadRuleFile
    <3> QED
      BY <2>1, <2>8, <3>1 DEF Known, InForce, Readable
  <2>9. CASE p = q /\ f = g /\ kind = "changed" /\ disk[f] \notin Readable
    <3>1. UNCHANGED <<registry, override, missed>>
      BY <2>5, <2>9 DEF LoadRuleFile
    <3> QED
      BY <2>1, <2>4, <2>9, <3>1 DEF Known
  <2> QED
    BY <2>6, <2>7, <2>8, <2>9
<1>8. ASSUME NEW c \in Callers, ApplyToEngine(c)  PROVE Known(p, f)'
  <2> DEFINE g == asked[c][1]
             q == Engine
  <2>1. /\ \/ UNCHANGED <<registry, override>>
           \/ /\ registry' = [registry EXCEPT ![q][g] = asked[c][2]]
              /\ override' = [override EXCEPT ![q] = @ \cup {g}]
        /\ UNCHANGED <<disk, loader, unread, events, missed>>
    BY <1>8 DEF ApplyToEngine
  <2>2. CASE p # q \/ f # g \/ UNCHANGED <<registry, override>>
    <3>1. registry'[p][f] = registry[p][f] /\ (f \in override[p] => f \in override'[p])
      BY <1>u, <2>1, <2>2
    <3> QED
      BY <1>v, <2>1, <3>1, KnownKept
  <2>3. CASE p = q /\ f = g /\ ~UNCHANGED <<registry, override>>
    <3>1. f \in override'[p]
      BY <1>u, <2>1, <2>3
    <3> QED
      BY <3>1 DEF Known
  <2> QED
    BY <2>2, <2>3
<1>9. ASSUME NEW c \in Callers, StopEngine(c)  PROVE Known(p, f)'
  <2>1. CASE p # Engine
    BY <1>9, <1>u, <1>v, <2>1, KnownKept DEF StopEngine
  <2>2. CASE p = Engine
    <3>1. /\ loader'[p] = "stopped" /\ UNCHANGED <<disk, registry, override>>
          /\ missed'[p] = missed[p] \cup {e[2] : e \in {events[p][i] : i \in DOMAIN events[p]}}
      BY <1>9, <1>u, <2>2 DEF StopEngine
    <3>2. Pending(p, "deleted", f) => f \in missed'[p]
      BY <3>1 DEF Pending
    <3> QED
      BY <1>v, <3>1, <3>2 DEF Known, InForce, Readable
  <2> QED
    BY <2>1, <2>2
<1>10. ASSUME NEW c \in Callers, StartEngine(c)  PROVE Known(p, f)'
  <2>1. CASE p = Engine
    <3>1. loader[p] = "stopped"
      BY <1>10, <2>1 DEF StartEngine, Step, Stages
    <3> QED
      BY <1>10, <2>1, <3>1, Begun DEF StartEngine
  <2>2. CASE p # Engine
    BY <1>10, <1>u, <1>v, <2>2, KnownKept DEF StartEngine, BeginLoad
  <2> QED
    BY <2>1, <2>2
<1> QED
  BY <1>1, <1>2, <1>3, <1>4, <1>5, <1>6, <1>7, <1>8, <1>9, <1>10
     DEF DirectoryNext, directory, SyncSnapshot, Toggle, Store, CollectRules, ReplaceSnapshot

----------------------------------------------------------------------------
(* Every action leaves alone which process the API's engine is in.         *)
LEMMA EngineKept == [DirectoryNext]_directory => shared' = shared /\ Engine' = Engine
<1> SUFFICES ASSUME [DirectoryNext]_directory PROVE shared' = shared
  BY DEF Engine
<1>1. ASSUME NEW f \in Files, NEW content \in Contents, NEW renamed \in BOOLEAN,
             ChangeFile(f, content, renamed)
      PROVE  shared' = shared
  BY <1>1 DEF ChangeFile
<1>2. ASSUME StartSensor \/ SyncSnapshot \/ RestartSensor  PROVE shared' = shared
  BY <1>2 DEF StartSensor, SyncSnapshot, RestartSensor
<1>3. ASSUME NEW p \in Processes, LoadNext(p) \/ Watch(p) \/ HandleEvent(p)
      PROVE  shared' = shared
  BY <1>3 DEF LoadNext, Watch, HandleEvent
<1>4. ASSUME NEW c \in Callers,
             \/ \E f \in Files, state \in {"on", "off"} : Toggle(c, f, state)
             \/ Store(c) \/ ApplyToEngine(c)
             \/ StopEngine(c) \/ StartEngine(c) \/ CollectRules(c) \/ ReplaceSnapshot(c)
      PROVE  shared' = shared
  BY <1>4 DEF Toggle, Store, ApplyToEngine, StopEngine, StartEngine, CollectRules, ReplaceSnapshot
<1> QED
  BY <1>1, <1>2, <1>3, <1>4 DEF DirectoryNext, directory

LEMMA HeardStep == DirectoryInv /\ [DirectoryNext]_directory => Heard'
<1> SUFFICES ASSUME DirectoryInv, [DirectoryNext]_directory, shared
             PROVE  \A i \in DOMAIN events'["sensor"] : events'["sensor"][i][2] \in drifted'
  BY EngineKept DEF Heard
<1>h. \A i \in DOMAIN events["sensor"] : events["sensor"][i][2] \in drifted
  BY DEF DirectoryInv, Heard
<1>u. /\ events \in [Processes -> Seq({"changed", "deleted"} \X Files)]
      /\ "sensor" \in Processes
      /\ events["sensor"] \in Seq({"changed", "deleted"} \X Files)
  BY DEF DirectoryInv, DirectoryTypeOK, Processes
<1>1. CASE UNCHANGED events["sensor"] /\ drifted \subseteq drifted'
  BY <1>h, <1>1
<1>2. ASSUME NEW f \in Files, NEW content \in Contents, NEW renamed \in BOOLEAN,
             ChangeFile(f, content, renamed)
      PROVE  \A i \in DOMAIN events'["sensor"] : events'["sensor"][i][2] \in drifted'
  <2> DEFINE event == <<IF content = "absent" THEN "deleted" ELSE "changed", f>>
  <2>1. drifted' = drifted \cup {f} /\ event[2] = f
    BY <1>2 DEF ChangeFile
  <2>2. PICK s \in Seq({"changed", "deleted"} \X Files) : s = events["sensor"]
    BY <1>u
  <2>3. events'["sensor"] = Append(s, event) \/ events'["sensor"] = s
    BY <1>2, <1>u, <2>2 DEF ChangeFile
  <2>4. event \in {"changed", "deleted"} \X Files
    OBVIOUS
  <2> HIDE DEF event
  <2>5. CASE events'["sensor"] = Append(s, event)
    <3>1. PICK t : t = events'["sensor"] /\ t = Append(s, event)
      BY <2>5
    <3>2. /\ DOMAIN t = 1 .. Len(s) + 1 /\ DOMAIN s = 1 .. Len(s) /\ Len(s) \in Nat
          /\ t[Len(s) + 1] = event /\ \A i \in 1 .. Len(s) : t[i] = s[i]
      BY <2>4, <3>1
    <3>3. ASSUME NEW i \in DOMAIN t  PROVE t[i][2] \in drifted'
      <4>1. i \in DOMAIN s \/ i = Len(s) + 1
        BY <3>2
      <4> QED
        BY <1>h, <2>1, <2>2, <3>2, <4>1
    <3> QED
      BY <3>1, <3>3
  <2>6. CASE events'["sensor"] = s
    BY <1>h, <2>1, <2>2, <2>6
  <2> QED
    BY <2>3, <2>5, <2>6
<1>3. ASSUME NEW p \in Processes, HandleEvent(p)
      PROVE  \A i \in DOMAIN events'["sensor"] : events'["sensor"][i][2] \in drifted'
  <2>1. \/ events["sensor"] # <<>> /\ events'["sensor"] = Tail(events["sensor"])
        \/ UNCHANGED events["sensor"]
    BY <1>3, <1>u DEF HandleEvent
  <2>2. drifted' = drifted
    BY <1>3 DEF HandleEvent
  <2>3. CASE events["sensor"] # <<>> /\ events'["sensor"] = Tail(events["sensor"])
    <3>0. PICK s \in Seq({"changed", "deleted"} \X Files) : s = events["sensor"]
      BY <1>u
    <3>1. PICK t : t = events'["sensor"]
      OBVIOUS
    <3>2. /\ DOMAIN t = 1 .. Len(s) - 1 /\ DOMAIN s = 1 .. Len(s) /\ Len(s) \in Nat
          /\ \A i \in 1 .. Len(s) - 1 : t[i] = s[i + 1]
      BY <2>3, <3>0, <3>1
    <3>3. ASSUME NEW i \in DOMAIN t  PROVE t[i][2] \in drifted'
      <4>1. i + 1 \in DOMAIN s /\ t[i] = s[i + 1]
        BY <3>2
      <4> QED
        BY <1>h, <2>2, <3>0, <4>1
    <3> QED
      BY <3>1, <3>3
  <2> QED
    BY <1>1, <2>1, <2>2, <2>3
<1>4. ASSUME RestartSensor
      PROVE  \A i \in DOMAIN events'["sensor"] : events'["sensor"][i][2] \in drifted'
  BY <1>4, <1>u DEF RestartSensor
<1>5. ASSUME NEW c \in Callers, NEW f \in Files, NEW state \in {"on", "off"}, Toggle(c, f, state)
      PROVE  \A i \in DOMAIN events'["sensor"] : events'["sensor"][i][2] \in drifted'
  <2>1. events' = events /\ (events["sensor"] # <<>> => drifted' = drifted \cup {f})
    BY <1>5 DEF Toggle, engine, Engine
  <2> QED
    BY <1>h, <2>1
<1>6. ASSUME NEW c \in Callers, StopEngine(c)
      PROVE  \A i \in DOMAIN events'["sensor"] : events'["sensor"][i][2] \in drifted'
  BY <1>6, <1>u DEF StopEngine, Engine
<1> QED
  BY <1>1, <1>2, <1>3, <1>4, <1>5, <1>6
     DEF DirectoryNext, directory, engine, StartSensor, SyncSnapshot, LoadNext, Watch, Store,
         ApplyToEngine, StartEngine, CollectRules, ReplaceSnapshot

(* A file's toggle stays settled where nothing of it changes.              *)
LEMMA SettledKept ==
  ASSUME NEW f \in Files, Settled(f), Reloading' = {}, AskedFor(f)' = AskedFor(f),
         \A c \in AskedFor(f) : at'[c] = at[c] /\ asked'[c] = asked[c],
         snapshot'[f] = snapshot[f], registry'["sensor"][f] = registry["sensor"][f]
  PROVE  Settled(f)'
BY DEF Settled, Agree

LEMMA ReachStep == DirectoryInv /\ [DirectoryNext]_directory => Reach'
<1> SUFFICES ASSUME DirectoryInv, [DirectoryNext]_directory, shared, synced',
                    NEW f \in Files, f \notin drifted'
             PROVE  Settled(f)'
  BY EngineKept DEF Reach
<1>t. DirectoryTypeOK /\ Stages /\ Asking /\ Heard /\ (synced /\ f \notin drifted => Settled(f))
  BY DEF DirectoryInv, Reach
<1>u. /\ at \in [Callers -> {"idle", "found", "stored", "stopped", "loading", "collected"}]
      /\ asked \in [Callers -> {<<>>} \cup (Files \X {"on", "off"})]
      /\ snapshot \in [Files -> {"none", "on", "off"}]
      /\ registry \in [Processes -> [Files -> {"none", "on", "off"}]]
      /\ synced \in BOOLEAN /\ Engine = "sensor" /\ "sensor" \in Processes
  BY <1>t DEF DirectoryTypeOK, Engine, Processes
<1>k. CASE /\ synced /\ f \notin drifted
           /\ UNCHANGED <<at, asked, snapshot[f], registry["sensor"][f]>>
  <2>1. Settled(f) /\ AskedFor(f)' = AskedFor(f) /\ Reloading' = Reloading
    BY <1>t, <1>k DEF AskedFor, Reloading
  <2> QED
    BY <1>k, <2>1, SettledKept DEF Settled
<1>1. ASSUME NEW g \in Files, NEW content \in Contents, NEW renamed \in BOOLEAN,
             ChangeFile(g, content, renamed)
      PROVE  Settled(f)'
  BY <1>1, <1>k DEF ChangeFile, requests
<1>2. ASSUME StartSensor \/ RestartSensor  PROVE Settled(f)'
  BY <1>2 DEF StartSensor, RestartSensor
<1>3. ASSUME SyncSnapshot  PROVE Settled(f)'
  <2>1. /\ ~synced /\ snapshot' = Enabled(registry["sensor"])
        /\ UNCHANGED <<registry, at, asked>>
    BY <1>3 DEF SyncSnapshot, engine, requests
  <2>2. \A c \in Callers : at[c] = "idle" /\ asked[c] = <<>>
    BY <1>t, <2>1 DEF Stages, Asking
  <2>3. Reloading' = {} /\ AskedFor(f)' = {}
    BY <2>1, <2>2 DEF Reloading, AskedFor
  <2>4. Agree(f)'
    BY <2>1 DEF Agree, Enabled
  <2> QED
    BY <2>3, <2>4 DEF Settled
<1>4. ASSUME NEW p \in Processes, LoadNext(p)  PROVE Settled(f)'
  <2>1. loader[p] = "loading" /\ UNCHANGED <<at, asked, snapshot, synced, drifted>>
    BY <1>4 DEF LoadNext, requests
  <2>2. Settled(f)
    BY <1>t, <2>1
  <2>3. p # "sensor"
    BY <1>t, <1>u, <2>1, <2>2 DEF Stages, Settled
  <2>4. registry'["sensor"] = registry["sensor"]
    BY <1>4, <1>u, <2>3 DEF LoadNext, LoadRuleFile
  <2> QED
    BY <1>k, <2>1, <2>4
<1>5. ASSUME NEW p \in Processes, HandleEvent(p)  PROVE Settled(f)'
  <2>1. events[p] # <<>> /\ UNCHANGED <<at, asked, snapshot, synced, drifted>>
    BY <1>5 DEF HandleEvent, requests
  <2>2. events[p] \in Seq({"changed", "deleted"} \X Files)
    BY <1>t DEF DirectoryTypeOK
  <2>3. /\ Head(events[p])[2] \in Files
        /\ 1 \in DOMAIN events[p] /\ Head(events[p]) = events[p][1]
    BY <2>1, <2>2
  <2>4. p = "sensor" => Head(events[p])[2] # f
    BY <1>t, <2>1, <2>3 DEF Heard
  <2>5. PICK g \in Files : g = Head(events[p])[2]
    BY <2>3
  <2>6. registry'["sensor"][f] = registry["sensor"][f]
    <3>1. \/ registry' = registry
          \/ \E said : registry' = [registry EXCEPT ![p][g] = said]
      BY <1>5, <2>5 DEF HandleEvent, LoadRuleFile
    <3> QED
      BY <1>u, <2>4, <2>5, <3>1
  <2> QED
    BY <1>k, <2>1, <2>6
<1>6. ASSUME NEW c \in Callers, NEW g \in Files, NEW state \in {"on", "off"}, Toggle(c, g, state)
      PROVE  Settled(f)'
  <2>1. /\ at[c] = "idle" /\ at' = [at EXCEPT ![c] = "found"]
        /\ asked' = [asked EXCEPT ![c] = <<g, state>>]
        /\ drifted' = IF Others(c) # {} \/ events["sensor"] # <<>>
                      THEN drifted \cup {g} ELSE drifted \ {g}
        /\ UNCHANGED <<snapshot, registry, synced>>
    BY <1>6, <1>u DEF Toggle, Step, engine
  <2>2. asked[c] = <<>>
    BY <1>t, <2>1 DEF Asking
  <2>3. CASE f # g
    <3>1. Settled(f)
      BY <1>t, <2>1, <2>3
    <3>2. AskedFor(f)' = AskedFor(f) /\ c \notin AskedFor(f)
      BY <1>u, <2>1, <2>2, <2>3 DEF AskedFor
    <3>3. Reloading' = Reloading
      BY <1>u, <2>1 DEF Reloading
    <3> QED
      BY <1>u, <2>1, <3>1, <3>2, <3>3, SettledKept DEF Settled, AskedFor
  <2>4. CASE f = g
    <3>1. \A d \in Callers \ {c} : at[d] = "idle" /\ asked[d] = <<>>
      BY <1>t, <2>1, <2>4 DEF Others, Asking
    <3>2. AskedFor(f)' = {c}
      BY <1>u, <2>1, <2>4, <3>1 DEF AskedFor
    <3>3. Reloading' = {} /\ at'[c] = "found"
      BY <1>u, <2>1, <3>1 DEF Reloading
    <3> QED
      BY <3>2, <3>3 DEF Settled
  <2> QED
    BY <2>3, <2>4
<1>7. ASSUME NEW c \in Callers, Store(c)  PROVE Settled(f)'
  <2>1. /\ at[c] = "found" /\ at' = [at EXCEPT ![c] = "stored"]
        /\ UNCHANGED <<registry, synced, asked, drifted>>
    BY <1>7 DEF Store, Step, engine
  <2>2. PICK g \in Files, state \in {"on", "off"} : asked[c] = <<g, state>>
    BY <1>t, <1>u, <2>1 DEF Asking
  <2>3. snapshot' = [snapshot EXCEPT ![g] = IF @ = "none" THEN @ ELSE state]
    BY <1>7, <2>2 DEF Store
  <2>4. Settled(f) /\ AskedFor(f)' = AskedFor(f)
    BY <1>t, <2>1 DEF AskedFor
  <2>5. Reloading' = {}
    BY <1>u, <2>1, <2>4 DEF Reloading, Settled
  <2>6. CASE f # g
    <3>1. c \notin AskedFor(f)
      BY <2>2, <2>6 DEF AskedFor
    <3>2. snapshot'[f] = snapshot[f]
      BY <1>u, <2>3, <2>6
    <3>3. \A d \in AskedFor(f) : at'[d] = at[d] /\ asked'[d] = asked[d]
      BY <1>u, <2>1, <3>1 DEF AskedFor
    <3> QED
      BY <2>1, <2>4, <2>5, <3>2, <3>3, SettledKept
  <2>7. CASE f = g
    <3>1. c \in AskedFor(f) /\ \A d \in AskedFor(f) : d = c
      BY <2>2, <2>4, <2>7 DEF AskedFor, Settled
    <3>2. snapshot'[f] \in {"none", state}
      BY <1>u, <2>3, <2>7
    <3> QED
      BY <2>1, <2>2, <2>4, <2>5, <3>1, <3>2 DEF Settled
  <2> QED
    BY <2>6, <2>7
<1>8. ASSUME NEW c \in Callers, ApplyToEngine(c)  PROVE Settled(f)'
  <2>1. /\ at[c] = "stored" /\ at' = [at EXCEPT ![c] = "idle"]
        /\ asked' = [asked EXCEPT ![c] = <<>>]
        /\ UNCHANGED <<snapshot, synced, drifted>>
    BY <1>8 DEF ApplyToEngine, Step
  <2>2. PICK g \in Files, state \in {"on", "off"} : asked[c] = <<g, state>>
    BY <1>t, <1>u, <2>1 DEF Asking
  <2>3. IF registry["sensor"][g] = "none" THEN registry' = registry
        ELSE registry' = [registry EXCEPT !["sensor"][g] = state]
    BY <1>8, <1>u, <2>2 DEF ApplyToEngine
  <2>4. Settled(f)
    BY <1>t, <2>1
  <2>5. Reloading' = {}
    BY <1>u, <2>1, <2>4 DEF Reloading, Settled
  <2>6. CASE f # g
    <3>1. AskedFor(f)' = AskedFor(f) /\ c \notin AskedFor(f)
      BY <1>u, <2>1, <2>2, <2>6 DEF AskedFor
    <3>2. registry'["sensor"][f] = registry["sensor"][f]
      BY <1>u, <2>3, <2>6
    <3>3. \A d \in AskedFor(f) : at'[d] = at[d] /\ asked'[d] = asked[d]
      BY <1>u, <2>1, <3>1 DEF AskedFor
    <3> QED
      BY <2>1, <2>4, <2>5, <3>1, <3>2, <3>3, SettledKept
  <2>7. CASE f = g
    <3>1. c \in AskedFor(f) /\ \A d \in AskedFor(f) : d = c
      BY <2>2, <2>4, <2>7 DEF AskedFor, Settled
    <3>2. AskedFor(f)' = {}
      BY <1>u, <2>1, <3>1 DEF AskedFor
    <3>3. snapshot[f] \in {"none", state}
      BY <2>1, <2>2, <2>4, <3>1 DEF Settled
    <3>4. registry'["sensor"][f] \in {"none", state}
      BY <1>u, <2>3, <2>7
    <3>5. Agree(f)'
      BY <2>1, <3>3, <3>4 DEF Agree
    <3> QED
      BY <2>5, <3>2, <3>5 DEF Settled
  <2> QED
    BY <2>6, <2>7
<1>9. ASSUME NEW c \in Callers, StopEngine(c)  PROVE Settled(f)'
  BY <1>9 DEF StopEngine
<1>10. ASSUME NEW c \in Callers, StartEngine(c) \/ CollectRules(c) \/ ReplaceSnapshot(c)
       PROVE  Settled(f)'
  <2>1. c \in Reloading /\ UNCHANGED <<synced, drifted>>
    BY <1>10 DEF StartEngine, CollectRules, ReplaceSnapshot, Step, Reloading
  <2> QED
    BY <1>t, <2>1 DEF Settled
<1>11. ASSUME NEW p \in Processes, Watch(p)  PROVE Settled(f)'
  BY <1>11, <1>k DEF Watch, requests
<1>12. CASE UNCHANGED directory
  BY <1>12, <1>k DEF directory, engine, requests
<1> QED
  BY <1>1, <1>2, <1>3, <1>4, <1>5, <1>6, <1>7, <1>8, <1>9, <1>10, <1>11, <1>12 DEF DirectoryNext

----------------------------------------------------------------------------
LEMMA ClearedStep == DirectoryInv /\ [DirectoryNext]_directory => Cleared'
<1> DEFINE E == Engine
           Excused(f) == \/ disk[f] \notin Readable
                         \/ loader[E] = "loading" /\ f \in unread[E]
                         \/ Pending(E, "changed", f)
           Left(f) == f \in override[E] /\ f \notin missed[E] /\ f \notin toggled
<1> SUFFICES ASSUME DirectoryInv, [DirectoryNext]_directory PROVE Cleared'
  OBVIOUS
<1> SUFFICES ASSUME NEW c \in Callers, at'[c] \in {"loading", "collected"},
                    NEW f \in Files, Left(f)'
             PROVE  Excused(f)'
  <2>1. override[E]' \subseteq Files
    <3>1. override' \in [Processes -> SUBSET Files]
      BY TypeStep DEF DirectoryTypeOK
    <3>2. Engine' = Engine /\ Engine \in Processes
      BY EngineKept, Typed
    <3> QED
      BY <3>1, <3>2
  <2> QED
    BY <2>1 DEF Cleared
<1>t. /\ DirectoryTypeOK /\ Stages
      /\ at[c] \in {"loading", "collected"} /\ Left(f) => Excused(f)
  BY DEF DirectoryInv, Cleared
<1>e. E' = E /\ E \in Processes
  BY EngineKept, Typed
<1>u. /\ at \in [Callers -> {"idle", "found", "stored", "stopped", "loading", "collected"}]
      /\ loader \in [Processes -> {"stopped", "loading", "watching"}]
      /\ events \in [Processes -> Seq({"changed", "deleted"} \X Files)]
      /\ disk \in [Files -> Contents]
      /\ unread \in [Processes -> SUBSET Files]
      /\ missed \in [Processes -> SUBSET Files] /\ override \in [Processes -> SUBSET Files]
      /\ E \in Processes
  BY <1>t, <1>e DEF DirectoryTypeOK
<1> HIDE DEF E
<1>k. CASE /\ at[c] \in {"loading", "collected"} /\ (Left(f)' => Left(f))
           /\ disk'[f] = disk[f] /\ loader'[E] = loader[E] /\ events'[E] = events[E]
           /\ f \in unread[E] => f \in unread'[E]
  <2>1. Excused(f)
    BY <1>t, <1>k
  <2>2. Pending(E, "changed", f) => Pending(E, "changed", f)'
    BY <1>k, <1>e DEF Pending
  <2> QED
    BY <1>k, <1>e, <2>1, <2>2
<1>1. ASSUME NEW g \in Files, NEW content \in Contents, NEW renamed \in BOOLEAN,
             ChangeFile(g, content, renamed)
      PROVE  Excused(f)'
  <2> DEFINE hears == loader[E] = "watching" /\ ~renamed
             kind == IF content = "absent" THEN "deleted" ELSE "changed"
  <2>1. /\ disk' = [disk EXCEPT ![g] = content]
        /\ events'[E] = IF hears THEN Append(events[E], <<kind, g>>) ELSE events[E]
        /\ missed'[E] = IF hears THEN missed[E] ELSE missed[E] \cup {g}
        /\ UNCHANGED <<loader, unread, override, at, toggled>>
    BY <1>1, <1>u DEF ChangeFile, requests
  <2>2. CASE ~hears
    <3>1. f # g /\ Left(f) /\ disk'[f] = disk[f]
      BY <1>u, <1>e, <2>1, <2>2
    <3> QED
      BY <1>k, <1>e, <2>1, <2>2, <3>1
  <2>3. CASE hears
    <3>1. /\ Pending(E, kind, g)'
          /\ \A k, h : Pending(E, k, h) => Pending(E, k, h)'
      <4>1. /\ kind \in {"changed", "deleted"}
            /\ events[E] \in Seq({"changed", "deleted"} \X Files)
            /\ events'[E] = Append(events[E], <<kind, g>>)
        BY <1>u, <2>1, <2>3
      <4>2. PICK p \in Processes : p = E
        BY <1>u
      <4> HIDE DEF kind
      <4>3. /\ Pending(p, kind, g)'
            /\ \A k, h : Pending(p, k, h) => Pending(p, k, h)'
        BY <4>1, <4>2, Sent
      <4> QED
        BY <4>2, <4>3, <1>e DEF Pending
    <3>2. CASE f = g
      <4>1. disk'[f] = content
        BY <1>u, <2>1, <3>2
      <4>2. CASE content \in Readable
        <5>1. kind = "changed"
          BY <4>2 DEF Readable
        <5> QED
          BY <3>1, <3>2, <5>1
      <4> QED
        BY <4>1, <4>2
    <3>3. CASE f # g
      <4>1. Left(f) /\ disk'[f] = disk[f]
        BY <1>u, <1>e, <2>1, <2>3, <3>3
      <4>2. Excused(f)
        BY <1>t, <2>1, <4>1
      <4> QED
        BY <1>e, <2>1, <3>1, <4>1, <4>2
    <3> QED
      BY <3>2, <3>3
  <2> QED
    BY <2>2, <2>3
<1>2. ASSUME StartSensor  PROVE Excused(f)'
  <2>1. E # "sensor"
    BY <1>2, <1>t DEF StartSensor, requests, Stages, E, Engine
  <2> QED
    BY <1>2, <1>k, <1>e, <1>u, <2>1 DEF StartSensor, BeginLoad, requests
<1>3. CASE UNCHANGED <<disk, engine, at, toggled>>
  BY <1>3, <1>k, <1>e DEF engine
<1>4. ASSUME RestartSensor  PROVE Excused(f)'
  <2>1. E # "sensor" /\ at' = at
    BY <1>4 DEF RestartSensor, E, Engine
  <2> QED
    BY <1>4, <1>k, <1>e, <1>u, <2>1 DEF RestartSensor
<1>5. ASSUME NEW p \in Processes, LoadNext(p)  PROVE Excused(f)'
  <2>1. PICK g \in unread[p] : LoadRuleFile(p, g) /\ unread' = [unread EXCEPT ![p] = @ \ {g}]
    BY <1>5 DEF LoadNext
  <2>2. UNCHANGED <<disk, loader, events, at, toggled>>
    BY <1>5 DEF LoadNext, requests
  <2>3. CASE p # E \/ f # g
    <3>1. Left(f) /\ (f \in unread[E] => f \in unread'[E])
      BY <1>u, <1>e, <2>1, <2>2, <2>3 DEF LoadRuleFile
    <3> QED
      BY <1>k, <2>2, <3>1
  <2>4. CASE p = E /\ f = g
    <3>1. disk[f] \notin Readable
      BY <1>u, <1>e, <2>1, <2>4 DEF LoadRuleFile
    <3> QED
      BY <2>2, <3>1
  <2> QED
    BY <2>3, <2>4
<1>6. ASSUME NEW p \in Processes, Watch(p)  PROVE Excused(f)'
  <2>1. /\ loader[p] = "loading" /\ unread[p] = {} /\ loader' = [loader EXCEPT ![p] = "watching"]
        /\ UNCHANGED <<disk, events, unread, missed, override, at, toggled>>
    BY <1>6 DEF Watch, requests
  <2>2. CASE p # E
    BY <1>k, <1>u, <1>e, <2>1, <2>2
  <2>3. CASE p = E
    <3>1. Excused(f) /\ ~(loader[E] = "loading" /\ f \in unread[E])
      BY <1>t, <1>e, <2>1, <2>3
    <3>2. Pending(E, "changed", f) => Pending(E, "changed", f)'
      BY <2>1, <1>e DEF Pending
    <3> QED
      BY <2>1, <3>1, <3>2
  <2> QED
    BY <2>2, <2>3
<1>7. ASSUME NEW p \in Processes, HandleEvent(p)  PROVE Excused(f)'
  <2>1. /\ events[p] # <<>> /\ events' = [events EXCEPT ![p] = Tail(@)]
        /\ UNCHANGED <<disk, loader, unread, at, toggled>>
    BY <1>7 DEF HandleEvent, requests
  <2>2. events[p] \in Seq({"changed", "deleted"} \X Files) /\ events'[p] = Tail(events[p])
    BY <1>u, <2>1
  <2>3. PICK kind \in {"changed", "deleted"}, g \in Files : Head(events[p]) = <<kind, g>>
    BY <2>1, <2>2
  <2>4. \A k, h : Pending(p, k, h) => Pending(p, k, h)' \/ (kind = k /\ g = h)
    BY <2>1, <2>2, <2>3, Handled
  <2>5. IF kind = "changed" THEN LoadRuleFile(p, g)
        ELSE /\ override' = [override EXCEPT ![p] = @ \ {g}]
             /\ missed' = [missed EXCEPT ![p] = IF disk[g] = "absent" THEN @ \ {g} ELSE @ \cup {g}]
    BY <1>7, <2>3 DEF HandleEvent
  <2>6. CASE p # E
    BY <1>k, <1>u, <1>e, <2>1, <2>5, <2>6 DEF LoadRuleFile
  <2>7. CASE p = E /\ f # g
    <3>1. Left(f)
      BY <1>u, <1>e, <2>1, <2>5, <2>7 DEF LoadRuleFile
    <3>2. Excused(f)
      BY <1>t, <2>1, <3>1
    <3>3. Pending(E, "changed", f) => Pending(E, "changed", f)'
      BY <1>e, <2>4, <2>7 DEF Pending
    <3> QED
      BY <1>e, <2>1, <3>2, <3>3
  <2>8. CASE p = E /\ f = g
    <3>1. kind = "changed" /\ disk[f] \notin Readable
      BY <1>u, <1>e, <2>5, <2>8 DEF LoadRuleFile
    <3> QED
      BY <2>1, <3>1
  <2> QED
    BY <2>6, <2>7, <2>8
<1>8. ASSUME NEW d \in Callers, ApplyToEngine(d)  PROVE Excused(f)'
  <2> DEFINE g == asked[d][1]
  <2>1. /\ at' = [at EXCEPT ![d] = "idle"] /\ toggled' = toggled \cup {g}
        /\ override' = override \/ override' = [override EXCEPT ![E] = @ \cup {g}]
        /\ UNCHANGED <<disk, loader, unread, events, missed>>
    BY <1>8 DEF ApplyToEngine, Step, E
  <2>2. f # g /\ Left(f)
    BY <1>u, <1>e, <2>1
  <2> QED
    BY <1>k, <1>u, <2>1, <2>2
<1>9. ASSUME NEW d \in Callers, StopEngine(d)  PROVE Excused(f)'
  BY <1>9, <1>u DEF StopEngine, Step
<1>10. ASSUME NEW d \in Callers, StartEngine(d)  PROVE Excused(f)'
  <2>1. /\ at[d] = "stopped" /\ at' = [at EXCEPT ![d] = "loading"]
        /\ loader'[E] = "loading" /\ unread'[E] = {g \in Files : disk[g] # "absent"} /\ disk' = disk
    BY <1>10, <1>u DEF StartEngine, Step, BeginLoad, E
  <2>2. disk[f] \notin Readable \/ f \in unread'[E]
    BY <2>1 DEF Readable
  <2> QED
    BY <1>e, <2>1, <2>2
<1>11. ASSUME NEW d \in Callers,
              \/ \E g \in Files, state \in {"on", "off"} : Toggle(d, g, state)
              \/ Store(d) \/ CollectRules(d) \/ ReplaceSnapshot(d)
       PROVE  Excused(f)'
  <2>1. /\ UNCHANGED <<disk, engine, toggled>>
        /\ \/ at[d] = "idle" /\ at' = [at EXCEPT ![d] = "found"]
           \/ at[d] = "found" /\ at' = [at EXCEPT ![d] = "stored"]
           \/ at[d] = "loading" /\ at' = [at EXCEPT ![d] = "collected"]
           \/ at[d] = "collected" /\ at' = [at EXCEPT ![d] = "idle"]
    BY <1>11 DEF Toggle, Store, CollectRules, ReplaceSnapshot, Step
  <2>2. at[c] \in {"loading", "collected"}
    BY <1>u, <2>1
  <2> QED
    BY <1>k, <1>e, <2>1, <2>2 DEF engine
<1> QED
  BY <1>1, <1>2, <1>3, <1>4, <1>5, <1>6, <1>7, <1>8, <1>9, <1>10, <1>11
     DEF DirectoryNext, directory, requests, SyncSnapshot

----------------------------------------------------------------------------
LEMMA Invariant == DirectorySpec => []DirectoryInv
<1>1. DirectoryInv /\ [DirectoryNext]_directory => DirectoryInv'
  BY TypeStep, StagesStep, FollowsStep, HeardStep, ReachStep, ClearedStep, AskingStep
     DEF DirectoryInv
<1> QED
  BY InitInv, <1>1, PTL DEF DirectorySpec

(* The loader, the watcher, the snapshot and the requests keep their types. *)
THEOREM TypeCorrect == DirectorySpec => []DirectoryTypeOK
<1>1. DirectoryInv => DirectoryTypeOK
  BY DEF DirectoryInv
<1> QED
  BY Invariant, <1>1, PTL

(* Hot reload: once the watcher has handled what it heard, the rules in    *)
(* force are those of the files, but for files it could not hear of, files *)
(* that are not valid and rules toggled at runtime.                        *)
THEOREM RulesFollowFiles == DirectorySpec => []RegistryFollowsDisk
<1>1. DirectoryInv => RegistryFollowsDisk
  <2> SUFFICES ASSUME DirectoryInv, NEW p \in Processes, loader[p] = "watching", events[p] = <<>>,
                      NEW f \in Files, f \notin missed[p] \cup override[p], disk[f] # "broken"
               PROVE  registry[p][f] = IF disk[f] = "absent" THEN "none" ELSE disk[f]
    BY DEF RegistryFollowsDisk
  <2>1. Known(p, f) /\ ~Pending(p, "deleted", f) /\ ~Pending(p, "changed", f)
    BY DEF DirectoryInv, Follows, Pending
  <2> QED
    BY <2>1 DEF Known, InForce
<1> QED
  BY Invariant, <1>1, PTL

(* set_rule_enabled and reload_rules: a toggle that is through is in the   *)
(* snapshot and in the engine, and after a reload no override is left but  *)
(* of a file that cannot be read, or that was changed or toggled meanwhile. *)
THEOREM TogglesHoldOn == DirectorySpec => []TogglesHold
<1>1. DirectoryInv => TogglesReach
  <2> SUFFICES ASSUME DirectoryInv, shared, synced, \A c \in Callers : at[c] = "idle",
                      NEW f \in Files, f \notin drifted
               PROVE  snapshot[f] # "none" => registry["sensor"][f] \in {snapshot[f], "none"}
    BY DEF TogglesReach
  <2>1. Settled(f) /\ AskedFor(f) = {}
    BY DEF DirectoryInv, Reach, Asking, AskedFor
  <2> QED
    BY <2>1 DEF Settled, Agree
<1>2. DirectoryInv => ReloadClears
  <2> SUFFICES ASSUME DirectoryInv, NEW c \in Callers, at[c] = "collected",
                      NEW f \in override[Engine] \ (missed[Engine] \cup toggled),
                      disk[f] \in Readable
               PROVE  events[Engine] # <<>>
    BY DEF ReloadClears
  <2>1. loader[Engine] = "watching"
    BY DEF DirectoryInv, Stages
  <2>2. Pending(Engine, "changed", f)
    BY <2>1 DEF DirectoryInv, Cleared
  <2> QED
    BY <2>2 DEF Pending
<1> QED
  BY Invariant, <1>1, <1>2, PTL DEF TogglesHold
----------------------------------------------------------------------------
(* The table of a source is a function from some of the peers to times.    *)
LEMMA SeenIs ==
  ASSUME NEW f
  PROVE  f \in Seen <=> DOMAIN f \subseteq Peers /\ f \in [DOMAIN f -> Times]
<1>1. ASSUME f \in Seen  PROVE DOMAIN f \subseteq Peers /\ f \in [DOMAIN f -> Times]
  BY <1>1 DEF Seen
<1>2. ASSUME DOMAIN f \subseteq Peers, f \in [DOMAIN f -> Times]  PROVE f \in Seen
  <2>1. DOMAIN f \in SUBSET Peers
    BY <1>2
  <2> QED
    BY <1>2, <2>1 DEF Seen
<1> QED
  BY <1>1, <1>2

(* An evaluation has its hands on keys it will not visit again, and what   *)
(* it returns has been marked as reported.                                 *)
Cycle ==
    /\ phase = "idle" => alerts = {}
    /\ phase \in {"idle", "dispatch"} => todo = {} /\ live = {}
    /\ alerts \subseteq reported
    /\ phase # "dispatch" => alerts \subseteq live
    /\ live \cap todo = {}
    /\ phase \in {"scan", "expire", "drop", "report"} => key \notin todo \cup live

(* The capture thread holds a packet that was not too late when it moved   *)
(* the clock; the dictionary it fetched is the one the table has, or it is *)
(* an orphan.                                                              *)
Held ==
    /\ ingest # Idle => ingest.time >= now - Late
    /\ ingest # Idle /\ ingest.stage = "store" => (orphan <=> ingest.src \notin tracked)
    /\ orphan => ingest # Idle /\ ingest.stage = "store"
    /\ ~disturbed /\ phase # "idle" => ingest = Idle

(* What a table says of a peer is no later than what was last seen of it.  *)
Recorded ==
    \A s \in Sources : \A p \in DOMAIN peers[s] : latest[s][p] >= peers[s][p]

Since == IF disturbed THEN cutoff - Late ELSE cutoff

(* After the scan a peer of the visited key lies inside the window whose   *)
(* cutoff was read, up to the lateness of packets that came meanwhile, or  *)
(* is about to be deleted.                                                 *)
Scanned ==
    /\ phase \in {"scan", "expire", "drop", "report"} => cutoff + Window <= now
    /\ phase = "expire" => expired \subseteq DOMAIN peers[key]
    /\ phase = "expire" => \A p \in DOMAIN peers[key] \ expired : peers[key][p] > Since
    /\ phase = "report" => \A p \in DOMAIN peers[key] : peers[key][p] > Since

BreadthInv == TypeOK /\ Cycle /\ Held /\ Recorded /\ Scanned

LEMMA BreadthInit == Init => BreadthInv
<1> SUFFICES ASSUME Init PROVE BreadthInv
  OBVIOUS
<1>1. NoPeers \in Seen /\ DOMAIN NoPeers = {}
  BY SeenIs DEF NoPeers
<1> USE DetectorAssumption DEF Init
<1>2. TypeOK
  <2>1. peers \in [Sources -> Seen] /\ \A s \in Sources \ tracked : peers[s] = NoPeers
    BY <1>1
  <2>2. latest \in [Sources -> [Peers -> 0 .. MaxTime]] /\ now \in 0 .. MaxTime
    OBVIOUS
  <2>3. phase \in Labels /\ key \in Sources /\ cutoff \in Int
    BY DEF Labels
  <2>4. disturbed \in BOOLEAN
    BY Zenon
  <2> QED
    BY <2>1, <2>2, <2>3, <2>4 DEF TypeOK
<1>3. Cycle
  BY DEF Cycle
<1>4. Held
  BY DEF Held, Idle
<1>5. Recorded
  BY <1>1 DEF Recorded
<1>6. Scanned
  BY DEF Scanned
<1> QED
  BY <1>2, <1>3, <1>4, <1>5, <1>6 DEF BreadthInv

(* A peer that is seen enters the table with its time, one that expires    *)
(* leaves it, and the rest of the table stands.                            *)
LEMMA TableKept ==
  ASSUME NEW f \in Seen, NEW p \in Peers, NEW t \in Times
  PROVE  /\ [q \in DOMAIN f \cup {p} |-> IF q = p THEN t ELSE f[q]] \in Seen
         /\ Restrict(f, DOMAIN f \ {p}) \in Seen
<1>1. DOMAIN f \subseteq Peers /\ f \in [DOMAIN f -> Times]
  BY SeenIs
<1>2. [q \in DOMAIN f \cup {p} |-> IF q = p THEN t ELSE f[q]] \in Seen
  BY <1>1, SeenIs
<1>3. Restrict(f, DOMAIN f \ {p}) \in Seen
  BY <1>1, SeenIs DEF Restrict
<1> QED
  BY <1>2, <1>3

LEMMA AdvanceStep ==
  ASSUME BreadthInv, Advance  PROVE BreadthInv'
<1> USE DetectorAssumption
<1>0. PICK s \in Sources, p \in Peers, t \in Times :
         /\ t >= now - Late
         /\ now' = IF t > now THEN t ELSE now
         /\ ingest' = [stage |-> "fetch", src |-> s, peer |-> p, time |-> t]
         /\ latest' = [latest EXCEPT ![s][p] = IF t > @ THEN t ELSE @]
  BY DEF Advance
<1>1. /\ UNCHANGED <<tracked, peers, orphan, visit, cycle, edge, phase>>
      /\ disturbed' = (phase # "idle") /\ ingest = Idle
  BY DEF Advance
<1> USE DEF visit, cycle, edge, BreadthInv
<1>2. t \in Nat /\ t >= 1 /\ now \in Nat /\ now' \in 0 .. MaxTime /\ now' >= now /\ t >= now' - Late
  BY <1>0 DEF Times, TypeOK
<1>3. latest' \in [Sources -> [Peers -> 0 .. MaxTime]]
  BY <1>0 DEF TypeOK, Times
<1>4. \A u \in Sources, q \in Peers : latest'[u][q] >= latest[u][q]
  BY <1>0 DEF TypeOK, Times
<1>5. TypeOK'
  BY <1>0, <1>1, <1>2, <1>3 DEF TypeOK
<1>6. Cycle'
  BY <1>1 DEF Cycle
<1>7. Held'
  BY <1>0, <1>1, <1>2 DEF Held, Idle
<1>8. Recorded'
  <2> SUFFICES ASSUME NEW u \in Sources, NEW q \in DOMAIN peers[u]
               PROVE  latest'[u][q] >= peers[u][q]
    BY <1>1 DEF Recorded
  <2>1. peers[u] \in Seen
    BY DEF TypeOK
  <2>2. q \in Peers /\ peers[u][q] \in Nat
    BY <2>1, SeenIs DEF Times
  <2>3. latest[u][q] \in Nat /\ latest'[u][q] \in Nat
    BY <1>3, <2>2 DEF TypeOK
  <2> QED
    BY <1>4, <2>2, <2>3 DEF Recorded
<1>9. Scanned'
  <2>1. cutoff \in Int /\ now' \in Int /\ now \in Int /\ Window \in Int /\ Late \in Nat
    BY <1>2 DEF TypeOK
  <2>2. phase \in {"scan", "expire", "drop", "report"} => cutoff + Window <= now'
    <3>1. cutoff + Window <= now => cutoff + Window <= now'
      BY <1>2, <2>1
    <3> QED
      BY <3>1 DEF Scanned
  <2>3. ASSUME NEW q \in DOMAIN peers[key], peers[key][q] > Since, phase # "idle"
        PROVE  peers[key][q] > Since'
    <3>1. peers[key] \in Seen
      BY DEF TypeOK
    <3>2. peers[key][q] \in Nat
      BY <3>1, SeenIs DEF Times
    <3>3. Since \in Int /\ Since' \in Int
      <4>1. cutoff' = cutoff
        BY <1>1
      <4> QED
        BY <2>1, <4>1 DEF Since
    <3>4. Since' <= Since
      <4>1. disturbed' /\ cutoff' = cutoff
        BY <1>1, <2>3
      <4> QED
        BY <2>1, <4>1 DEF Since
    <3> QED
      BY <2>3, <3>2, <3>3, <3>4
  <2> QED
    BY <1>1, <2>2, <2>3 DEF Scanned
<1> QED
  BY <1>5, <1>6, <1>7, <1>8, <1>9

LEMMA FetchStep ==
  ASSUME BreadthInv, Fetch  PROVE BreadthInv'
<1> USE DetectorAssumption DEF Fetch, visit, cycle, edge, seen, BreadthInv
<1>1. ingest # Idle
  BY DEF Idle
<1>2. /\ ingest \in [stage : {"fetch", "store"}, src : Sources, peer : Peers, time : Times]
      /\ ingest.time >= now - Late /\ ~ (~disturbed /\ phase # "idle")
  BY <1>1 DEF TypeOK, Held
<1>3. /\ ingest' \in [stage : {"fetch", "store"}, src : Sources, peer : Peers, time : Times]
      /\ ingest'.time = ingest.time /\ ingest'.src = ingest.src /\ tracked' = tracked \cup {ingest.src}
      /\ ingest'.src \in tracked'
  BY <1>2
<1>4. TypeOK'
  BY <1>2, <1>3 DEF TypeOK
<1>5. Cycle' /\ Recorded' /\ Scanned'
  BY DEF Cycle, Recorded, Scanned, Since
<1>6. Held'
  BY <1>2, <1>3 DEF Held
<1> QED
  BY <1>4, <1>5, <1>6

LEMMA SetSeenStep ==
  ASSUME BreadthInv, SetSeen  PROVE BreadthInv'
<1> USE DetectorAssumption DEF BreadthInv
<1> DEFINE s == ingest.src
           p == ingest.peer
           t == ingest.time
           f == [q \in DOMAIN peers[s] \cup {p} |-> IF q = p THEN t ELSE peers[s][q]]
<1>0. ingest # Idle
  BY DEF SetSeen, Idle
<1>1. /\ s \in Sources /\ p \in Peers /\ t \in Times /\ t \in Nat /\ t >= 1 /\ t <= MaxTime
      /\ ingest.time >= now - Late /\ (disturbed \/ phase = "idle") /\ (orphan <=> s \notin tracked)
  BY <1>0 DEF TypeOK, Held, SetSeen, Times
<1>2. /\ peers' = IF orphan THEN peers ELSE [peers EXCEPT ![s] = f]
      /\ latest' = [latest EXCEPT ![s][p] = IF orphan THEN 0 ELSE t]
      /\ ingest' = Idle /\ orphan' = FALSE
      /\ UNCHANGED <<now, tracked, visit, cycle, edge, phase, disturbed>>
  BY DEF SetSeen
<1>3. peers[s] \in Seen /\ f \in Seen /\ peers \in [Sources -> Seen]
  <2>1. peers[s] \in Seen /\ peers \in [Sources -> Seen]
    BY <1>1 DEF TypeOK
  <2> HIDE DEF s, p, t
  <2> QED
    BY <1>1, <2>1, TableKept
<1> HIDE DEF s, p, t, f
<1>4. peers' \in [Sources -> Seen] /\ \A u \in Sources \ tracked : peers'[u] = NoPeers
  BY <1>1, <1>2, <1>3 DEF TypeOK
<1>5. latest' \in [Sources -> [Peers -> 0 .. MaxTime]]
  BY <1>1, <1>2 DEF TypeOK
<1>6. TypeOK'
  BY <1>2, <1>4, <1>5 DEF TypeOK, visit, cycle, edge
<1>7. Cycle' /\ Held'
  BY <1>2 DEF Cycle, Held, visit, cycle, edge
<1>8. ASSUME ~orphan  PROVE peers'[s] = f /\ DOMAIN f = DOMAIN peers[s] \cup {p} /\ f[p] = t
                            /\ \A q \in DOMAIN peers[s] : q # p => f[q] = peers[s][q]
  BY <1>1, <1>2, <1>3, <1>8 DEF f
<1>9. \A u \in Sources : u # s \/ orphan => peers'[u] = peers[u]
  BY <1>2, <1>3
<1>10. \A u \in Sources, q \in Peers : u # s \/ q # p => latest'[u][q] = latest[u][q]
  BY <1>1, <1>2 DEF TypeOK
<1>11. latest'[s][p] = IF orphan THEN 0 ELSE t
  BY <1>1, <1>2 DEF TypeOK
<1>12. Recorded'
  <2> SUFFICES ASSUME NEW u \in Sources, NEW q \in DOMAIN peers'[u]
               PROVE  latest'[u][q] >= peers'[u][q]
    BY DEF Recorded
  <2>1. peers[u] \in Seen /\ peers'[u] \in Seen
    BY <1>4 DEF TypeOK
  <2>2. q \in Peers
    BY <2>1, SeenIs
  <2>3. CASE u = s /\ q = p /\ ~orphan
    <3>1. peers'[u][q] = t /\ latest'[u][q] = t
      BY <2>3, <1>8, <1>11
    <3> QED
      BY <3>1, <1>1
  <2>4. CASE u = s /\ q = p /\ orphan
    <3>1. q \in DOMAIN peers[s] /\ s \notin tracked
      BY <2>4, <1>1, <1>9
    <3>2. peers[s] = NoPeers
      BY <3>1, <1>1 DEF TypeOK
    <3> QED
      BY <3>1, <3>2 DEF NoPeers
  <2>5. CASE ~ (u = s /\ q = p)
    <3>1. q \in DOMAIN peers[u] /\ peers'[u][q] = peers[u][q]
      BY <2>5, <1>8, <1>9
    <3> QED
      BY <3>1, <2>5, <2>2, <1>10 DEF Recorded
  <2> QED
    BY <2>3, <2>4, <2>5
<1>13. Scanned'
  <2>1. ASSUME NEW q \in DOMAIN peers'[key], phase # "idle", cutoff + Window <= now,
               q \in DOMAIN peers[key] => peers[key][q] > Since
        PROVE  peers'[key][q] > Since
    <3> SUFFICES ASSUME peers'[key] # peers[key]  PROVE peers'[key][q] > Since
      BY <2>1
    <3>1. key = s /\ ~orphan /\ key \in Sources
      BY <2>1, <1>9 DEF TypeOK
    <3>2. CASE q = p
      <4>1. peers'[key][q] = t /\ disturbed /\ t >= now - Late
        BY <3>1, <3>2, <1>1, <1>8, <2>1 DEF t
      <4>2. now \in Int /\ cutoff \in Int /\ Window \in Nat /\ Window >= 1 /\ Late \in Nat
        BY DEF TypeOK
      <4>3. t > cutoff - Late
        BY <4>1, <4>2, <1>1, <2>1
      <4> QED
        BY <4>1, <4>3 DEF Since
    <3>3. CASE q # p
      BY <3>1, <3>3, <1>8, <2>1
    <3> QED
      BY <3>2, <3>3
  <2>2. DOMAIN peers[key] \subseteq DOMAIN peers'[key]
    BY <1>8, <1>9 DEF TypeOK
  <2>3. UNCHANGED <<key, cutoff, expired, phase, now>> /\ Since' = Since
    BY <1>2 DEF Since, visit
  <2>4. CASE phase = "expire"
    <3>1. ASSUME NEW q \in DOMAIN peers'[key] \ expired  PROVE peers'[key][q] > Since
      BY <2>1, <2>4 DEF Scanned
    <3> QED
      BY <2>2, <2>3, <2>4, <3>1 DEF Scanned
  <2>5. CASE phase = "report"
    <3>1. ASSUME NEW q \in DOMAIN peers'[key]  PROVE peers'[key][q] > Since
      BY <2>1, <2>5 DEF Scanned
    <3> QED
      BY <2>3, <2>5, <3>1 DEF Scanned
  <2> QED
    BY <2>3, <2>4, <2>5 DEF Scanned
<1> QED
  BY <1>6, <1>7, <1>12, <1>13

LEMMA BeginStep ==
  ASSUME BreadthInv, Begin  PROVE BreadthInv'
<1> USE DEF Begin, window, capture, visit, edge, BreadthInv
<1>1. disturbed' \in BOOLEAN /\ (~disturbed' => ingest = Idle)
  OBVIOUS
<1>2. TypeOK'
  BY <1>1 DEF TypeOK, Labels
<1>3. Cycle' /\ Scanned' /\ Recorded'
  BY DEF Cycle, Scanned, Recorded
<1>4. Held'
  BY <1>1 DEF Held
<1> QED
  BY <1>2, <1>3, <1>4

LEMMA VisitStep ==
  ASSUME BreadthInv, Visit  PROVE BreadthInv'
<1> USE DEF window, capture, edge, seen, BreadthInv
<1>1. PICK s \in todo : key' = s /\ todo' = todo \ {s}
  BY DEF Visit
<1>2. /\ cutoff' = now - Window /\ phase = "visit" /\ phase' = "scan"
      /\ UNCHANGED <<window, capture, expired, live, alerts, edge, seen>>
  BY DEF Visit
<1>3. now \in Int /\ Window \in Int /\ now' = now
  BY <1>2, DetectorAssumption DEF TypeOK
<1>4. cutoff' \in Int /\ cutoff' + Window <= now'
  BY <1>2, <1>3
<1>5. TypeOK'
  BY <1>1, <1>2, <1>4 DEF TypeOK, Labels
<1>6. Cycle' /\ Held' /\ Recorded'
  BY <1>1, <1>2 DEF Cycle, Held, Recorded
<1>7. Scanned'
  BY <1>2, <1>4 DEF Scanned
<1> QED
  BY <1>5, <1>6, <1>7

LEMMA ScanStep ==
  ASSUME BreadthInv, Scan  PROVE BreadthInv'
<1> USE DEF window, capture, seen, BreadthInv
<1>1. /\ phase = "scan" /\ UNCHANGED <<window, capture, key, cutoff, reported, told, seen>>
  BY DEF Scan
<1>2. CASE Abort /\ UNCHANGED expired
  <2>1. TypeOK'
    BY <1>1, <1>2 DEF TypeOK, Labels, Abort, Cycle
  <2>2. Cycle' /\ Held' /\ Recorded' /\ Scanned'
    BY <1>1, <1>2 DEF Cycle, Held, Recorded, Scanned, Abort
  <2> QED
    BY <2>1, <2>2
<1>3. CASE /\ expired' = {p \in DOMAIN peers[key] : peers[key][p] <= cutoff}
           /\ phase' = "expire" /\ UNCHANGED <<cycle, lost>>
  <2>1. peers[key] \in Seen
    BY DEF TypeOK
  <2>2. DOMAIN peers[key] \subseteq Peers /\ \A p \in DOMAIN peers[key] : peers[key][p] \in Nat
    BY <2>1, SeenIs DEF Times
  <2>3. TypeOK'
    BY <1>1, <1>3, <2>2 DEF TypeOK, Labels, cycle
  <2>4. Cycle' /\ Held' /\ Recorded'
    BY <1>1, <1>3 DEF Cycle, Held, Recorded, cycle
  <2>5. ASSUME NEW p \in DOMAIN peers[key] \ expired'  PROVE peers[key][p] > Since
    <3>1. ~ (peers[key][p] <= cutoff) /\ peers[key][p] \in Nat
      BY <1>3, <2>2, <2>5
    <3>2. cutoff \in Int /\ Late \in Nat
      BY DetectorAssumption DEF TypeOK
    <3> QED
      BY <3>1, <3>2 DEF Since
  <2>6. Scanned'
    BY <1>1, <1>3, <2>5 DEF Scanned, Since
  <2> QED
    BY <2>3, <2>4, <2>6
<1> QED
  BY <1>2, <1>3 DEF Scan

LEMMA ExpireStep ==
  ASSUME BreadthInv, Expire  PROVE BreadthInv'
<1> USE DEF BreadthInv
<1>1. PICK p \in expired :
         /\ peers' = [peers EXCEPT ![key] = Restrict(@, DOMAIN @ \ {p})]
         /\ expired' = expired \ {p}
         /\ latest' = IF peers[key][p] > cutoff
                      THEN [latest EXCEPT ![key][p] = 0] ELSE latest
  BY DEF Expire
<1>2. /\ phase = "expire" /\ UNCHANGED <<now, tracked, ingest, orphan, key, cutoff, todo, live, alerts>>
      /\ UNCHANGED <<reported, told, lost, phase, disturbed>>
  BY DEF Expire, capture, cycle, edge
<1>3. key \in Sources /\ p \in Peers /\ peers[key] \in Seen /\ peers \in [Sources -> Seen]
  BY DEF TypeOK
<1>4. /\ peers' \in [Sources -> Seen] /\ DOMAIN peers'[key] = DOMAIN peers[key] \ {p}
      /\ \A q \in DOMAIN peers'[key] : peers'[key][q] = peers[key][q]
      /\ \A u \in Sources : u # key => peers'[u] = peers[u]
  <2>1. Restrict(peers[key], DOMAIN peers[key] \ {p}) \in Seen
    BY <1>3, SeenIs DEF Restrict
  <2> QED
    BY <1>1, <1>3, <2>1 DEF Restrict
<1>5. latest' \in [Sources -> [Peers -> 0 .. MaxTime]]
  BY <1>1, <1>3, DetectorAssumption DEF TypeOK
<1>6. TypeOK'
  <2>1. \A u \in Sources \ tracked : peers'[u] = NoPeers
    <3>1. CASE key \in tracked
      BY <3>1, <1>4 DEF TypeOK
    <3>2. CASE key \notin tracked
      BY <3>2, <1>2, <1>3 DEF TypeOK, Scanned, NoPeers
    <3> QED
      BY <3>1, <3>2
  <2> QED
    BY <1>1, <1>2, <1>4, <1>5, <2>1 DEF TypeOK
<1>7. Cycle' /\ Held'
  BY <1>2 DEF Cycle, Held
<1>8. Recorded'
  <2> SUFFICES ASSUME NEW u \in Sources, NEW q \in DOMAIN peers'[u]
               PROVE  latest'[u][q] >= peers'[u][q]
    BY DEF Recorded
  <2>1. q \in DOMAIN peers[u] /\ peers'[u][q] = peers[u][q] /\ (u # key \/ q # p)
    BY <1>4
  <2>2. latest'[u][q] = latest[u][q]
    BY <1>1, <1>3, <2>1 DEF TypeOK
  <2> QED
    BY <2>1, <2>2 DEF Recorded
<1>9. Scanned'
  BY <1>1, <1>2, <1>4 DEF Scanned, Since
<1> QED
  BY <1>6, <1>7, <1>8, <1>9

LEMMA ExpiredStep ==
  ASSUME BreadthInv, Expired  PROVE BreadthInv'
<1> USE DEF Expired, window, capture, visit, cycle, edge, seen, BreadthInv
<1>1. phase' \in {"drop", "report"}
  OBVIOUS
<1>2. TypeOK'
  BY <1>1 DEF TypeOK, Labels
<1>3. Cycle' /\ Held' /\ Recorded'
  BY <1>1 DEF Cycle, Held, Recorded
<1>4. Scanned'
  BY <1>1 DEF Scanned, Since
<1> QED
  BY <1>2, <1>3, <1>4

LEMMA DropStep ==
  ASSUME BreadthInv, Drop  PROVE BreadthInv'
<1> USE DEF BreadthInv
<1>1. /\ tracked' = tracked \ {key} /\ peers' = [peers EXCEPT ![key] = NoPeers]
      /\ orphan' = (orphan \/ (ingest.stage = "store" /\ ingest.src = key))
      /\ latest' = [latest EXCEPT ![key] = [p \in Peers |-> IF p \in DOMAIN peers[key] THEN 0 ELSE @[p]]]
      /\ cutoff' = 0 /\ phase = "drop" /\ phase' = "visit"
      /\ UNCHANGED <<now, ingest, key, expired, todo, live, alerts, reported, told, lost, disturbed>>
  BY DEF Drop, cycle, edge
<1>2. key \in Sources /\ NoPeers \in Seen /\ DOMAIN NoPeers = {}
  BY SeenIs DEF TypeOK, NoPeers
<1>3. latest' \in [Sources -> [Peers -> 0 .. MaxTime]]
  BY <1>1, <1>2, DetectorAssumption DEF TypeOK
<1>4. orphan' \in BOOLEAN
  BY <1>1 DEF TypeOK
<1>5. TypeOK'
  BY <1>1, <1>2, <1>3, <1>4 DEF TypeOK, Labels
<1>6. Cycle' /\ Scanned'
  BY <1>1 DEF Cycle, Scanned
<1>7. Held'
  BY <1>1 DEF Held, Idle, TypeOK
<1>8. Recorded'
  <2> SUFFICES ASSUME NEW u \in Sources, NEW q \in DOMAIN peers'[u]
               PROVE  latest'[u][q] >= peers'[u][q]
    BY DEF Recorded
  <2>1. u # key /\ peers'[u] = peers[u]
    BY <1>1, <1>2 DEF TypeOK
  <2>2. latest'[u] = latest[u]
    BY <1>1, <2>1 DEF TypeOK
  <2> QED
    BY <2>1, <2>2 DEF Recorded
<1> QED
  BY <1>5, <1>6, <1>7, <1>8

LEMMA ReportStep ==
  ASSUME BreadthInv, Report  PROVE BreadthInv'
<1> USE DEF Report, window, capture, seen, BreadthInv
<1>1. TypeOK'
  BY DEF TypeOK, Labels
<1>2. Cycle' /\ Held' /\ Recorded' /\ Scanned'
  BY DEF Cycle, Held, Recorded, Scanned
<1> QED
  BY <1>1, <1>2

LEMMA ReturnStep ==
  ASSUME BreadthInv, Return  PROVE BreadthInv'
<1> USE DEF Return, window, capture, visit, seen, BreadthInv
<1>1. TypeOK'
  BY DEF TypeOK, Labels
<1>2. Cycle' /\ Held' /\ Recorded' /\ Scanned'
  BY DEF Cycle, Held, Recorded, Scanned
<1> QED
  BY <1>1, <1>2

LEMMA DispatchStep ==
  ASSUME BreadthInv, Dispatch  PROVE BreadthInv'
<1> USE DEF BreadthInv
<1>0. phase' \in Labels /\ told' \cup lost' \subseteq reported' /\ todo' \cup live' \cup alerts' \subseteq Sources
  BY DEF Dispatch, Abort, cycle, TypeOK, Labels, Cycle
<1>1. UNCHANGED <<now, tracked, peers, ingest, orphan, key, cutoff, expired, reported, latest, disturbed>>
  BY DEF Dispatch, window, capture, visit, seen
<1>2. TypeOK'
  BY <1>0, <1>1 DEF TypeOK
<1>3. Cycle'
  BY DEF Dispatch, Abort, cycle, visit, Cycle
<1>4. Held' /\ Recorded' /\ Scanned'
  BY <1>1 DEF Dispatch, Abort, Held, Recorded, Scanned
<1> QED
  BY <1>2, <1>3, <1>4

LEMMA BreadthStep == BreadthInv /\ [Next]_vars => BreadthInv'
<1> SUFFICES ASSUME BreadthInv, [Next]_vars PROVE BreadthInv'
  OBVIOUS
<1>1. CASE UNCHANGED vars
  <2> USE <1>1 DEF vars, window, capture, visit, cycle, edge, seen
  <2>1. TypeOK'
    BY DEF BreadthInv, TypeOK
  <2>2. Cycle' /\ Held' /\ Recorded' /\ Scanned'
    BY DEF BreadthInv, Cycle, Held, Recorded, Scanned, Since
  <2> QED
    BY <2>1, <2>2 DEF BreadthInv
<1>2. CASE Ingest
  BY <1>2, AdvanceStep, FetchStep, SetSeenStep DEF Ingest
<1>3. CASE Evaluate
  BY <1>3, BeginStep, VisitStep, ScanStep, ExpireStep, ExpiredStep, DropStep, ReportStep,
     ReturnStep, DispatchStep DEF Evaluate
<1> QED
  BY <1>1, <1>2, <1>3 DEF Next

THEOREM BreadthTyped == Spec => []TypeOK
<1>1. BreadthInv => TypeOK
  BY DEF BreadthInv
<1> QED
  BY BreadthInit, BreadthStep, <1>1, PTL DEF Spec

(* A source is reported only for peers that it did reach inside the window *)
(* that was looked at.                                                     *)
THEOREM ReportsAreEarned == Spec => AlertsAreEarned
<1> DEFINE Earned ==
      \A s \in alerts' \ alerts :
         Cardinality(Contacted(s, IF disturbed THEN cutoff - Late ELSE cutoff)) >= Threshold
<1>1. ASSUME BreadthInv, [Next]_vars  PROVE [Earned]_vars
  <2> SUFFICES ASSUME NEW s \in alerts' \ alerts
               PROVE  Cardinality(Contacted(s, Since)) >= Threshold
    BY DEF Since
  <2>1. Report
    BY <1>1 DEF Next, Ingest, Evaluate, Advance, Fetch, SetSeen, Begin, Visit, Scan, Abort, Expire, Expired,
                Drop, Return, Dispatch, vars, cycle
  <2>2. phase = "report" /\ s = key /\ ~ (Count(key) < Threshold)
    BY <2>1 DEF Report
  <2>3. key \in Sources /\ peers[key] \in Seen /\ cutoff \in Int /\ Late \in Nat
    BY <1>1, DetectorAssumption DEF BreadthInv, TypeOK
  <2>4. Since \in Int
    BY <2>3 DEF Since
  <2>5. DOMAIN peers[key] \subseteq Peers /\ \A p \in DOMAIN peers[key] : peers[key][p] \in Nat /\ peers[key][p] >= 1
    BY <2>3, SeenIs DEF Times
  <2>6. ASSUME NEW p \in DOMAIN peers[key]  PROVE p \in Contacted(key, Since)
    <3>1. peers[key][p] > Since /\ latest[key][p] >= peers[key][p]
      BY <1>1, <2>2, <2>3 DEF BreadthInv, Scanned, Recorded
    <3>2. latest[key][p] \in Nat
      BY <1>1, <2>3, <2>5 DEF BreadthInv, TypeOK
    <3>3. latest[key][p] > Since /\ latest[key][p] # 0
      BY <2>4, <2>5, <3>1, <3>2
    <3> QED
      BY <2>5, <3>3 DEF Contacted
  <2>7. IsFiniteSet(Contacted(key, Since))
    <3>1. Contacted(key, Since) \subseteq Peers
      BY DEF Contacted
    <3> QED
      BY <3>1, FS_Subset, DetectorAssumption
  <2>8. /\ Cardinality(DOMAIN peers[key]) <= Cardinality(Contacted(key, Since))
        /\ Cardinality(DOMAIN peers[key]) \in Nat /\ Cardinality(Contacted(key, Since)) \in Nat
    <3>1. DOMAIN peers[key] \subseteq Contacted(key, Since)
      BY <2>6
    <3> QED
      BY <3>1, <2>7, FS_Subset, FS_CardinalityType
  <2> QED
    BY <2>2, <2>8, DetectorAssumption DEF Count
<1> QED
  BY BreadthInit, BreadthStep, <1>1, PTL DEF Spec, AlertsAreEarned

----------------------------------------------------------------------------
(* Any numbers there are have a least one.                                 *)
LEMMA LeastIsThere ==
  ASSUME NEW S \in SUBSET Nat, S # {}
  PROVE  Min(S) \in S /\ \A y \in S : Min(S) <= y
<1> DEFINE Less == {pair \in Nat \X Nat : pair[1] < pair[2]}
<1>1. IsWellFoundedOn(Less, Nat)
  BY NatLessThanWellFounded, Zenon DEF OpToRel
<1> HIDE DEF Less
<1>2. PICK x \in S : \A y \in S : <<y, x>> \notin Less
  BY <1>1, WFMin
<1>3. ASSUME NEW y \in S  PROVE x <= y
  <2>1. <<y, x>> \in Nat \X Nat /\ <<y, x>>[1] = y /\ <<y, x>>[2] = x
    OBVIOUS
  <2> QED
    BY <1>2, <2>1 DEF Less
<1> QED
  BY <1>3 DEF Min

(* What popleft() leaves of a queue one of whose hits is young enough.     *)
LEMMA PrunedIs ==
  ASSUME NEW S, NEW queue \in Seq(S), NEW since,
         \E i \in DOMAIN queue : queue[i].time >= since
  PROVE  \E k \in DOMAIN queue :
            /\ Pruned(queue, since) = SubSeq(queue, k, Len(queue))
            /\ queue[k].time >= since
            /\ \A j \in 1 .. k - 1 : ~ (queue[j].time >= since)
<1> DEFINE Young == {i \in DOMAIN queue : queue[i].time >= since}
<1>1. DOMAIN queue = 1 .. Len(queue) /\ Len(queue) \in Nat
  BY LenProperties
<1>2. Young \in SUBSET Nat /\ Young # {}
  BY <1>1
<1>3. Min(Young) \in Young /\ \A y \in Young : Min(Young) <= y
  <2> HIDE DEF Young
  <2> QED
    BY <1>2, LeastIsThere
<1>4. Pruned(queue, since) = SubSeq(queue, Min(Young), Len(queue))
  BY DEF Pruned
<1>5. ASSUME NEW j \in 1 .. Min(Young) - 1  PROVE ~ (queue[j].time >= since)
  <2>1. Min(Young) \in 1 .. Len(queue)
    BY <1>1, <1>3
  <2>2. j \in DOMAIN queue /\ j < Min(Young) /\ j \in Nat
    <3> HIDE DEF Young
    <3> QED
      BY <1>1, <2>1
  <2>3. j \notin Young
    <3> HIDE DEF Young
    <3> QED
      BY <1>1, <1>3, <2>1, <2>2
  <2> QED
    BY <2>2, <2>3
<1> QED
  BY <1>3, <1>4, <1>5

(* The end of a sequence: of one that has grown, and of an end.            *)
LEMMA Ending ==
  ASSUME NEW S, NEW s \in Seq(S), NEW c \in 0 .. Len(s)
  PROVE  /\ SubSeq(s, c + 1, Len(s)) \in Seq(S)
         /\ Len(SubSeq(s, c + 1, Len(s))) = Len(s) - c
         /\ \A i \in 1 .. Len(s) - c : SubSeq(s, c + 1, Len(s))[i] = s[c + i]
<1>1. Len(s) \in Nat
  BY LenProperties
<1>2. \A i \in c + 1 .. Len(s) : s[i] \in S
  BY <1>1, ElementOfSeq
<1>3. c + 1 \in Int /\ Len(s) \in Int
  BY <1>1
<1>4. /\ SubSeq(s, c + 1, Len(s)) \in Seq(S)
      /\ Len(SubSeq(s, c + 1, Len(s))) = IF c + 1 <= Len(s) THEN Len(s) - (c + 1) + 1 ELSE 0
      /\ \A i \in 1 .. Len(s) - (c + 1) + 1 : SubSeq(s, c + 1, Len(s))[i] = s[c + 1 + i - 1]
  BY <1>2, <1>3, SubSeqProperties
<1> QED
  BY <1>1, <1>4

LEMMA EndingGrows ==
  ASSUME NEW S, NEW s \in Seq(S), NEW c \in 0 .. Len(s), NEW m \in S
  PROVE  Append(SubSeq(s, c + 1, Len(s)), m) = SubSeq(Append(s, m), c + 1, Len(s) + 1)
<1> DEFINE a == Append(SubSeq(s, c + 1, Len(s)), m)
           t == Append(s, m)
           b == SubSeq(t, c + 1, Len(t))
<1>1. Len(s) \in Nat
  BY LenProperties
<1>2. /\ t \in Seq(S) /\ Len(t) = Len(s) + 1
      /\ \A i \in 1 .. Len(s) : t[i] = s[i]
      /\ t[Len(s) + 1] = m
  BY AppendProperties
<1>3. /\ SubSeq(s, c + 1, Len(s)) \in Seq(S)
      /\ Len(SubSeq(s, c + 1, Len(s))) = Len(s) - c
      /\ \A i \in 1 .. Len(s) - c : SubSeq(s, c + 1, Len(s))[i] = s[c + i]
  BY Ending
<1>4. /\ a \in Seq(S) /\ Len(a) = Len(s) - c + 1
      /\ \A i \in 1 .. Len(s) - c : a[i] = s[c + i]
      /\ a[Len(s) - c + 1] = m
  BY <1>3, AppendProperties
<1>5. c \in 0 .. Len(t)
  BY <1>1, <1>2
<1>6. /\ b \in Seq(S) /\ Len(b) = Len(t) - c
      /\ \A i \in 1 .. Len(t) - c : b[i] = t[c + i]
  <2> HIDE DEF t
  <2> QED
    BY <1>2, <1>5, Ending
<1>7. ASSUME NEW i \in 1 .. Len(a)  PROVE a[i] = b[i]
  <2> HIDE DEF a, b, t
  <2>1. b[i] = t[c + i]
    BY <1>1, <1>2, <1>4, <1>6
  <2>2. CASE i <= Len(s) - c
    <3>1. a[i] = s[c + i] /\ t[c + i] = s[c + i]
      BY <1>1, <1>2, <1>4, <2>2
    <3> QED
      BY <2>1, <3>1
  <2>3. CASE i = Len(s) - c + 1
    <3>1. c + i = Len(s) + 1
      BY <1>1, <2>3
    <3> QED
      BY <1>2, <1>4, <2>1, <2>3, <3>1
  <2> QED
    BY <1>1, <1>4, <2>2, <2>3
<1>8. Len(a) = Len(b)
  <2> HIDE DEF a, b, t
  <2> QED
    BY <1>1, <1>2, <1>4, <1>6
<1>9. a = b
  <2> HIDE DEF a, b, t
  <2> QED
    BY <1>4, <1>6, <1>7, <1>8, SeqEqual
<1> QED
  BY <1>2, <1>9

LEMMA EndingOfEnding ==
  ASSUME NEW S, NEW s \in Seq(S), NEW c \in 0 .. Len(s), NEW k \in 1 .. Len(s) - c
  PROVE  SubSeq(SubSeq(s, c + 1, Len(s)), k, Len(s) - c) = SubSeq(s, c + k, Len(s))
<1>1. Len(s) \in Nat
  BY LenProperties
<1>2. /\ c + 1 \in 1 .. Len(s) /\ Len(s) \in 1 .. Len(s)
      /\ k \in 1 .. Len(s) - (c + 1) + 1 /\ Len(s) - c \in 1 .. Len(s) - (c + 1) + 1
      /\ c + 1 + k - 1 = c + k /\ c + 1 + (Len(s) - c) - 1 = Len(s)
  BY <1>1
<1> QED
  BY <1>2, SubSeqOfSubSeq

(* The keys of the dictionary: each once, so as many as it has places.     *)
LEMMA KeysCount ==
  ASSUME NEW S, NEW s \in Seq(S), IsInjective(s)
  PROVE  IsFiniteSet(ToSet(s)) /\ Cardinality(ToSet(s)) = Len(s)
<1>1. Len(s) \in Nat /\ DOMAIN s = 1 .. Len(s) /\ s \in [1 .. Len(s) -> S]
  BY LenProperties
<1>2. s \in [1 .. Len(s) -> ToSet(s)]
  BY <1>1 DEF ToSet
<1>3. s \in Bijection(1 .. Len(s), ToSet(s))
  BY <1>1, <1>2 DEF Bijection, Injection, Surjection, IsInjective, ToSet
<1>4. ExistsBijection(1 .. Len(s), ToSet(s))
  BY <1>3 DEF ExistsBijection
<1>5. IsFiniteSet(1 .. Len(s)) /\ Cardinality(1 .. Len(s)) = Len(s)
  BY <1>1, FS_Interval
<1> QED
  BY <1>4, <1>5, FS_Bijection

(* What a touch makes of the keys.                                         *)
LEMMA Touched ==
  ASSUME order \in Seq(Groups), IsInjective(order), NEW g \in Groups
  PROVE  /\ AtEnd(g) \in Seq(Groups) /\ IsInjective(AtEnd(g))
         /\ ToSet(AtEnd(g)) = ToSet(order) \cup {g}
         /\ g \in ToSet(order) => Len(AtEnd(g)) = Len(order)
         /\ g \notin ToSet(order) => /\ AtEnd(g) = Append(order, g)
                                     /\ Len(AtEnd(g)) = Len(order) + 1
<1>1. Len(order) \in Nat /\ DOMAIN order = 1 .. Len(order)
  BY LenProperties
<1>2. CASE g \notin ToSet(order)
  <2> DEFINE t == Append(order, g)
  <2>1. AtEnd(g) = t
    BY <1>2 DEF AtEnd
  <2>2. /\ t \in Seq(Groups) /\ Len(t) = Len(order) + 1
        /\ \A i \in 1 .. Len(order) : t[i] = order[i]
        /\ t[Len(order) + 1] = g
    BY AppendProperties
  <2>3. DOMAIN t = 1 .. Len(t)
    BY <2>2, LenProperties
  <2> HIDE DEF t
  <2>4. IsInjective(t)
    BY <1>1, <1>2, <2>2, <2>3 DEF IsInjective, ToSet
  <2>5. ToSet(t) = ToSet(order) \cup {g}
    BY <1>1, <2>2, <2>3 DEF ToSet
  <2> QED
    BY <1>2, <2>1, <2>2, <2>4, <2>5 DEF t
<1>3. CASE g \in ToSet(order)
  <2> DEFINE k == CHOOSE i \in DOMAIN order : order[i] = g
             n == Len(order)
             front == SubSeq(order, 1, k - 1)
             back == SubSeq(order, k + 1, n)
             rest == front \o back
             t == Append(rest, g)
  <2>1. k \in 1 .. n /\ order[k] = g
    BY <1>1, <1>3 DEF ToSet
  <2>2. AtEnd(g) = t
    BY <1>3 DEF AtEnd, RemoveAt
  <2> HIDE DEF k
  <2>3. \A i \in 1 .. n : order[i] \in Groups
    BY <1>1, ElementOfSeq
  <2>4. /\ front \in Seq(Groups) /\ Len(front) = k - 1
        /\ \A i \in 1 .. k - 1 : front[i] = order[i]
    <3>1. \A i \in 1 .. k - 1 : order[i] \in Groups
      BY <1>1, <2>1, <2>3
    <3>2. /\ SubSeq(order, 1, k - 1) \in Seq(Groups)
          /\ Len(SubSeq(order, 1, k - 1)) = IF 1 <= k - 1 THEN k - 1 - 1 + 1 ELSE 0
          /\ \A i \in 1 .. k - 1 - 1 + 1 : SubSeq(order, 1, k - 1)[i] = order[1 + i - 1]
      BY <1>1, <2>1, <3>1, SubSeqProperties
    <3> QED
      BY <1>1, <2>1, <3>2
  <2>5. /\ back \in Seq(Groups) /\ Len(back) = n - k
        /\ \A i \in 1 .. n - k : back[i] = order[k + i]
    <3>1. k \in 0 .. Len(order)
      BY <1>1, <2>1
    <3> QED
      BY <3>1, Ending
  <2> HIDE DEF front, back
  <2>6. /\ rest \in Seq(Groups) /\ Len(rest) = Len(front) + Len(back)
        /\ \A i \in 1 .. Len(front) + Len(back) : rest[i] =
              IF i <= Len(front) THEN front[i] ELSE back[i - Len(front)]
    BY <2>4, <2>5, ConcatProperties
  <2> HIDE DEF rest
  <2>n. n = Len(order) /\ n \in Nat /\ DOMAIN order = 1 .. n
    BY <1>1
  <2> HIDE DEF n
  <2>7. /\ t \in Seq(Groups) /\ Len(t) = Len(rest) + 1
        /\ \A i \in 1 .. Len(rest) : t[i] = rest[i]
        /\ t[Len(rest) + 1] = g
    BY <2>6, AppendProperties
  <2>8. DOMAIN t = 1 .. n /\ Len(t) = n
    <3> HIDE DEF t
    <3>1. Len(t) = n
      BY <2>n, <2>1, <2>4, <2>5, <2>6, <2>7
    <3>2. DOMAIN t = 1 .. Len(t)
      BY <2>7, LenProperties
    <3> QED
      BY <3>1, <3>2
  <2> HIDE DEF t
  <2> DEFINE At(i) == IF i < k THEN i ELSE IF i < n THEN i + 1 ELSE k
  <2>9. ASSUME NEW i \in 1 .. n
        PROVE  At(i) \in 1 .. n /\ t[i] = order[At(i)]
    <3>1. CASE i < k
      <4>1. i \in 1 .. Len(front) /\ i \in 1 .. Len(front) + Len(back) /\ i \in 1 .. Len(rest)
        BY <2>n, <2>1, <2>4, <2>5, <2>6, <3>1
      <4>2. t[i] = front[i] /\ front[i] = order[i]
        BY <2>4, <2>6, <2>7, <4>1
      <4> QED
        BY <3>1, <4>2
    <3>2. CASE i >= k /\ i < n
      <4>1. i - (k - 1) \in 1 .. n - k /\ i \in 1 .. Len(rest) /\ ~ (i <= k - 1)
        BY <2>n, <2>1, <2>4, <2>5, <2>6, <3>2
      <4>2. t[i] = back[i - (k - 1)]
        BY <2>4, <2>5, <2>6, <2>7, <4>1
      <4>3. k + (i - (k - 1)) = i + 1
        BY <2>1
      <4>4. back[i - (k - 1)] = order[i + 1]
        BY <2>5, <4>1, <4>3
      <4> QED
        BY <2>n, <2>1, <3>2, <4>2, <4>4
    <3>3. CASE i = n
      <4>1. Len(rest) + 1 = n
        BY <2>n, <2>1, <2>4, <2>5, <2>6
      <4> QED
        BY <2>n, <2>1, <2>7, <3>3, <4>1
    <3> QED
      BY <2>n, <2>1, <3>1, <3>2, <3>3
  <2>10. IsInjective(t)
    <3> SUFFICES ASSUME NEW i \in 1 .. n, NEW j \in 1 .. n, t[i] = t[j]  PROVE i = j
      BY <2>8 DEF IsInjective
    <3>1. At(i) = At(j)
      <4> HIDE DEF At
      <4> QED
        BY <2>n, <2>9 DEF IsInjective
    <3> QED
      BY <2>n, <2>1, <3>1
  <2>11. ASSUME NEW i \in 1 .. n  PROVE \E j \in 1 .. n : order[i] = t[j]
    <3>1. \E j \in 1 .. n : i = At(j)
      <4>1. CASE i < k
        BY <2>n, <2>1, <4>1
      <4>2. CASE i = k
        BY <2>n, <2>1, <4>2
      <4>3. CASE i > k
        <5>1. i - 1 \in 1 .. n /\ ~ (i - 1 < k) /\ i - 1 < n /\ i - 1 + 1 = i
          BY <2>n, <2>1, <4>3
        <5>2. At(i - 1) = i
          BY <5>1
        <5> QED
          BY <5>1, <5>2
      <4> QED
        BY <2>n, <2>1, <4>1, <4>2, <4>3
    <3> HIDE DEF At
    <3> QED
      BY <2>9, <3>1
  <2>12. ToSet(t) = ToSet(order)
    <3> HIDE DEF At
    <3>1. \A i \in 1 .. n : \E j \in 1 .. n : t[i] = order[j]
      BY <2>9
    <3>2. \A i \in 1 .. n : \E j \in 1 .. n : order[i] = t[j]
      BY <2>11
    <3>3. ToSet(t) = {t[i] : i \in 1 .. n} /\ ToSet(order) = {order[i] : i \in 1 .. n}
      BY <2>n, <2>8 DEF ToSet
    <3> QED
      BY <3>1, <3>2, <3>3
  <2> QED
    BY <1>3, <2>n, <2>2, <2>7, <2>8, <2>10, <2>12 DEF t
<1> QED
  BY <1>2, <1>3

(* What popitem() leaves.                                                  *)
LEMMA Popped ==
  ASSUME NEW S, NEW s \in Seq(S), s # <<>>, IsInjective(s)
  PROVE  /\ Tail(s) \in Seq(S) /\ IsInjective(Tail(s))
         /\ Len(Tail(s)) = Len(s) - 1
         /\ Head(s) \in ToSet(s) /\ ToSet(Tail(s)) = ToSet(s) \ {Head(s)}
<1>1. /\ Len(s) \in Nat \ {0} /\ DOMAIN s = 1 .. Len(s)
  BY EmptySeq, LenProperties
<1>2. /\ Tail(s) \in Seq(S) /\ Len(Tail(s)) = Len(s) - 1
      /\ \A i \in 1 .. Len(s) - 1 : Tail(s)[i] = s[i + 1]
      /\ Head(s) = s[1]
  BY <1>1, HeadTailProperties
<1>3. DOMAIN Tail(s) = 1 .. Len(s) - 1
  BY <1>2, LenProperties
<1>4. IsInjective(Tail(s))
  <2> SUFFICES ASSUME NEW i \in 1 .. Len(s) - 1, NEW j \in 1 .. Len(s) - 1,
                      Tail(s)[i] = Tail(s)[j]
               PROVE  i = j
    BY <1>3 DEF IsInjective
  <2>1. i + 1 \in DOMAIN s /\ j + 1 \in DOMAIN s /\ s[i + 1] = s[j + 1]
    BY <1>1, <1>2
  <2> QED
    BY <2>1 DEF IsInjective
<1>5. ToSet(Tail(s)) \subseteq ToSet(s) \ {Head(s)}
  <2> SUFFICES ASSUME NEW i \in 1 .. Len(s) - 1
               PROVE  Tail(s)[i] \in ToSet(s) /\ Tail(s)[i] # Head(s)
    BY <1>3 DEF ToSet
  <2>1. i + 1 \in DOMAIN s /\ 1 \in DOMAIN s /\ i + 1 # 1
    BY <1>1
  <2> QED
    BY <1>2, <2>1 DEF IsInjective, ToSet
<1>6. ToSet(s) \ {Head(s)} \subseteq ToSet(Tail(s))
  <2> SUFFICES ASSUME NEW i \in 1 .. Len(s), i # 1  PROVE s[i] \in ToSet(Tail(s))
    BY <1>1, <1>2 DEF ToSet
  <2>1. i - 1 \in 1 .. Len(s) - 1 /\ (i - 1) + 1 = i
    BY <1>1
  <2>2. Tail(s)[i - 1] = s[i]
    BY <1>2, <2>1
  <2> QED
    BY <1>3, <2>1, <2>2 DEF ToSet
<1>7. Head(s) \in ToSet(s)
  BY <1>1, <1>2 DEF ToSet
<1> QED
  BY <1>2, <1>4, <1>5, <1>6, <1>7

(* RuleEpisodes counts with the same operator.                             *)
LEMMA CountedAlike == ASSUME NEW S  PROVE Episodes!Cardinality(S) = Cardinality(S)
BY Zenon DEF Episodes!Cardinality, Cardinality

(* Matches come in order, the last by `time`; the first c are before the   *)
(* window of the last; those from k on, and only those, reach `since`.     *)
Sorted(entries, time) ==
    /\ \A i, j \in DOMAIN entries : i <= j => entries[i].time <= entries[j].time
    /\ \A i \in DOMAIN entries : entries[i].time <= time

Aged(entries, c, width) ==
    \A j \in 1 .. c : entries[j].time < entries[Len(entries)].time - width

Parted(entries, k, since) ==
    /\ \A j \in 1 .. k - 1 : ~ (entries[j].time >= since)
    /\ \A j \in k .. Len(entries) : entries[j].time >= since

(* The queue has the matches in the window of the newest, m.               *)
Windowed(entries, queue, m, width) ==
    \E k \in 1 .. Len(entries) :
      /\ queue = SubSeq(entries, k, Len(entries))
      /\ Parted(entries, k, m.time - width) /\ Sorted(entries, m.time)

(* What the threshold is compared with is the same in both: the matches in *)
(* the window are those the queue ends with.                               *)
LEMMA MeasuredAlike ==
  ASSUME NEW entries \in Seq(Packet), NEW time, NEW k \in 1 .. Len(entries),
         Parted(entries, k, time - rule.window)
  PROVE  Episodes!Measure(Episodes!Recent(entries, time))
           = SeriesCount(SubSeq(entries, k, Len(entries)))
<1> DEFINE n == Len(entries)
           queue == SubSeq(entries, k, n)
           entry(i) == [place |-> i, value |-> entries[i].value]
           recent == {entry(i) : i \in k .. n}
<1>1. n \in Nat /\ DOMAIN entries = 1 .. n
  BY LenProperties
<1>2. {j \in DOMAIN entries : entries[j].time >= time - rule.window} = k .. n
  <2> HIDE DEF n
  <2>1. \A j \in 1 .. n : j \in 1 .. k - 1 \/ j \in k .. n
    BY <1>1
  <2>2. \A j \in k .. n : j \in 1 .. n
    BY <1>1
  <2>3. /\ \A j \in 1 .. k - 1 : ~ (entries[j].time >= time - rule.window)
        /\ \A j \in k .. n : entries[j].time >= time - rule.window
    BY DEF n, Parted
  <2> QED
    BY <1>1, <2>1, <2>2, <2>3
<1>3. Episodes!Recent(entries, time) = recent
  BY <1>2 DEF Episodes!Recent
<1>4. /\ queue \in Seq(Packet) /\ Len(queue) = n - k + 1
      /\ \A i \in 1 .. n - k + 1 : queue[i] = entries[k + i - 1]
  <2>1. k - 1 \in 0 .. Len(entries) /\ k - 1 + 1 = k
    BY <1>1
  <2>2. /\ SubSeq(entries, k - 1 + 1, n) \in Seq(Packet)
        /\ Len(SubSeq(entries, k - 1 + 1, n)) = n - (k - 1)
        /\ \A i \in 1 .. n - (k - 1) : SubSeq(entries, k - 1 + 1, n)[i] = entries[k - 1 + i]
    BY <2>1, Ending
  <2> HIDE DEF n
  <2>3. SubSeq(entries, k - 1 + 1, n) = queue
    BY <2>1
  <2>4. n - (k - 1) = n - k + 1
    BY <1>1
  <2>5. \A i \in 1 .. n - k + 1 : k - 1 + i = k + i - 1
    BY <1>1
  <2> HIDE DEF queue
  <2> QED
    BY <2>2, <2>3, <2>4, <2>5
<1>5. DOMAIN queue = 1 .. n - k + 1
  <2> HIDE DEF queue
  <2> QED
    BY <1>4, LenProperties
<1>6. Cardinality(recent) = Len(queue)
  <2> DEFINE f == [i \in k .. n |-> entry(i)]
  <2>1. f \in Bijection(k .. n, recent)
    BY DEF Bijection, Injection, Surjection, IsInjective
  <2>2. ExistsBijection(k .. n, recent)
    BY <2>1 DEF ExistsBijection
  <2>3. IsFiniteSet(k .. n) /\ Cardinality(k .. n) = n - k + 1
    <3> HIDE DEF n
    <3>1. k \in Int /\ n \in Int /\ ~ (k > n)
      BY <1>1 DEF n
    <3> QED
      BY <3>1, FS_Interval
  <2>4. Cardinality(recent) = Cardinality(k .. n)
    BY <2>2, <2>3, FS_Bijection
  <2> QED
    BY <1>4, <2>3, <2>4
<1>7. {e.value : e \in recent} = {queue[i].value : i \in DOMAIN queue}
  <2>1. {e.value : e \in recent} = {entries[i].value : i \in k .. n}
    <3>1. \A i \in k .. n : entry(i).value = entries[i].value
      OBVIOUS
    <3> HIDE DEF entry
    <3>2. {e.value : e \in recent} = {entry(i).value : i \in k .. n}
      BY Zenon
    <3> QED
      BY <3>1, <3>2
  <2> HIDE DEF queue, n
  <2>2. ASSUME NEW i \in k .. n
        PROVE  i - k + 1 \in DOMAIN queue /\ queue[i - k + 1] = entries[i]
    <3>1. i - k + 1 \in 1 .. n - k + 1 /\ k + (i - k + 1) - 1 = i
      BY <1>1
    <3> QED
      BY <1>4, <1>5, <3>1
  <2>3. ASSUME NEW i \in DOMAIN queue
        PROVE  k + i - 1 \in k .. n /\ queue[i] = entries[k + i - 1]
    BY <1>1, <1>4, <1>5
  <2>4. \A i \in k .. n : \E j \in DOMAIN queue : queue[j].value = entries[i].value
    BY <2>2
  <2>5. \A i \in DOMAIN queue : \E j \in k .. n : entries[j].value = queue[i].value
    BY <2>3
  <2>6. {entries[i].value : i \in k .. n} = {queue[i].value : i \in DOMAIN queue}
    BY <2>4, <2>5
  <2> QED
    BY <2>1, <2>6
<1>8. Episodes!Measure(recent) = SeriesCount(queue)
  <2> HIDE DEF recent, queue
  <2> QED
    BY <1>6, <1>7, CountedAlike DEF Episodes!Measure, SeriesCount
<1> QED
  BY <1>3, <1>8

(* The hits of a group are its latest matches, what popleft() has dropped  *)
(* of them was before the window of the last one, and they are in order.   *)
Retained(g) ==
    \E c \in 0 .. Len(log[g]) :
      /\ hits[g] = SubSeq(log[g], c + 1, Len(log[g]))
      /\ Aged(log[g], c, rule.window)

SeriesInv == SeriesTypeOK /\ \A g \in Groups : Retained(g) /\ Sorted(log[g], newest)

(* A group has hits when it has matches.                                   *)
LEMMA HitsAreLogged ==
  ASSUME SeriesInv, NEW g \in Groups
  PROVE  hits[g] = <<>> <=> log[g] = <<>>
<1>1. PICK c \in 0 .. Len(log[g]) :
        /\ hits[g] = SubSeq(log[g], c + 1, Len(log[g]))
        /\ Aged(log[g], c, rule.window)
  BY DEF SeriesInv, Retained
<1>2. log[g] \in Seq(Packet) /\ hits[g] \in Seq(Packet) /\ rule.window \in Nat
  BY RuleAssumption DEF SeriesInv, SeriesTypeOK
<1>3. Len(log[g]) \in Nat /\ (Len(log[g]) = 0 <=> log[g] = <<>>) /\ (Len(hits[g]) = 0 <=> hits[g] = <<>>)
  BY <1>2, EmptySeq, LenProperties
<1>4. Len(hits[g]) = Len(log[g]) - c
  BY <1>1, <1>2, Ending
<1>5. Len(log[g]) > 0 => c # Len(log[g])
  <2> SUFFICES ASSUME Len(log[g]) > 0, c = Len(log[g])  PROVE FALSE
    OBVIOUS
  <2>1. Len(log[g]) \in 1 .. c
    BY <1>3
  <2>2. log[g][Len(log[g])].time < log[g][Len(log[g])].time - rule.window
    BY <1>1, <2>1 DEF Aged
  <2>3. log[g][Len(log[g])] \in Packet
    BY <1>2, <1>3, <2>1, ElementOfSeq
  <2>4. log[g][Len(log[g])].time \in Nat
    BY <2>3, RuleAssumption DEF Packet
  <2> QED
    BY <1>2, <2>2, <2>4
<1> QED
  BY <1>3, <1>4, <1>5

LEMMA Earlier ==
  ASSUME NEW a \in Int, NEW b \in Int, NEW c \in Int, NEW d \in Int
  PROVE  /\ a < b - d /\ b <= c => a < c - d
         /\ a < b => ~ (a >= b)
         /\ a >= b /\ a <= c => c >= b
OBVIOUS

(* The queue a match leaves, seen from the log it is added to.             *)
LEMMA QueueEnds ==
  ASSUME NEW old \in Seq(Packet), NEW c \in 0 .. Len(old), NEW held,
         held = SubSeq(old, c + 1, Len(old)),
         NEW width \in Nat, NEW m \in Packet,
         Aged(old, c, width), Sorted(old, m.time)
  PROVE  Windowed(Append(old, m), Pruned(Append(held, m), m.time - width), m, width)
<1> SUFFICES ASSUME NEW new, new = Append(old, m), NEW end, end = Append(held, m),
                    NEW since, since = m.time - width
             PROVE  \E k \in 1 .. Len(new) :
                      /\ Pruned(end, since) = SubSeq(new, k, Len(new))
                      /\ Parted(new, k, since) /\ Sorted(new, m.time)
  BY DEF Windowed
<1>2. m.time \in Nat /\ since \in Int
  BY RuleAssumption DEF Packet
<1>3. Len(old) \in Nat /\ DOMAIN old = 1 .. Len(old)
  BY LenProperties
<1>4. /\ new \in Seq(Packet) /\ Len(new) = Len(old) + 1
      /\ \A i \in 1 .. Len(old) : new[i] = old[i]
      /\ new[Len(old) + 1] = m
  BY AppendProperties
<1>5. end = SubSeq(new, c + 1, Len(new))
  BY <1>4, EndingGrows
<1>6. c \in 0 .. Len(new)
  BY <1>3, <1>4
<1>7. /\ end \in Seq(Packet) /\ Len(end) = Len(new) - c
      /\ \A i \in 1 .. Len(new) - c : end[i] = new[c + i]
  <2>1. /\ SubSeq(new, c + 1, Len(new)) \in Seq(Packet)
        /\ Len(SubSeq(new, c + 1, Len(new))) = Len(new) - c
        /\ \A i \in 1 .. Len(new) - c : SubSeq(new, c + 1, Len(new))[i] = new[c + i]
    BY <1>4, <1>6, Ending
  <2> QED
    BY <1>5, <2>1
<1>8. \A i \in 1 .. Len(new) : new[i].time \in Int
  <2>1. \A i \in 1 .. Len(new) : new[i] \in Packet
    BY <1>4, ElementOfSeq
  <2> QED
    BY <2>1, RuleAssumption DEF Packet
<1>9. \A i \in 1 .. Len(new) : new[i].time <= m.time
  <2>3. \A i \in 1 .. Len(old) : old[i].time <= m.time
    BY <1>3 DEF Sorted
  <2> QED
    BY <1>2, <1>3, <1>4, <2>3
<1>10. \A i, j \in 1 .. Len(new) : i <= j => new[i].time <= new[j].time
  <2>1. \A i, j \in 1 .. Len(old) : i <= j => old[i].time <= old[j].time
    BY <1>3 DEF Sorted
  <2>2. ASSUME NEW i \in 1 .. Len(new), NEW j \in 1 .. Len(new), i <= j
        PROVE  new[i].time <= new[j].time
    <3>1. CASE j = Len(old) + 1
      BY <1>4, <1>9, <3>1
    <3>2. CASE j # Len(old) + 1
      <4>1. i \in 1 .. Len(old) /\ j \in 1 .. Len(old)
        BY <1>3, <1>4, <2>2, <3>2
      <4> QED
        BY <1>4, <2>1, <2>2, <4>1
    <3> QED
      BY <3>1, <3>2
  <2> QED
    BY <2>2
<1>11. \A j \in 1 .. c : new[j].time < since
  <2> SUFFICES ASSUME NEW j \in 1 .. c  PROVE new[j].time < since
    OBVIOUS
  <2>1. j \in 1 .. Len(old) /\ Len(old) \in 1 .. Len(old) /\ j \in 1 .. Len(new)
        /\ Len(old) \in 1 .. Len(new)
    BY <1>3, <1>4
  <2>2. new[j].time < new[Len(old)].time - width
    BY <1>4, <2>1 DEF Aged
  <2>3. new[Len(old)].time <= m.time /\ new[j].time \in Int /\ new[Len(old)].time \in Int
    BY <1>8, <1>9, <2>1
  <2>4. m.time \in Int /\ width \in Int
    BY <1>2
  <2> QED
    BY <2>2, <2>3, <2>4, Earlier
<1>12. DOMAIN end = 1 .. Len(new) - c
  <2> QED
    BY <1>7, LenProperties
<1>13. \E i \in DOMAIN end : end[i].time >= since
  <2>1. Len(new) - c \in 1 .. Len(new) - c /\ c + (Len(new) - c) = Len(old) + 1
    BY <1>3, <1>4
  <2>2. end[Len(new) - c] = m
    BY <1>4, <1>7, <2>1
  <2>3. m.time >= since
    BY <1>2
  <2> QED
    BY <1>12, <2>1, <2>2, <2>3
<1>14. PICK k \in DOMAIN end :
         /\ Pruned(end, since) = SubSeq(end, k, Len(end))
         /\ end[k].time >= since
         /\ \A j \in 1 .. k - 1 : ~ (end[j].time >= since)
  <2> QED
    BY <1>7, <1>13, PrunedIs
<1>15. c + k \in 1 .. Len(new) /\ k \in 1 .. Len(new) - c
  <2> QED
    BY <1>3, <1>4, <1>12
<1>16. SubSeq(end, k, Len(end)) = SubSeq(new, c + k, Len(new))
  BY <1>4, <1>5, <1>6, <1>7, <1>15, EndingOfEnding
<1>p. PICK p \in 1 .. Len(new) : p = c + k
  BY <1>15
<1>17. \A j \in 1 .. p - 1 : ~ (new[j].time >= since)
  <2> SUFFICES ASSUME NEW j \in 1 .. p - 1  PROVE ~ (new[j].time >= since)
    OBVIOUS
  <2>1. CASE j <= c
    <3>1. j \in 1 .. c
      BY <1>3, <1>15, <2>1
    <3> QED
      <4>1. new[j].time < since
        BY <1>11, <3>1
      <4>2. new[j].time \in Int
        BY <1>3, <1>4, <1>8, <3>1
      <4> QED
        BY <1>2, <4>1, <4>2, Earlier
  <2>2. CASE j > c
    <3>1. j - c \in 1 .. k - 1 /\ j - c \in 1 .. Len(new) - c /\ c + (j - c) = j
          /\ j \in 1 .. Len(new)
      BY <1>3, <1>4, <1>15, <1>p, <2>2
    <3>2. ~ (new[j].time >= since)
      BY <1>7, <1>14, <3>1
    <3> QED
      BY <3>2
  <2>3. j \in Int /\ c \in Int
    BY <1>3, <1>15
  <2> QED
    BY <2>1, <2>2, <2>3
<1>18. \A j \in p .. Len(new) : new[j].time >= since
  <2> SUFFICES ASSUME NEW j \in p .. Len(new)  PROVE new[j].time >= since
    OBVIOUS
  <2>1. j \in 1 .. Len(new) /\ c + k <= j
    BY <1>4, <1>15, <1>p
  <2>2. new[c + k].time >= since
    BY <1>7, <1>14, <1>15
  <2>3. new[c + k].time <= new[j].time /\ new[c + k].time \in Int /\ new[j].time \in Int
    BY <1>8, <1>10, <1>15, <2>1
  <2>4. since \in Int
    BY <1>2
  <2> QED
    BY <2>2, <2>3, <2>4, Earlier
<1> QED
  <2>1. Pruned(end, since) = SubSeq(new, p, Len(new))
    BY <1>14, <1>16, <1>p
  <2>2. Parted(new, p, since)
    BY <1>17, <1>18 DEF Parted
  <2>3. Sorted(new, m.time)
    <3>1. DOMAIN new = 1 .. Len(new)
      BY <1>4, LenProperties
    <3> QED
      BY <1>9, <1>10, <3>1 DEF Sorted
  <2> QED
    BY <2>1, <2>2, <2>3

LEMMA QueueIs ==
  ASSUME SeriesInv, NEW g \in Groups, NEW m \in Packet, m.time >= newest
  PROVE  Windowed(Append(log[g], m), Pruned(Append(hits[g], m), m.time - rule.window),
                  m, rule.window)
<1>1. PICK c \in 0 .. Len(log[g]) :
        /\ hits[g] = SubSeq(log[g], c + 1, Len(log[g]))
        /\ Aged(log[g], c, rule.window)
  BY DEF SeriesInv, Retained
<1>2. log[g] \in Seq(Packet) /\ rule.window \in Nat
  BY RuleAssumption DEF SeriesInv, SeriesTypeOK
<1>3. newest \in Nat /\ m.time \in Nat
  BY RuleAssumption DEF SeriesInv, SeriesTypeOK, Packet
<1>4. \A i, j \in DOMAIN log[g] : i <= j => log[g][i].time <= log[g][j].time
  BY DEF SeriesInv, Sorted
<1>5. \A i \in DOMAIN log[g] : log[g][i].time <= m.time
  <2> SUFFICES ASSUME NEW i \in DOMAIN log[g]  PROVE log[g][i].time <= m.time
    OBVIOUS
  <2>1. log[g][i].time <= newest
    BY DEF SeriesInv, Sorted
  <2>2. log[g][i] \in Packet
    BY <1>2, LenProperties, ElementOfSeq
  <2>3. log[g][i].time \in Nat
    BY <2>2, RuleAssumption DEF Packet
  <2> QED
    BY <1>3, <2>1, <2>3
<1>6. Sorted(log[g], m.time)
  BY <1>4, <1>5 DEF Sorted
<1> QED
  BY <1>1, <1>2, <1>6, QueueEnds

(* The keys after a match: those that were there and g, but for what is    *)
(* evicted when there is one too many.                                     *)
Reordered(g) == IF Evicted(g) = {} THEN AtEnd(g) ELSE Tail(AtEnd(g))

LEMMA Evicting ==
  ASSUME SeriesTypeOK, NEW g \in Groups
  PROVE  /\ Reordered(g) \in Seq(Groups) /\ IsInjective(Reordered(g))
         /\ Len(Reordered(g)) <= MaxSeries
         /\ ToSet(Reordered(g)) = (ToSet(order) \cup {g}) \ Evicted(g)
         /\ g \notin Evicted(g)
         /\ \/ Evicted(g) = {}
            \/ /\ g \notin ToSet(order) /\ Len(order) + 1 > MaxSeries
               /\ \E k \in ToSet(order) : Evicted(g) = {k}
<1> DEFINE t == AtEnd(g)
<1>1. order \in Seq(Groups) /\ IsInjective(order) /\ Len(order) <= MaxSeries
  BY DEF SeriesTypeOK
<1>2. /\ t \in Seq(Groups) /\ IsInjective(t) /\ ToSet(t) = ToSet(order) \cup {g}
      /\ g \in ToSet(order) => Len(t) = Len(order)
      /\ g \notin ToSet(order) => t = Append(order, g) /\ Len(t) = Len(order) + 1
  BY <1>1, Touched
<1>3. Len(order) \in Nat /\ Len(t) \in Nat /\ MaxSeries \in Nat \ {0}
  BY <1>1, <1>2, LenProperties, RuleAssumption
<1>4. Evicted(g) = IF Len(t) > MaxSeries THEN {Head(t)} ELSE {}
  BY DEF Evicted
<1> HIDE DEF t
<1>5. CASE Len(t) <= MaxSeries
  <2>1. Evicted(g) = {} /\ Reordered(g) = t
    BY <1>3, <1>4, <1>5 DEF Reordered, t
  <2> QED
    BY <1>2, <1>5, <2>1
<1>6. CASE Len(t) > MaxSeries
  <2>1. g \notin ToSet(order) /\ t = Append(order, g) /\ Len(order) = MaxSeries
        /\ Len(t) = MaxSeries + 1
    BY <1>1, <1>2, <1>3, <1>6
  <2>2. Evicted(g) = {Head(t)} /\ Reordered(g) = Tail(t)
    BY <1>4, <1>6 DEF Reordered, t
  <2>3. t # <<>>
    BY <1>3, <1>6, EmptySeq
  <2>4. /\ Tail(t) \in Seq(Groups) /\ IsInjective(Tail(t)) /\ Len(Tail(t)) = Len(t) - 1
        /\ Head(t) \in ToSet(t) /\ ToSet(Tail(t)) = ToSet(t) \ {Head(t)}
    BY <1>2, <2>3, Popped
  <2>5. Head(t) \in ToSet(order)
    <3>1. order # <<>>
      BY <1>3, <2>1, EmptySeq
    <3>2. Head(t) = Head(order)
      BY <1>1, <2>1, <3>1, HeadTailAppend
    <3> QED
      BY <1>1, <3>1, <3>2, Popped
  <2>6. Len(Tail(t)) <= MaxSeries /\ Len(order) + 1 > MaxSeries
    BY <1>3, <2>1, <2>4
  <2> QED
    BY <1>2, <2>1, <2>2, <2>4, <2>5, <2>6
<1> QED
  BY <1>3, <1>5, <1>6

(* What a match does to the state, the keys and the queue given.           *)
LEMMA MatchIs ==
  ASSUME NEW g \in Groups, NEW m \in Packet, Match(g, m), SeriesInv, Lag = 0
  PROVE  \E queue \in Seq(Packet) :
           /\ queue # <<>> /\ Windowed(Append(log[g], m), queue, m, rule.window)
           /\ Len(log[g]) < MaxLog /\ m.time >= newest - Lag
           /\ newest' = m.time /\ newest <= m.time
           /\ order' = Reordered(g)
           /\ hits' = [k \in Groups |-> IF k = g THEN queue
                                        ELSE IF k \in Evicted(g) THEN <<>> ELSE hits[k]]
           /\ ShouldFire(g, queue, alerted \ Evicted(g))
           /\ log' = [k \in Groups |-> IF k = g THEN Append(log[k], m)
                                       ELSE IF k \in Evicted(g) THEN <<>> ELSE log[k]]
           /\ rule' = rule
<1> DEFINE queue == Pruned(Append(hits[g], m), m.time - rule.window)
           new == Append(log[g], m)
<1>1. m.time \in Nat /\ newest \in Nat
  BY RuleAssumption DEF SeriesInv, SeriesTypeOK, Packet
<1>2. Lag = 0 /\ m.time >= newest - Lag
  BY DEF Match
<1>3. m.time >= newest
  BY <1>1, <1>2
<1>4. newest' = m.time /\ newest <= m.time
  BY <1>1, <1>3 DEF Match
<1>5. Windowed(new, queue, m, rule.window)
  BY <1>3, QueueIs
<1>6. new \in Seq(Packet)
  BY AppendProperties DEF SeriesInv, SeriesTypeOK
<1>7. queue \in Seq(Packet) /\ queue # <<>>
  <2> HIDE DEF queue, new
  <2>1. PICK k \in 1 .. Len(new) : queue = SubSeq(new, k, Len(new))
    BY <1>5 DEF Windowed
  <2>2. Len(new) \in Nat
    BY <1>6, LenProperties
  <2>3. k - 1 \in 0 .. Len(new) /\ k - 1 + 1 = k /\ Len(new) - (k - 1) > 0
    BY <2>2
  <2>4. queue \in Seq(Packet) /\ Len(queue) = Len(new) - (k - 1)
    BY <1>6, <2>1, <2>3, Ending
  <2> QED
    BY <2>3, <2>4, EmptySeq
<1>8. /\ Len(log[g]) < MaxLog
      /\ order' = Reordered(g)
      /\ hits' = [k \in Groups |-> IF k = g THEN queue
                                   ELSE IF k \in Evicted(g) THEN <<>> ELSE hits[k]]
      /\ ShouldFire(g, queue, alerted \ Evicted(g))
      /\ log' = [k \in Groups |-> IF k = g THEN Append(log[k], m)
                                  ELSE IF k \in Evicted(g) THEN <<>> ELSE log[k]]
      /\ rule' = rule
  BY DEF Match, Reordered
<1> HIDE DEF queue
<1> QED
  BY <1>2, <1>4, <1>5, <1>7, <1>8

LEMMA SeriesStart == SeriesInit => SeriesInv
<1> SUFFICES ASSUME SeriesInit  PROVE SeriesInv
  OBVIOUS
<1>1. order = <<>> /\ order \in Seq(Groups) /\ IsInjective(order) /\ ToSet(order) = {} /\ Len(order) = 0
  BY EmptySeq DEF SeriesInit, IsInjective, ToSet
<1>2. <<>> \in Seq(Packet) /\ Len(<<>>) = 0
  BY EmptySeq
<1>3. SeriesTypeOK
  BY <1>1, <1>2, RuleAssumption DEF SeriesInit, SeriesTypeOK
<1>4. ASSUME NEW g \in Groups  PROVE Retained(g) /\ Sorted(log[g], newest)
  <2>1. log[g] = <<>> /\ hits[g] = <<>>
    BY DEF SeriesInit
  <2>2. 0 \in 0 .. Len(log[g]) /\ SubSeq(log[g], 0 + 1, Len(log[g])) = <<>>
    BY <1>2, <2>1, SubSeqEmpty
  <2>3. Aged(log[g], 0, rule.window)
    BY DEF Aged
  <2>4. Sorted(log[g], newest)
    BY <2>1 DEF Sorted
  <2> QED
    BY <2>1, <2>2, <2>3, <2>4 DEF Retained
<1> QED
  BY <1>3, <1>4 DEF SeriesInv

LEMMA MatchKeeps ==
  ASSUME SeriesInv, Lag = 0, NEW g \in Groups, NEW m \in Packet, Match(g, m)
  PROVE  SeriesInv'
<1>1. PICK queue \in Seq(Packet) :
         /\ queue # <<>> /\ Windowed(Append(log[g], m), queue, m, rule.window)
         /\ Len(log[g]) < MaxLog /\ m.time >= newest - Lag
         /\ newest' = m.time /\ newest <= m.time
         /\ order' = Reordered(g)
         /\ hits' = [k \in Groups |-> IF k = g THEN queue
                                      ELSE IF k \in Evicted(g) THEN <<>> ELSE hits[k]]
         /\ ShouldFire(g, queue, alerted \ Evicted(g))
         /\ log' = [k \in Groups |-> IF k = g THEN Append(log[k], m)
                                     ELSE IF k \in Evicted(g) THEN <<>> ELSE log[k]]
         /\ rule' = rule
  BY MatchIs
<1>2. SeriesTypeOK
  BY DEF SeriesInv
<1>3. /\ Reordered(g) \in Seq(Groups) /\ IsInjective(Reordered(g))
      /\ Len(Reordered(g)) <= MaxSeries
      /\ ToSet(Reordered(g)) = (ToSet(order) \cup {g}) \ Evicted(g)
      /\ g \notin Evicted(g)
  BY <1>2, Evicting
<1>4. Append(log[g], m) \in Seq(Packet)
  BY <1>2, AppendProperties DEF SeriesTypeOK
<1>5. <<>> \in Seq(Packet)
  BY EmptySeq
<1>6. newest' \in 1 .. LastTime /\ rule' \in Rules
  BY <1>1, <1>2 DEF SeriesTypeOK, Packet
<1>7. hits' \in [Groups -> Seq(Packet)] /\ log' \in [Groups -> Seq(Packet)]
  BY <1>1, <1>2, <1>4, <1>5 DEF SeriesTypeOK
<1>8. ToSet(order') = (ToSet(order) \cup {g}) \ Evicted(g)
  BY <1>1, <1>3
<1>9. \A k \in Groups : k \notin ToSet(order') <=> hits'[k] = <<>>
  BY <1>1, <1>2, <1>3, <1>8 DEF SeriesTypeOK
<1>10. alerted' \subseteq ToSet(order') /\ fired' \in Groups \cup {Nobody}
  BY <1>1, <1>2, <1>3, <1>8 DEF SeriesTypeOK, ShouldFire
<1>11. SeriesTypeOK'
  <2>1. order' \in Seq(Groups) /\ IsInjective(order') /\ Len(order') <= MaxSeries
    BY <1>1, <1>3
  <2> QED
    BY <2>1, <1>6, <1>7, <1>9, <1>10 DEF SeriesTypeOK, Packet
<1>12. ASSUME NEW k \in Groups  PROVE Retained(k)' /\ Sorted(log[k], newest)'
  <2>1. CASE k = g
    <3> DEFINE new == Append(log[g], m)
    <3>1. log'[k] = new /\ hits'[k] = queue
      BY <1>1, <2>1
    <3>2. new \in Seq(Packet) /\ Len(new) = Len(log[g]) + 1 /\ new[Len(log[g]) + 1] = m
      BY <1>2, AppendProperties DEF SeriesTypeOK
    <3>3. Windowed(new, queue, m, rule.window)
      BY <1>1
    <3> HIDE DEF new
    <3>4. PICK i \in 1 .. Len(new) :
             /\ queue = SubSeq(new, i, Len(new))
             /\ Parted(new, i, m.time - rule.window) /\ Sorted(new, m.time)
      BY <3>3 DEF Windowed
    <3>5. Len(new) \in Nat /\ new[Len(new)] = m
      BY <3>2, LenProperties
    <3>6. i - 1 \in 0 .. Len(new) /\ i - 1 + 1 = i
      BY <3>5
    <3>7. Aged(new, i - 1, rule.window)
      <4> SUFFICES ASSUME NEW j \in 1 .. i - 1
                   PROVE  new[j].time < m.time - rule.window
        BY <3>5 DEF Aged
      <4>1. ~ (new[j].time >= m.time - rule.window)
        BY <3>4 DEF Parted
      <4>2. j \in 1 .. Len(new)
        BY <3>5
      <4>3. new[j] \in Packet
        BY <3>2, <4>2, ElementOfSeq
      <4>4. new[j].time \in Int /\ m.time \in Int /\ rule.window \in Int
        BY <1>2, <4>3, RuleAssumption DEF Packet, SeriesTypeOK
      <4> QED
        BY <4>1, <4>4
    <3>8. \E c \in 0 .. Len(new) : queue = SubSeq(new, c + 1, Len(new)) /\ Aged(new, c, rule.window)
      BY <3>4, <3>6, <3>7
    <3>9. Retained(k)'
      BY <1>1, <3>1, <3>8 DEF Retained, Aged
    <3> QED
      BY <1>1, <3>1, <3>4, <3>9 DEF Sorted
  <2>2. CASE k # g /\ k \in Evicted(g)
    <3>1. log'[k] = <<>> /\ hits'[k] = <<>>
      BY <1>1, <2>2
    <3>2. 0 \in 0 .. Len(log'[k]) /\ SubSeq(log'[k], 0 + 1, Len(log'[k])) = <<>>
      BY <3>1, EmptySeq, SubSeqEmpty
    <3>3. Aged(log'[k], 0, rule'.window)
      BY DEF Aged
    <3>4. Retained(k)'
      BY <3>1, <3>2, <3>3 DEF Retained, Aged
    <3> QED
      BY <3>1, <3>4 DEF Sorted
  <2>3. CASE k # g /\ k \notin Evicted(g)
    <3>1. log'[k] = log[k] /\ hits'[k] = hits[k]
      BY <1>1, <2>3
    <3>2. Retained(k) /\ Sorted(log[k], newest)
      BY DEF SeriesInv
    <3>3. Retained(k)'
      BY <1>1, <3>1, <3>2 DEF Retained, Aged
    <3>4. Sorted(log[k], newest')
      <4> SUFFICES ASSUME NEW i \in DOMAIN log[k]  PROVE log[k][i].time <= newest'
        BY <3>2 DEF Sorted
      <4>1. log[k] \in Seq(Packet)
        BY <1>2 DEF SeriesTypeOK
      <4>2. log[k][i] \in Packet
        BY <4>1, LenProperties, ElementOfSeq
      <4>3. log[k][i].time \in Int /\ newest \in Int /\ m.time \in Int
        BY <1>2, <4>2 DEF Packet, SeriesTypeOK
      <4>4. log[k][i].time <= newest
        BY <3>2 DEF Sorted
      <4> QED
        BY <1>1, <4>3, <4>4
    <3> QED
      BY <3>1, <3>3, <3>4 DEF Sorted
  <2> QED
    BY <2>1, <2>2, <2>3
<1> QED
  BY <1>11, <1>12 DEF SeriesInv

LEMMA EditKeeps ==
  ASSUME SeriesInv, Edit
  PROVE  SeriesInv'
<1>1. SeriesTypeOK
  BY DEF SeriesInv
<1>2. SeriesTypeOK'
  BY <1>1 DEF Edit, SeriesTypeOK, Packet
<1>3. ASSUME NEW g \in Groups  PROVE Retained(g)' /\ Sorted(log[g], newest)'
  <2> DEFINE s == log[g]
             h == hits[g]
  <2>1. log'[g] = h /\ hits'[g] = h /\ newest' = newest
    BY DEF Edit
  <2>2. h \in Seq(Packet) /\ s \in Seq(Packet)
    BY <1>1 DEF SeriesTypeOK
  <2>3. PICK c \in 0 .. Len(s) : h = SubSeq(s, c + 1, Len(s))
    BY DEF SeriesInv, Retained
  <2>4. Sorted(s, newest)
    BY DEF SeriesInv
  <2> HIDE DEF s, h
  <2>5. Len(h) \in Nat /\ SubSeq(h, 0 + 1, Len(h)) = h /\ Len(s) \in Nat
        /\ DOMAIN h = 1 .. Len(h) /\ DOMAIN s = 1 .. Len(s)
    BY <2>2, SubSeqFull, LenProperties
  <2>6. Retained(g)'
    <3>1. Aged(h, 0, rule'.window)
      BY DEF Aged
    <3>2. 0 \in 0 .. Len(h)
      BY <2>5
    <3> QED
      BY <2>1, <2>5, <3>1, <3>2 DEF Retained, Aged
  <2>7. Sorted(h, newest)
    <3>1. Len(h) = Len(s) - c /\ \A i \in 1 .. Len(s) - c : h[i] = s[c + i]
      BY <2>2, <2>3, Ending
    <3>2. ASSUME NEW i \in 1 .. Len(h)  PROVE c + i \in 1 .. Len(s) /\ h[i] = s[c + i]
      BY <2>5, <3>1
    <3>3. ASSUME NEW i \in 1 .. Len(h), NEW j \in 1 .. Len(h), i <= j
          PROVE  h[i].time <= h[j].time
      <4>1. c + i <= c + j
        BY <2>5, <3>3
      <4>2. s[c + i].time <= s[c + j].time
        BY <2>4, <2>5, <3>2, <4>1 DEF Sorted
      <4> QED
        BY <3>2, <4>2
    <3>4. ASSUME NEW i \in 1 .. Len(h)  PROVE h[i].time <= newest
      BY <2>4, <2>5, <3>2 DEF Sorted
    <3> QED
      BY <2>5, <3>3, <3>4 DEF Sorted
  <2> QED
    BY <2>1, <2>6, <2>7 DEF Sorted
<1> QED
  BY <1>2, <1>3 DEF SeriesInv

LEMMA ResetKeeps ==
  ASSUME SeriesInv, Reset
  PROVE  SeriesInv'
<1>1. order' = <<>> /\ order' \in Seq(Groups) /\ IsInjective(order') /\ ToSet(order') = {} /\ Len(order') = 0
  BY EmptySeq DEF Reset, IsInjective, ToSet
<1>2. <<>> \in Seq(Packet) /\ Len(<<>>) = 0
  BY EmptySeq
<1>3. SeriesTypeOK'
  BY <1>1, <1>2, RuleAssumption DEF Reset, SeriesInv, SeriesTypeOK, Packet
<1>4. ASSUME NEW g \in Groups  PROVE Retained(g)' /\ Sorted(log[g], newest)'
  <2>1. log'[g] = <<>> /\ hits'[g] = <<>>
    BY DEF Reset
  <2>2. 0 \in 0 .. Len(log'[g]) /\ SubSeq(log'[g], 0 + 1, Len(log'[g])) = <<>>
    BY <1>2, <2>1, SubSeqEmpty
  <2>3. Retained(g)'
    BY <2>1, <2>2 DEF Retained, Aged
  <2> QED
    BY <2>1, <2>3 DEF Sorted
<1> QED
  BY <1>3, <1>4 DEF SeriesInv

(* The measure is a number.                                                *)
LEMMA MeasureIsNatural ==
  ASSUME NEW queue \in Seq(Packet)
  PROVE  SeriesCount(queue) \in Nat
<1> DEFINE values == {queue[i].value : i \in DOMAIN queue}
           f == [i \in DOMAIN queue |-> queue[i].value]
<1>1. Len(queue) \in Nat /\ DOMAIN queue = 1 .. Len(queue)
  BY LenProperties
<1>2. f \in Surjection(DOMAIN queue, values)
  BY DEF Surjection
<1>3. IsFiniteSet(DOMAIN queue)
  BY <1>1, FS_Interval
<1>4. IsFiniteSet(values)
  <2> HIDE DEF f, values
  <2> QED
    BY <1>2, <1>3, FS_Surjection
<1>5. Cardinality(values) \in Nat
  BY <1>4, FS_CardinalityType
<1> QED
  BY <1>1, <1>5 DEF SeriesCount

(* The keys of the dictionary are the groups with matches.                 *)
LEMMA KnownAreKept ==
  ASSUME SeriesInv
  PROVE  /\ Episodes!Known = ToSet(order)
         /\ IsFiniteSet(ToSet(order)) /\ Cardinality(ToSet(order)) = Len(order)
<1>1. order \in Seq(Groups) /\ IsInjective(order)
      /\ \A g \in Groups : g \notin ToSet(order) <=> hits[g] = <<>>
  BY DEF SeriesInv, SeriesTypeOK
<1>2. ToSet(order) \subseteq Groups
  <2> SUFFICES ASSUME NEW i \in DOMAIN order  PROVE order[i] \in Groups
    BY DEF ToSet
  <2> QED
    BY <1>1, LenProperties, ElementOfSeq
<1>3. \A g \in Groups : hits[g] = <<>> <=> log[g] = <<>>
  BY HitsAreLogged
<1>4. Episodes!Known = {g \in Groups : log[g] # <<>>}
  BY DEF Episodes!Known
<1>5. Episodes!Known = ToSet(order)
  BY <1>1, <1>2, <1>3, <1>4
<1> QED
  BY <1>1, <1>5, KeysCount

(* A match of the engine is a match of the rule: what it evicts may be     *)
(* forgotten, and it fires on the edge.                                    *)
LEMMA MatchImplements ==
  ASSUME SeriesInv, Lag = 0, NEW g \in Groups, NEW m \in Packet, Match(g, m)
  PROVE  Episodes!Match(g, m)
<1> DEFINE out == Evicted(g)
<1>1. PICK queue \in Seq(Packet) :
         /\ queue # <<>> /\ Windowed(Append(log[g], m), queue, m, rule.window)
         /\ Len(log[g]) < MaxLog /\ m.time >= newest - Lag
         /\ newest' = m.time /\ newest <= m.time
         /\ order' = Reordered(g)
         /\ hits' = [k \in Groups |-> IF k = g THEN queue
                                      ELSE IF k \in Evicted(g) THEN <<>> ELSE hits[k]]
         /\ ShouldFire(g, queue, alerted \ Evicted(g))
         /\ log' = [k \in Groups |-> IF k = g THEN Append(log[k], m)
                                     ELSE IF k \in Evicted(g) THEN <<>> ELSE log[k]]
         /\ rule' = rule
  BY MatchIs
<1>2. SeriesTypeOK
  BY DEF SeriesInv
<1>3. /\ g \notin out
      /\ \/ out = {}
         \/ /\ g \notin ToSet(order) /\ Len(order) + 1 > MaxSeries
            /\ \E k \in ToSet(order) : out = {k}
  BY <1>2, Evicting
<1>4. out \in Episodes!Forgettable(g)
  <2>1. CASE out = {}
    BY <2>1 DEF Episodes!Forgettable
  <2>2. CASE out # {}
    <3>1. PICK k \in ToSet(order) : out = {k}
      BY <1>3, <2>2
    <3>2. g \notin ToSet(order) /\ Len(order) + 1 > MaxSeries
      BY <1>3, <2>2
    <3>3. Cardinality(ToSet(order) \cup {g}) = Len(order) + 1
      BY <3>2, KnownAreKept, FS_AddElement
    <3>4. Episodes!Cardinality(Episodes!Known \cup {g}) > MaxSeries
      BY <3>2, <3>3, KnownAreKept, CountedAlike
    <3>5. k \in Episodes!Known \ {g}
      BY <3>1, <3>2, KnownAreKept
    <3> HIDE DEF out
    <3> QED
      BY <3>1, <3>4, <3>5 DEF Episodes!Forgettable
  <2> QED
    BY <2>1, <2>2
<1>5. Episodes!Measure(Episodes!Recent(log'[g], m.time)) = SeriesCount(queue)
  <2> DEFINE new == Append(log[g], m)
  <2>1. log'[g] = new
    BY <1>1
  <2>2. new \in Seq(Packet)
    BY <1>2, AppendProperties DEF SeriesTypeOK
  <2>3. Windowed(new, queue, m, rule.window)
    BY <1>1
  <2> HIDE DEF new
  <2>4. PICK i \in 1 .. Len(new) :
           queue = SubSeq(new, i, Len(new)) /\ Parted(new, i, m.time - rule.window)
    BY <2>3 DEF Windowed
  <2>5. Episodes!Measure(Episodes!Recent(new, m.time)) = SeriesCount(SubSeq(new, i, Len(new)))
    BY <2>2, <2>4, MeasuredAlike
  <2> QED
    BY <2>1, <2>4, <2>5
<1>6. SeriesCount(queue) \in Int /\ rule.threshold \in Int
  <2>1. SeriesCount(queue) \in Nat
    BY MeasureIsNatural
  <2> QED
    BY <2>1, <1>2, RuleAssumption DEF SeriesTypeOK
<1>7. newest' = IF m.time > newest THEN m.time ELSE newest
  <2>1. m.time \in Int /\ newest \in Int
    BY <1>2 DEF SeriesTypeOK, Packet
  <2> QED
    BY <1>1, <2>1
<1>8. IF Episodes!Measure(Episodes!Recent(log'[g], m.time)) >= rule.threshold
      THEN /\ alerted' = (alerted \ out) \cup {g}
           /\ fired' = IF g \in alerted THEN Nobody ELSE g
      ELSE alerted' = (alerted \ out) \ {g} /\ fired' = Nobody
  <2>1. g \in alerted \ out <=> g \in alerted
    BY <1>3
  <2>2. ShouldFire(g, queue, alerted \ out)
    BY <1>1
  <2> HIDE DEF out
  <2>3. CASE SeriesCount(queue) < rule.threshold
    <3>1. alerted' = (alerted \ out) \ {g} /\ fired' = Nobody
      BY <2>2, <2>3 DEF ShouldFire
    <3>2. ~ (Episodes!Measure(Episodes!Recent(log'[g], m.time)) >= rule.threshold)
      BY <1>5, <1>6, <2>3
    <3> QED
      BY <3>1, <3>2
  <2>4. CASE ~ (SeriesCount(queue) < rule.threshold)
    <3>1. /\ alerted' = (alerted \ out) \cup {g}
          /\ fired' = IF g \in alerted \ out THEN Nobody ELSE g
      BY <2>2, <2>4 DEF ShouldFire
    <3>2. Episodes!Measure(Episodes!Recent(log'[g], m.time)) >= rule.threshold
      BY <1>5, <1>6, <2>4
    <3> QED
      BY <2>1, <3>1, <3>2
  <2> QED
    BY <2>3, <2>4
<1>9. log' = [k \in Groups |-> IF k = g THEN Append(log[k], m)
                               ELSE IF k \in out THEN <<>> ELSE log[k]]
  BY <1>1
<1>10. m.value \in Episodes!Contributed
  BY DEF Match, Contributed, Episodes!Contributed
<1> HIDE DEF out
<1> QED
  BY <1>1, <1>4, <1>7, <1>8, <1>9, <1>10 DEF Episodes!Match

LEMMA EditImplements ==
  ASSUME SeriesInv, Edit
  PROVE  Episodes!Edit
<1>1. ASSUME NEW g \in Groups  PROVE hits[g] \in Episodes!Remnants(log[g])
  <2>1. PICK c \in 0 .. Len(log[g]) :
          hits[g] = SubSeq(log[g], c + 1, Len(log[g])) /\ Aged(log[g], c, rule.window)
    BY DEF SeriesInv, Retained
  <2>2. Len(log[g]) \in Nat
    BY LenProperties DEF SeriesInv, SeriesTypeOK
  <2>3. c + 1 \in 1 .. Len(log[g]) + 1 /\ c + 1 - 1 = c
    BY <2>2
  <2>4. \A j \in 1 .. c + 1 - 1 : log[g][j].time < log[g][Len(log[g])].time - rule.window
    BY <2>1, <2>3 DEF Aged
  <2> QED
    BY <2>1, <2>3, <2>4 DEF Episodes!Remnants
<1>2. log' = hits /\ hits \in [Groups -> Seq(Packet)]
  BY DEF Edit, SeriesInv, SeriesTypeOK
<1>3. log' \in [Groups -> UNION {Episodes!Remnants(log[g]) : g \in Groups}]
  BY <1>1, <1>2
<1>4. \A g \in Groups : log'[g] \in Episodes!Remnants(log[g])
  BY <1>1, <1>2
<1>5. (\E r \in Rules : r # rule /\ rule' = r) /\ fired' = Nobody
      /\ newest' = newest /\ alerted' = alerted
  BY DEF Edit
<1> QED
  BY <1>3, <1>4, <1>5 DEF Episodes!Edit

LEMMA ResetImplements == Reset => Episodes!Reset
BY DEF Reset, Episodes!Reset

LEMMA InitImplements == SeriesInit => Episodes!Init
BY DEF SeriesInit, Episodes!Init

LEMMA SeriesStep ==
  ASSUME SeriesInv, Lag = 0, [SeriesNext]_series
  PROVE  SeriesInv' /\ [Episodes!Next]_(Episodes!vars)
<1>1. CASE UNCHANGED series
  <2>1. SeriesInv'
    BY <1>1 DEF series, SeriesInv, SeriesTypeOK, Retained, Sorted, Aged, Packet
  <2>2. UNCHANGED Episodes!vars
    BY <1>1 DEF series, Episodes!vars
  <2> QED
    BY <2>1, <2>2
<1>2. ASSUME NEW g \in Groups, NEW m \in Packet, Match(g, m)
      PROVE  SeriesInv' /\ Episodes!Next
  <2>1. SeriesInv' /\ Episodes!Match(g, m)
    BY <1>2, MatchKeeps, MatchImplements
  <2> QED
    BY <2>1 DEF Episodes!Next, Episodes!Packet, Packet
<1>3. CASE Edit
  BY <1>3, EditKeeps, EditImplements DEF Episodes!Next
<1>4. CASE Reset
  BY <1>4, ResetKeeps, ResetImplements DEF Episodes!Next
<1> QED
  BY <1>1, <1>2, <1>3, <1>4 DEF SeriesNext

LEMMA EngineIsItsParts == EngineSpec => SeriesSpec /\ DirectorySpec
<1>1. EngineInit => SeriesInit /\ DirectoryInit
  BY DEF EngineInit
<1>2. [EngineNext]_engineVars => [SeriesNext]_series /\ [DirectoryNext]_directory
  BY DEF EngineNext, Counting, Loading, engineVars
<1> QED
  BY <1>1, <1>2, PTL DEF EngineSpec, SeriesSpec, DirectorySpec

(* Whatever the packets, as long as they come in order, whatever the edits *)
(* and evictions: the queues and flags of the engine fire a rule exactly   *)
(* when its promise, stated over all the matches of a group, says so.      *)
THEOREM EpisodesAreKept ==
  ASSUME Lag = 0
  PROVE  EngineSpec => ImplementsEpisodes
<1>1. SeriesInit => SeriesInv /\ Episodes!Init
  BY SeriesStart, InitImplements
<1>2. SeriesInv /\ [SeriesNext]_series => SeriesInv' /\ [Episodes!Next]_(Episodes!vars)
  BY SeriesStep
<1>3. SeriesSpec => Episodes!Spec
  BY <1>1, <1>2, PTL DEF SeriesSpec, Episodes!Spec
<1> QED
  BY <1>3, EngineIsItsParts, PTL DEF ImplementsEpisodes
=============================================================================
