---------------------------- MODULE RuleEpisodes ----------------------------
(***************************************************************************)
(* What an aggregation rule promises: it fires on the match that takes a   *)
(* group to the threshold inside the window, and not again until the count *)
(* has fallen back below it.  The count is taken over the logs of all      *)
(* matches, so this says nothing of queues and flags.  A group may be      *)
(* forgotten when there are more than MaxSeries, and a new version of the  *)
(* rule goes on from the last window of the old one, with the values its   *)
(* matches had then: to a rule that counts distinct values, all those of   *)
(* one that did not are one value more.                                    *)
(***************************************************************************)
EXTENDS Integers, Sequences, FiniteSets

CONSTANTS
    Groups,     \* values of the rule's group_by field
    Values,     \* values of its distinct_field
    Blank,      \* what a match of a rule that has none counts for
    Rules,      \* versions of the rule: threshold, window, distinct
    MaxSeries,  \* groups that are remembered
    MaxTime,    \* bound: the latest packet time
    MaxLog,     \* bound: matches of one group
    Late,       \* bound: how far behind the newest packet one may be
    Nobody      \* no group

VARIABLES
    now,        \* the time of the newest packet
    rule,       \* the version in force
    log,        \* the matches of each group, in order of arrival
    over,       \* groups whose last match was at or above the threshold
    fired       \* the group the last match made the rule fire for

vars == <<now, rule, log, over, fired>>

Packet == [time : 1 .. MaxTime, value : Values \cup {Blank}]

Contributed == IF rule.distinct THEN Values ELSE {Blank}

(* What the threshold is compared with.                                    *)
Measure(matches) ==
    IF rule.distinct
    THEN Cardinality({m.value : m \in matches})
    ELSE Cardinality(matches)

(* The matches of one group inside the window of a packet, by their place  *)
(* in the log: two packets may be alike.                                   *)
Recent(entries, time) ==
    {[place |-> i, value |-> entries[i].value] :
        i \in {j \in DOMAIN entries : entries[j].time >= time - rule.window}}

Init ==
    /\ now = 1
    /\ rule \in Rules
    /\ log = [g \in Groups |-> <<>>]
    /\ over = {} /\ fired = Nobody

Known == {g \in Groups : log[g] # <<>>}

(* What may be forgotten to make room for g.                               *)
Forgettable(g) ==
    {{}} \cup IF Cardinality(Known \cup {g}) > MaxSeries
              THEN {{k} : k \in Known \ {g}} ELSE {}

Match(g, m) ==
    \E out \in Forgettable(g) :
      /\ Len(log[g]) < MaxLog /\ m.value \in Contributed
      /\ m.time >= now - Late
      /\ now' = IF m.time > now THEN m.time ELSE now
      /\ log' = [k \in Groups |-> IF k = g THEN Append(log[k], m)
                                  ELSE IF k \in out THEN <<>> ELSE log[k]]
      /\ IF Measure(Recent(log'[g], m.time)) >= rule.threshold
         THEN /\ over' = (over \ out) \cup {g}
              /\ fired' = IF g \in over THEN Nobody ELSE g
         ELSE over' = (over \ out) \ {g} /\ fired' = Nobody
      /\ UNCHANGED rule

(* What a group may go on with after an edit: its latest matches, those in *)
(* the window of the last one at least.                                    *)
Remnants(entries) ==
    LET len == Len(entries) IN
    {SubSeq(entries, i, len) :
        i \in {k \in 1 .. len + 1 : \A j \in 1 .. k - 1 :
                  entries[j].time < entries[len].time - rule.window}}

Edit ==
    /\ \E r \in Rules : r # rule /\ rule' = r
    /\ log' \in [Groups -> UNION {Remnants(log[g]) : g \in Groups}]
    /\ \A g \in Groups : log'[g] \in Remnants(log[g])
    /\ fired' = Nobody
    /\ UNCHANGED <<now, over>>

(* A restart of the engine begins all episodes anew.                       *)
Reset ==
    /\ log' = [g \in Groups |-> <<>>]
    /\ over' = {} /\ fired' = Nobody
    /\ UNCHANGED <<now, rule>>

Next == (\E g \in Groups, m \in Packet : Match(g, m)) \/ Edit \/ Reset

Spec == Init /\ [][Next]_vars
=============================================================================
