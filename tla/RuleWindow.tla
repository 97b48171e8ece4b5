------------------------------ MODULE RuleWindow ------------------------------
(***************************************************************************)
(* The aggregation state of the rule engine: a WindowedCounter that holds  *)
(* a Series, a queue of matches and a flag, for each group of a rule and   *)
(* evicts the least recently used series at its bound.  Only the capture   *)
(* thread evaluates, so a call of fires() is one step; the file watcher    *)
(* may put another version of the rule in force between two packets.       *)
(***************************************************************************)
EXTENDS Integers, Sequences, FiniteSets, FiniteSetsExt, SequencesExt

CONSTANTS
    Groups,     \* values of the rule's group_by field
    Values,     \* values of its distinct_field
    Blank,      \* what a rule that has none records: the empty string
    Rules,      \* versions of the rule: threshold, window, distinct
    MaxSeries,  \* MAX_TRACKED_SERIES
    LastTime,   \* bound: the latest packet time
    MaxLog,     \* bound: matches of one group
    Lag,        \* bound: how far behind the newest packet one may be
    Nobody      \* no group

ASSUME RuleAssumption ==
    /\ MaxSeries \in Nat \ {0} /\ LastTime \in Nat \ {0} /\ MaxLog \in Nat
    /\ Lag \in Nat /\ Nobody \notin Groups
    /\ \A r \in Rules : /\ r.threshold \in Nat \ {0}
                        /\ r.window \in Nat
                        /\ r.distinct \in BOOLEAN

VARIABLES
    newest,     \* the time of the newest packet
    rule,       \* the version of the rule in the registry
    order,      \* keys of the OrderedDict, least recently used first
    hits,       \* Series.hits of each group
    alerted,    \* groups whose series has reported set
    fired,      \* the group the last match made the rule fire for
    log         \* history: the matches of each group since its series was made
                \* or the rule edited, with those the series held then

series == <<newest, rule, order, hits, alerted, fired, log>>

Packet == [time : 1 .. LastTime, value : Values \cup {Blank}]

(* What a match contributes: a packet that lacks the distinct_field of a   *)
(* rule never gets here.                                                   *)
Contributed == IF rule.distinct THEN Values ELSE {Blank}

(* OrderedDict.move_to_end, or the insertion at the end.                   *)
AtEnd(g) ==
    IF g \in ToSet(order)
    THEN Append(RemoveAt(order, CHOOSE i \in DOMAIN order : order[i] = g), g)
    ELSE Append(order, g)

(* The queue after popleft() has run while the head is before the cutoff:  *)
(* what is behind a younger head stays.                                    *)
Pruned(queue, cutoff) ==
    SubSeq(queue, Min({i \in DOMAIN queue : queue[i].time >= cutoff}), Len(queue))

(* Series.count.                                                           *)
SeriesCount(queue) ==
    IF rule.distinct
    THEN Cardinality({queue[i].value : i \in DOMAIN queue})
    ELSE Len(queue)

SeriesInit ==
    /\ newest = 1
    /\ rule \in Rules
    /\ order = <<>> /\ hits = [g \in Groups |-> <<>>] /\ alerted = {}
    /\ fired = Nobody
    /\ log = [g \in Groups |-> <<>>]

(* _touch: the series evicted to keep within the bound.                    *)
Evicted(g) ==
    IF Len(AtEnd(g)) > MaxSeries THEN {Head(AtEnd(g))} ELSE {}

(* Mutant: a series that has reported is never armed again.                *)
ShouldFireEver(g, queue, kept) ==
    IF SeriesCount(queue) < rule.threshold
    THEN alerted' = kept /\ fired' = Nobody
    ELSE /\ alerted' = kept \cup {g}
         /\ fired' = IF g \in kept THEN Nobody ELSE g

(* should_fire.                                                            *)
ShouldFire(g, queue, kept) ==
    IF SeriesCount(queue) < rule.threshold
    THEN alerted' = kept \ {g} /\ fired' = Nobody
    ELSE /\ alerted' = kept \cup {g}
         /\ fired' = IF g \in kept THEN Nobody ELSE g

(* fires(): touch the series, record the match, ask the series.            *)
Match(g, m) ==
    LET queue == Pruned(Append(hits[g], m), m.time - rule.window)
        out == Evicted(g)
    IN /\ Len(log[g]) < MaxLog /\ m.value \in Contributed
       /\ m.time >= newest - Lag
       /\ newest' = IF m.time > newest THEN m.time ELSE newest
       /\ order' = IF out = {} THEN AtEnd(g) ELSE Tail(AtEnd(g))
       /\ hits' = [k \in Groups |-> IF k = g THEN queue
                                    ELSE IF k \in out THEN <<>> ELSE hits[k]]
       /\ ShouldFire(g, queue, alerted \ out)
       /\ log' = [k \in Groups |-> IF k = g THEN Append(log[k], m)
                                   ELSE IF k \in out THEN <<>> ELSE log[k]]
       /\ UNCHANGED rule

(* The watcher loads another version of the file; the series stay, for     *)
(* they are kept under the rule's name.                                    *)
Edit ==
    /\ \E r \in Rules : r # rule /\ rule' = r
    /\ fired' = Nobody
    /\ log' = hits
    /\ UNCHANGED <<newest, order, hits, alerted>>

(* RuleEngine.stop discards the aggregation state.                         *)
Reset ==
    /\ order' = <<>> /\ hits' = [g \in Groups |-> <<>>] /\ alerted' = {}
    /\ fired' = Nobody
    /\ log' = [g \in Groups |-> <<>>]
    /\ UNCHANGED <<newest, rule>>

SeriesNext == (\E g \in Groups, m \in Packet : Match(g, m)) \/ Edit \/ Reset

SeriesSpec == SeriesInit /\ [][SeriesNext]_series

----------------------------------------------------------------------------
SeriesTypeOK ==
    /\ newest \in 1 .. LastTime /\ rule \in Rules
    /\ order \in Seq(Groups) /\ IsInjective(order)
    /\ Len(order) <= MaxSeries
    /\ hits \in [Groups -> Seq(Packet)]
    /\ \A g \in Groups : g \notin ToSet(order) <=> hits[g] = <<>>
    /\ alerted \subseteq ToSet(order)
    /\ fired \in Groups \cup {Nobody}
    /\ log \in [Groups -> Seq(Packet)]

(* While packets come in order the counter keeps the promise of the rule:  *)
(* it fires exactly once per episode, counting every match since a group   *)
(* was last forgotten.  Matches from before an edit count with the values  *)
(* recorded then: those of a rule that counted are one value more.         *)
Episodes == INSTANCE RuleEpisodes WITH
    now <- newest, over <- alerted, MaxTime <- LastTime, Late <- Lag

ImplementsEpisodes == Episodes!Spec
=============================================================================
