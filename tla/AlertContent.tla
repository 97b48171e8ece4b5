----------------------------- MODULE AlertContent -----------------------------
(***************************************************************************)
(* What an alert says and who is told: a finding is scored and attributed, *)
(* and the alert handed to every hook that wants it, from two threads at   *)
(* once.  Confidence is counted in ten-thousandths.                        *)
(***************************************************************************)
EXTENDS Naturals, Sequences, FiniteSets

CONSTANTS
    Detections,    \* [name, severity, magnitude, tactic]: what detectors report
    Matches,       \* [name, severity]: rules that match
    Thresholds,    \* name -> its threshold in detectors.json, Nothing if that is no number
    KeywordsIn,    \* name of a rule -> the keywords in it
    Hooks,         \* name -> [least, enabled]: hooks that may be registered
    MaxRaised,     \* bound: alerts in one behaviour
    Nothing

Certain == 10000
Severities == <<"info", "low", "medium", "high", "critical">>
Rank(severity) == (CHOOSE i \in 1 .. 5 : Severities[i] = severity) - 1

(* Every severity is one of the enumeration, and numbers are not negative.  *)
ASSUME ContentAssumption ==
    /\ \A d \in Detections :
         (\E i \in 1 .. 5 : d.severity = Severities[i]) /\ d.magnitude \in Nat \cup {Nothing}
    /\ \A m \in Matches : \E i \in 1 .. 5 : m.severity = Severities[i]
    /\ \A n \in DOMAIN Thresholds : Thresholds[n] \in Nat \cup {Nothing}

Senders == {"capture", "evaluation"}

VARIABLES
    hooks,      \* registered, in order
    raised,     \* alerts handed to the dispatcher so far
    sending,    \* sender -> the alert it hands out
    next,       \* sender -> the hook it is at
    tally,      \* sender -> the counter it has read, while it counts
    counted,    \* hook -> deliveries and failures counted
    told        \* history: hook -> what it was given, one entry a call

content == <<hooks, raised, sending, next, tally, counted, told>>

ContentInit ==
    /\ hooks = <<>> /\ raised = <<>>
    /\ sending = [s \in Senders |-> Nothing]
    /\ next = [s \in Senders |-> 0]
    /\ tally = [s \in Senders |-> Nothing]
    /\ counted = [h \in DOMAIN Hooks |-> [delivered |-> 0, failed |-> 0]]
    /\ told = [h \in DOMAIN Hooks |-> <<>>]

----------------------------------------------------------------------------
Least(a, b) == IF a < b THEN a ELSE b

(* reference_magnitude: Nothing for a detector of no profile, or whose        *)
(* threshold the file does not give as a number.                           *)
ReferenceMagnitude(name) ==
    IF name \in DOMAIN Thresholds THEN Thresholds[name] ELSE Nothing

(* _magnitude_ratio, as its share of the evidence weight: it grows up to   *)
(* six times the threshold.                                                *)
EvidenceTerm(name, magnitude) ==
    LET reference == ReferenceMagnitude(name)
    IN  IF reference \in {Nothing, 0} \/ magnitude = Nothing THEN 0
        ELSE IF magnitude <= reference THEN 0
        ELSE Least((3000 * (magnitude - reference)) \div (5 * reference), 3000)

(* score_alert.  A detector that reports single observations has no        *)
(* profile.                                                                *)
ScoreAlert(name, severity, magnitude) ==
    Least(5000 + 500 * Rank(severity) + EvidenceTerm(name, magnitude), Certain)

(* score_rule_match.                                                       *)
ScoreRuleMatch(severity) == 9500 - 500 * (4 - Rank(severity))

(* lookup_mitre: a name of the table, else the first keyword of the other  *)
(* table the name contains, else nothing.                                  *)
Keywords == <<"scan", "flood", "brute", "tunnel", "beacon", "exfil", "spoof", "lateral">>

Tactics ==
    [TcpPortScanDetector |-> "TA0043", SynFloodDetector |-> "TA0040",
     SuspiciousPortDetector |-> "TA0011",
     scan |-> "TA0043", flood |-> "TA0040", brute |-> "TA0006", tunnel |-> "TA0011",
     beacon |-> "TA0011", exfil |-> "TA0010", spoof |-> "TA0006", lateral |-> "TA0008"]

LookupMitre(name) ==
    IF name \in DOMAIN Tactics THEN Tactics[name]
    ELSE LET found == {i \in DOMAIN Keywords : name \in DOMAIN KeywordsIn /\ Keywords[i] \in KeywordsIn[name]}
         IN  IF found = {} THEN Nothing
             ELSE Tactics[Keywords[CHOOSE i \in found : \A j \in found : i <= j]]

(* build_alert: the detector's own tactic comes first.                     *)
BuildAlert(d) ==
    [source |-> "detector", name |-> d.name, severity |-> d.severity,
     magnitude |-> d.magnitude,
     confidence |-> ScoreAlert(d.name, d.severity, d.magnitude),
     tactic |-> IF d.tactic # Nothing THEN d.tactic ELSE LookupMitre(d.name)]

BuildRuleAlert(m) ==
    [source |-> "rule_engine", name |-> m.name, severity |-> m.severity, magnitude |-> Nothing,
     confidence |-> ScoreRuleMatch(m.severity), tactic |-> LookupMitre(m.name)]

ShouldSend(hook, alert) ==
    Hooks[hook].enabled /\ Rank(alert.severity) >= Rank(Hooks[hook].least)

----------------------------------------------------------------------------
(* NotificationDispatcher.register, at any time: no hook is shipped        *)
(* registered.                                                             *)
Register(hook) ==
    /\ \A i \in DOMAIN hooks : hooks[i] # hook
    /\ hooks' = Append(hooks, hook)
    /\ UNCHANGED <<raised, sending, next, tally, counted, told>>

(* handle_detection and handle_rule_match, of what dedup lets through.     *)
Dispatch(s, alert) ==
    /\ sending[s] = Nothing /\ Len(raised) < MaxRaised
    /\ raised' = Append(raised, alert)
    /\ sending' = [sending EXCEPT ![s] = alert]
    /\ next' = [next EXCEPT ![s] = 1]
    /\ UNCHANGED <<hooks, tally, counted, told>>

HandleFinding ==
    \/ \E d \in Detections : Dispatch("evaluation", BuildAlert(d))
    \/ \E m \in Matches : Dispatch("capture", BuildRuleAlert(m))

Passed(s) == next' = [next EXCEPT ![s] = @ + 1]
Read(s, hook, kind) == tally' = [tally EXCEPT ![s] = [kind |-> kind, value |-> counted[hook][kind]]]

(* Mutant: a hook that raises ends the dispatch.                           *)
SendOrGiveUp(s) ==
    /\ sending[s] # Nothing /\ tally[s] = Nothing /\ next[s] \in DOMAIN hooks
    /\ LET hook == hooks[next[s]]
       IN  IF ~ShouldSend(hook, sending[s]) THEN Passed(s) /\ UNCHANGED <<told, tally>>
           ELSE /\ told' = [told EXCEPT ![hook] = Append(@, sending[s])]
                /\ \/ Read(s, hook, "delivered") /\ UNCHANGED next
                   \/ next' = [next EXCEPT ![s] = Len(hooks) + 1] /\ UNCHANGED tally
    /\ UNCHANGED <<hooks, raised, sending, counted>>

(* One round of the loop of dispatch: the hook is called, and may raise;   *)
(* either is counted, by reading and by writing.                           *)
Send(s) ==
    /\ sending[s] # Nothing /\ tally[s] = Nothing /\ next[s] \in DOMAIN hooks
    /\ LET hook == hooks[next[s]]
       IN  IF ~ShouldSend(hook, sending[s]) THEN Passed(s) /\ UNCHANGED <<told, tally>>
           ELSE /\ told' = [told EXCEPT ![hook] = Append(@, sending[s])]
                /\ \E kind \in {"delivered", "failed"} : Read(s, hook, kind)
                /\ UNCHANGED next
    /\ UNCHANGED <<hooks, raised, sending, counted>>

Count(s) ==
    /\ tally[s] # Nothing
    /\ counted' = [counted EXCEPT ![hooks[next[s]]][tally[s].kind] = tally[s].value + 1]
    /\ tally' = [tally EXCEPT ![s] = Nothing]
    /\ Passed(s)
    /\ UNCHANGED <<hooks, raised, sending, told>>

Sent(s) ==
    /\ sending[s] # Nothing /\ tally[s] = Nothing /\ next[s] \notin DOMAIN hooks
    /\ sending' = [sending EXCEPT ![s] = Nothing]
    /\ UNCHANGED <<hooks, raised, next, tally, counted, told>>

ContentNext ==
    \/ \E hook \in DOMAIN Hooks : Register(hook)
    \/ HandleFinding
    \/ \E s \in Senders : Send(s) \/ Count(s) \/ Sent(s)

----------------------------------------------------------------------------
(* Alerts of one source rank as they should: a worse one, by severity or   *)
(* by how far past its threshold it is, is never held less likely, and     *)
(* each is between none and certain.                                       *)
WorseIsNoLessSure ==
    \A i, j \in DOMAIN raised :
      LET a == raised[i]
          b == raised[j]
      IN  /\ a.confidence \in 0 .. Certain
          /\ a.source = b.source /\ (a.source = "detector" => a.name = b.name)
             /\ Rank(a.severity) <= Rank(b.severity)
             /\ (a.magnitude = Nothing \/ (b.magnitude # Nothing /\ a.magnitude <= b.magnitude))
             => a.confidence <= b.confidence

(* Every hook that was registered before an alert was handed out, is       *)
(* enabled and has its severity is given it, whatever the other hooks do;   *)
(* no hook is given what it did not ask for; and what is counted was       *)
(* delivered.                                                              *)
HooksAreServed ==
    \A h \in DOMAIN Hooks :
      /\ counted[h].delivered + counted[h].failed <= Len(told[h])
      /\ \A i \in DOMAIN told[h] : ShouldSend(h, told[h][i])
      /\ \A s \in Senders, i \in DOMAIN hooks :
           sending[s] # Nothing /\ hooks[i] = h /\ i < next[s] /\ ShouldSend(h, sending[s]) =>
             \E k \in DOMAIN told[h] : told[h][k] = sending[s]
=============================================================================
