----------------------------- MODULE ThreatReport -----------------------------
(***************************************************************************)
(* What becomes of an alert's addresses: the providers the factory builds  *)
(* from the configuration, the address that may be looked up, one answer   *)
(* of each provider and the report that merges them.  How a lookup goes    *)
(* through cache, breaker and gatekeeper is in ThreatIntelQuery; here it   *)
(* ends in one of its outcomes.                                            *)
(***************************************************************************)
EXTENDS Integers, Sequences, FiniteSets, FiniteSetsExt, SequencesExt

CONSTANTS
    Builtins,     \* PROVIDER_BUCKETS: the shipped providers, in order
    Plugins,      \* provider classes the extension modules hold
    Settings,     \* configurations: see setting
    Opinions,     \* scores a provider may give, in 0 .. 100
    Malicious,    \* REPUTATION_MALICIOUS_THRESHOLD
    Suspicious,   \* REPUTATION_SUSPICIOUS_THRESHOLD
    Nil           \* None

ASSUME ReportAssumption ==
    /\ Builtins \in Seq({Builtins[i] : i \in DOMAIN Builtins}) /\ IsFiniteSet(Plugins)
    /\ Opinions \subseteq Nat /\ Malicious \in Nat /\ Suspicious \in Nat /\ Nil \notin Opinions

VARIABLES
    setting,   \* enabled, providers, enrich_private_ips; buckets with a budget;
               \* whether ABUSEIPDB_API_KEY is set
    providers, \* the candidates that were built, by their places
    suspect,   \* the addresses of the alert being enriched: <<source, destination>>
    asking,    \* "idle", "asking", "reported" or "raised"
    results,   \* answers so far, by provider
    report,    \* the ThreatIntelResult attached to the alert
    sent       \* history: what left for a provider, and about which address

reporting == <<setting, providers, suspect, asking, results, report, sent>>

Addresses == {"public", "private", "malformed", Nil}

(* discovered_providers: a class named like a shipped one and one without  *)
(* a bucket are passed over; the order is that of the names.               *)
DiscoveredProviders ==
    SetToSeq({p \in Plugins : /\ p.bucket # ""
                              /\ \A i \in DOMAIN Builtins : Builtins[i].class # p.class})

Candidates == Builtins \o DiscoveredProviders

(* build_providers: enabled by the operator and funded by a bucket.        *)
BuildProviders(s) ==
    {i \in DOMAIN Candidates :
        s.enabled /\ Candidates[i].bucket \in s.buckets /\ Candidates[i].config \in s.providers}

(* Only the shipped provider is given its key by the factory.              *)
IsConfigured(p) == p.keyed => p.class = "AbuseIpDbProvider" /\ setting.key

NoAnswers == [i \in {} |-> Nil]

ReportInit ==
    /\ setting \in Settings
    /\ providers = BuildProviders(setting)
    /\ suspect = <<Nil, Nil>> /\ asking = "idle"
    /\ results = NoAnswers /\ report = Nil /\ sent = {}

----------------------------------------------------------------------------
(* Mutant: opting in lets anything through.                                *)
IsEligibleOptedIn(ip) == ip = "public" \/ setting.private

IsEligible(ip) == ip = "public" \/ (setting.private /\ ip = "private")

(* eligible_ips: the source, which is asked about first, and the           *)
(* destination.                                                            *)
EligibleIps == {i \in 1 .. 2 : suspect[i] # Nil /\ IsEligible(suspect[i])}
AskedAbout == IF 1 \in EligibleIps THEN suspect[1] ELSE suspect[2]

EnrichAlert(ips) ==
    /\ asking # "asking" /\ asking' = "asking"
    /\ suspect' = ips /\ results' = NoAnswers /\ report' = Nil /\ sent' = {}
    /\ UNCHANGED <<setting, providers>>

(* enrich_alert returns None: there is no address to ask about.            *)
NothingToAsk ==
    /\ asking = "asking" /\ EligibleIps = {} /\ asking' = "idle"
    /\ UNCHANGED <<setting, providers, suspect, results, report, sent>>

Failed(status) == [status |-> status, score |-> Nil, fields |-> {}]

(* What a body that could be read is made into: the fields a shipped       *)
(* provider looks up, whatever the body leaves out of them, or any of a    *)
(* plugin's.                                                               *)
Supplied(p) == IF p \in Plugins THEN SUBSET p.fields ELSE {p.fields}

Answers(p) ==
    [status : {"ok"}, fields : Supplied(p),
     score : IF p.scores THEN Opinions \cup {Nil} ELSE {Nil}]

(* One provider after another, in the order they were built in.            *)
Unasked == providers \ DOMAIN results
NextUp == CHOOSE i \in Unasked : \A j \in Unasked : i <= j

Told(answer) ==
    results' = [i \in DOMAIN results \cup {NextUp} |->
                  IF i = NextUp THEN answer ELSE results[i]]

Left(p) == sent' = sent \cup {<<p.config, AskedAbout>>}

(* A provider without its key is skipped, and one whose circuit is open.   *)
Skipped(p) ==
    \/ ~IsConfigured(p) /\ Told(Failed("skipped"))
    \/ IsConfigured(p) /\ Told(Failed("circuit_open"))

Cached(p) == IsConfigured(p) /\ \E a \in Answers(p) : Told(a)

Looked(p) == IsConfigured(p) /\ Left(p) /\ \E a \in Answers(p) : Told(a)

(* get_json raises ProviderHttpError: no transport, a status that is not   *)
(* 2xx, no JSON or no object; lookup returns it as an error.               *)
Unanswered(p) == IsConfigured(p) /\ Left(p) /\ Told(Failed("error"))

(* query_provider.                                                         *)
QueryProvider ==
    /\ asking = "asking" /\ EligibleIps # {} /\ Unasked # {}
    /\ LET p == Candidates[NextUp]
       IN  \/ (Skipped(p) \/ Cached(p)) /\ UNCHANGED sent
           \/ Looked(p) \/ Unanswered(p)
    /\ UNCHANGED <<setting, providers, suspect, asking, report>>

(* A body that is JSON and holds a value the model refuses makes lookup    *)
(* raise, and the answers of the other providers are lost with it.         *)
LookupRaises ==
    /\ asking = "asking" /\ EligibleIps # {} /\ Unasked # {}
    /\ IsConfigured(Candidates[NextUp]) /\ Left(Candidates[NextUp])
    /\ asking' = "raised"
    /\ UNCHANGED <<setting, providers, suspect, results, report>>

----------------------------------------------------------------------------
Verdicts == <<"unknown", "clean", "suspicious", "malicious">>

Classify(score) ==
    IF score = Nil THEN "unknown"
    ELSE IF score >= Malicious THEN "malicious"
    ELSE IF score >= Suspicious THEN "suspicious" ELSE "clean"

Worse(v, w) ==
    \E i, j \in DOMAIN Verdicts : Verdicts[i] = v /\ Verdicts[j] = w /\ i > j

Scores == {results[i].score : i \in DOMAIN results} \ {Nil}

(* aggregate: the maximum of those who expressed an opinion.               *)
AggregateScore == IF Scores = {} THEN Nil ELSE Max(Scores)

(* The first provider to supply a field wins.                              *)
FirstToSupply(field) ==
    LET by == {i \in DOMAIN results : field \in results[i].fields}
    IN  IF by = {} THEN Nil ELSE Candidates[Min(by)].config

Aggregate ==
    /\ asking = "asking" /\ EligibleIps # {} /\ Unasked = {}
    /\ asking' = "reported"
    /\ report' = [verdict |-> Classify(AggregateScore),
                  by |-> [field \in {"geo", "asn", "whois"} |-> FirstToSupply(field)],
                  partial |-> \E i \in DOMAIN results : results[i].status # "ok"]
    /\ UNCHANGED <<setting, providers, suspect, results, sent>>

ReportNext ==
    \/ \E ips \in Addresses \X Addresses : EnrichAlert(ips)
    \/ NothingToAsk \/ QueryProvider \/ LookupRaises \/ Aggregate

ReportSpec == ReportInit /\ [][ReportNext]_reporting

----------------------------------------------------------------------------
ReportTypeOK ==
    /\ setting \in Settings /\ providers = BuildProviders(setting)
    /\ suspect \in Addresses \X Addresses
    /\ asking \in {"idle", "asking", "reported", "raised"}
    /\ DOMAIN results \subseteq providers
    /\ \A i \in DOMAIN results :
         /\ results[i].status \in {"ok", "skipped", "circuit_open", "error"}
         /\ results[i].score \in Opinions \cup {Nil}

(* "An address flagged by one feed and unknown to three others is still    *)
(* dangerous, and averaging would hide it": the verdict of a report is not *)
(* milder than that of any provider that answered, whoever failed or had   *)
(* no opinion, and it is clean only on somebody's word.                    *)
WorstIsShown ==
    asking = "reported" =>
      /\ \A i \in DOMAIN results : ~Worse(Classify(results[i].score), report.verdict)
      /\ report.verdict # "unknown" => Scores # {}

(* An address leaves for a third party only if it is public, or parses and *)
(* the operator opted in; it is the one of the alert that comes first, and *)
(* it is asked about where the operator both enabled and funded it.        *)
OnlyPublicAsked ==
    \A request \in sent :
      /\ request[2] = "public" \/ (setting.private /\ request[2] = "private")
      /\ request[1] \in setting.providers /\ setting.enabled

(* What a report says and what asking for it gave away, in one.            *)
ReportIsSound == WorstIsShown /\ OnlyPublicAsked
=============================================================================
