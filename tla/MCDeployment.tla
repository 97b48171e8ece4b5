----------------------------- MODULE MCDeployment -----------------------------
(* The requests, settings, plugins, policies, pages and schema that         *)
(* Deployment.cfg gives the parts of Deployment.                           *)
EXTENDS Deployment

CONSTANTS r1, r2

Call(endpoint, key, form, traced) ==
    [endpoint |-> endpoint, key |-> key, form |-> form, traced |-> traced]

SomeCalls ==
    {Call(e, TRUE, "valid", TRUE) : e \in Endpoints} \cup
    {Call("patch", FALSE, f, FALSE) : f \in {"malformed", "invalid", "valid"}} \cup
    {Call("list", TRUE, "invalid", FALSE)}

MCCalls == [r \in {r1, r2} |-> IF r = r1 THEN SomeCalls ELSE {Call("patch", TRUE, "valid", TRUE)}]

Detection(name, severity, magnitude, tactic) ==
    [name |-> name, severity |-> severity, magnitude |-> magnitude, tactic |-> tactic]

MCDetections ==
    {Detection("SynFloodDetector", "high", m, Nothing) : m \in {100, 101, 640, 999}} \cup
    {Detection("SuspiciousPortDetector", s, Nothing, "TA0011") : s \in {"low", "critical"}}

MCMatches ==
    {[name |-> "ssh brute scan", severity |-> "medium"], [name |-> "odd", severity |-> "critical"]}

MCThresholds == [SynFloodDetector |-> 100]
MCKeywordsIn == [n \in {"ssh brute scan"} |-> {"brute", "scan"}]

MCHooks ==
    [mail |-> [least |-> "low", enabled |-> TRUE], pager |-> [least |-> "critical", enabled |-> TRUE],
     muted |-> [least |-> "info", enabled |-> FALSE]]

Class(name, module, form) == [name |-> name, module |-> module, form |-> form]

MCImpl == {"floods", "ports"}

(* ports imports a class of floods, beta one of acme; acme shows a class   *)
(* named like a built-in.                                                  *)
MCClassesIn ==
    [floods |-> <<Class("SynFlood", "floods", "usable"), Class("Beta", "floods", "untyped")>>,
     ports |-> <<Class("PortScan", "ports", "usable"), Class("SynFlood", "floods", "usable")>>,
     acme |-> <<Class("Acme", "acme", "usable"), Class("Beta", "acme", "abstract"),
                Class("PortScan", "acme", "usable")>>,
     beta |-> <<Class("Acme", "acme", "usable"), Class("Beta", "beta", "raises")>>]

MCPolicies ==
    {[alerts |-> 2, packets |-> 1, statistics |-> 1], [alerts |-> 1, packets |-> 1, statistics |-> 2],
     [alerts |-> 1, packets |-> 2, statistics |-> 1]}

MCRoom == [packets |-> 2, alerts |-> 2, statistics |-> 1, cache |-> 1]
=============================================================================
