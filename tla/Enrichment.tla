------------------------------ MODULE Enrichment ------------------------------
(***************************************************************************)
(* Threat-intelligence enrichment, one half at a time: the worker with its *)
(* queue of alerts, and the lookups that worker and requests make.  The    *)
(* halves share no state: to the worker a lookup is a step that ends one   *)
(* way or another, to a lookup the worker is one of the callers.  A        *)
(* behaviour is one of the chosen half, with that half's fairness.         *)
(***************************************************************************)
EXTENDS ThreatIntelQuery, EnrichmentWorker

VARIABLE half    \* "worker" or "lookups"

enrichmentVars == <<half, vars, worker>>

EnrichmentInit ==
    /\ half \in {"worker", "lookups"}
    /\ Init /\ WorkerInit
    /\ half = "worker" => home = CHOOSE layout \in Layouts : TRUE

Working == half = "worker" /\ WorkerNext /\ UNCHANGED <<half, vars>>
LookingUp == half = "lookups" /\ Next /\ UNCHANGED <<half, worker>>

EnrichmentSpec == EnrichmentInit /\ [][Working \/ LookingUp]_enrichmentVars

(* A started thread is scheduled, and a join is bounded by its timeout;    *)
(* time passes, and a lookup under way is carried through: every provider  *)
(* call is bounded by its HTTP timeout and the gatekeeper's deadlines.     *)
FairEnrichment ==
    /\ EnrichmentSpec
    /\ WF_enrichmentVars(half = "worker" /\ StopJoin /\ UNCHANGED <<half, vars>>)
    /\ \A w \in Workers :
         WF_enrichmentVars(half = "worker" /\ Run(w) /\ UNCHANGED <<half, vars>>)
    /\ WF_enrichmentVars(half = "lookups" /\ Tick /\ UNCHANGED <<half, home, worker>>)
    /\ \A c \in Callers :
         WF_enrichmentVars(half = "lookups" /\ Query(c) /\ UNCHANGED <<half, home, worker>>)
=============================================================================
