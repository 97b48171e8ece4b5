----------------------------- MODULE RuleEngine -----------------------------
(***************************************************************************)
(* The rule engine in two views that share no step: the series of one rule *)
(* as packets and edits come (RuleWindow), and the rules in force as files *)
(* change and requests come (RuleDirectory).                               *)
(***************************************************************************)
EXTENDS RuleWindow, RuleDirectory

VARIABLE
    part        \* the view a behaviour is about: "series" or "files"

engineVars == <<series, directory, part>>

EngineInit ==
    /\ part \in {"series", "files"} /\ SeriesInit /\ DirectoryInit
    /\ part = "series" => ~shared /\ disk = [f \in Files |-> "absent"]
    /\ part = "files" => rule = CHOOSE r \in Rules : TRUE

Counting == part = "series" /\ SeriesNext /\ UNCHANGED <<directory, part>>

Loading == part = "files" /\ DirectoryNext /\ UNCHANGED <<series, part>>

EngineNext == Counting \/ Loading

EngineSpec == EngineInit /\ [][EngineNext]_engineVars
=============================================================================
