----------------------------- MODULE AlertConsole -----------------------------
(***************************************************************************)
(* What an analyst works with, one part at a time: the row of an alert     *)
(* that sensor and requests rewrite, the lists the API pages through, the  *)
(* report POST /alerts/{id}/enrich makes of the providers' answers, and    *)
(* the feed that tells the dashboards of new alerts.  The parts share no   *)
(* state: the rows of a list are of any content, a report counts in the    *)
(* row as there or not, and the feed only sees that an alert was saved; a  *)
(* behaviour is one of the chosen part, with the fairness of the feed.     *)
(***************************************************************************)
EXTENDS AlertStore, Listings, ThreatReport, LiveFeed

VARIABLE part    \* the part this behaviour is about

consoleVars == <<part, vars, listings, reporting, feed>>

ConsoleInit ==
    /\ part \in {"row", "lists", "report", "feed"}
    /\ Init
    /\ ListingsInit
    /\ part # "lists" => listing = "alerts" /\ query.limit = CHOOSE n \in PageLimits : TRUE
    /\ ReportInit
    /\ part # "report" => setting = CHOOSE s \in Settings : TRUE
    /\ FeedInit

Writing ==
    /\ part = "row"
    /\ Next
    /\ UNCHANGED <<part, listings, reporting, feed>>

Paging ==
    /\ part = "lists"
    /\ ListingsNext
    /\ UNCHANGED <<part, vars, reporting, feed>>

Reporting ==
    /\ part = "report"
    /\ ReportNext
    /\ UNCHANGED <<part, vars, listings, feed>>

Feeding ==
    /\ part = "feed"
    /\ FeedNext
    /\ UNCHANGED <<part, vars, listings, reporting>>

ConsoleNext == Writing \/ Paging \/ Reporting \/ Feeding

ConsoleSpec == ConsoleInit /\ [][ConsoleNext]_consoleVars

(* FairFeed, of the behaviours of that part.                               *)
Alone(step) == part = "feed" /\ step /\ UNCHANGED <<part, vars, listings, reporting>>

FairConsole ==
    /\ ConsoleSpec
    /\ WF_consoleVars(Alone(Poll))
    /\ \A c \in Clients : WF_consoleVars(Alone(Handle(c)))
    /\ SF_consoleVars(Alone(PollQuery /\ poll' = "resume"))
=============================================================================
