------------------------------- MODULE Listings -------------------------------
(***************************************************************************)
(* The lists of the API: a client goes through the pages of one, by offset *)
(* and limit, while the sensor adds rows, an analyst triages alerts, and   *)
(* the retention sweep deletes the oldest.  GET /alerts goes newest first, *)
(* GET /packets oldest first.                                              *)
(*                                                                         *)
(* A page is read in one transaction and the rows are counted in another.  *)
(* A row's kind is the severity of an alert or the protocol of a packet.   *)
(***************************************************************************)
EXTENDS Integers, FiniteSets

CONSTANTS
    Kinds, AlertStatuses,   \* what rows are filtered by, and
    Anything,               \* no filter
    PageLimits,             \* page sizes a client asks for
    MaxRows                 \* bound: instants a row may be stamped with

ASSUME ListingsAssumption ==
    /\ AlertStatuses # {} /\ PageLimits \subseteq Nat \ {0} /\ MaxRows \in Nat

VARIABLES
    listing,   \* the list gone through: "alerts" or "packets"
    rows,      \* the table, by the timestamps of its rows
    query,     \* the filters and the limit of the client
    offset,    \* rows the client has skipped so far
    turn,      \* "idle", "asking", "listed" or "done"
    page,      \* the rows of the page that was read
    due,       \* history: rows that have matched since the first request and
               \* were on no page yet
    shifted    \* history: a row left the list ahead of the client's offset

listings == <<listing, rows, query, offset, turn, page, due, shifted>>

Times == 1 .. MaxRows

Queries ==
    [kind : Kinds \cup {Anything}, status : AlertStatuses \cup {Anything},
     recent : BOOLEAN, limit : PageLimits]

(* The WHERE clauses.  GET /packets has no filter by status or age.        *)
Matching(row, q) ==
    /\ q.kind \in {row.kind, Anything}
    /\ q.status \in {row.status, Anything}
    /\ q.recent => ~row.aged

Matched(q) == {t \in DOMAIN rows : Matching(rows[t], q)}

(* Mutant: alerts oldest first.                                            *)
BeforeUp(t, u) == t < u

(* ORDER BY: t is listed before u.                                         *)
Before(t, u) == IF listing = "alerts" THEN t > u ELSE t < u

(* OFFSET and LIMIT, by the place of a row in the list.                    *)
Ahead(t) == {u \in Matched(query) : Before(u, t)}
Place(t) == Cardinality(Ahead(t))
Slice == {t \in Matched(query) : Place(t) \in offset .. offset + query.limit - 1}

ListingsInit ==
    /\ listing \in {"alerts", "packets"}
    /\ rows = [t \in {} |-> Anything]
    /\ query \in [kind : {Anything}, status : {Anything}, recent : {FALSE}, limit : PageLimits]
    /\ offset = 0 /\ turn = "idle" /\ page = {} /\ due = {} /\ shifted = FALSE

----------------------------------------------------------------------------
(* A row commits at its place in time: threads of the sensor may commit    *)
(* two in the other order.                                                 *)
AddRow(kind, t) ==
    /\ t \notin DOMAIN rows
    /\ rows' = [u \in DOMAIN rows \cup {t} |->
                  IF u # t THEN rows[u]
                  ELSE [kind |-> kind, status |-> CHOOSE s \in AlertStatuses : TRUE,
                        aged |-> \E v \in DOMAIN rows : v > t /\ rows[v].aged]]
    /\ UNCHANGED <<listing, query, offset, turn, page, due, shifted>>

(* PATCH /alerts/{id}: an alert may leave a list filtered by status.       *)
SetTriage(t, status) ==
    /\ listing = "alerts" /\ rows[t].status # status
    /\ rows' = [rows EXCEPT ![t].status = status]
    /\ LET leaves == query.status = rows[t].status
       IN  /\ due' = IF leaves THEN due \ {t} ELSE due
           /\ shifted' = (shifted \/ leaves)
    /\ UNCHANGED <<listing, query, offset, turn, page>>

(* _prune_alerts and _prune_packets delete what is before a cutoff.        *)
Sweep(cutoff) ==
    LET kept == {t \in DOMAIN rows : t > cutoff}
    IN  /\ rows' = [t \in kept |-> rows[t]]
        /\ due' = due \cap kept
        /\ shifted' = (shifted \/ listing = "packets")
        /\ UNCHANGED <<listing, query, offset, turn, page>>

(* The oldest alert that was within the last N hours no longer is.         *)
GrowOld(t) ==
    /\ listing = "alerts" /\ ~rows[t].aged /\ \A u \in DOMAIN rows : u < t => rows[u].aged
    /\ rows' = [rows EXCEPT ![t].aged = TRUE]
    /\ due' = IF query.recent THEN due \ {t} ELSE due
    /\ UNCHANGED <<listing, query, offset, turn, page, shifted>>

----------------------------------------------------------------------------
(* get_pagination refuses a limit below 1 or above MAX_PAGE_SIZE.          *)
FirstPage(q) ==
    /\ turn = "idle" /\ turn' = "asking"
    /\ listing = "packets" => q.status = Anything /\ ~q.recent
    /\ query' = q /\ offset' = 0 /\ due' = Matched(q) /\ shifted' = FALSE
    /\ UNCHANGED <<listing, rows, page>>

ReadPage ==
    /\ turn = "asking" /\ turn' = "listed"
    /\ page' = Slice
    /\ UNCHANGED <<listing, rows, query, offset, due, shifted>>

(* `total` is only reported where it is cheap: for all alerts, or those of *)
(* one severity.                                                           *)
Counted == listing = "alerts" /\ query.status = Anything /\ ~query.recent

Total == Cardinality(Matched(query))

(* build_meta.                                                             *)
HasMore == IF Counted THEN offset + Cardinality(page) < Total ELSE Cardinality(page) = query.limit

(* The page is answered, and the dashboard asks for the next one, a whole  *)
(* page further, or is done.                                               *)
AnswerPage ==
    /\ turn = "listed"
    /\ turn' = IF HasMore THEN "asking" ELSE "done"
    /\ due' = due \ page /\ page' = {}
    /\ offset' = offset + query.limit
    /\ UNCHANGED <<listing, rows, query, shifted>>

Leave ==
    /\ turn = "done" /\ turn' = "idle"
    /\ query' = [query EXCEPT !.kind = Anything, !.status = Anything, !.recent = FALSE]
    /\ offset' = 0 /\ due' = {} /\ shifted' = FALSE
    /\ UNCHANGED <<listing, rows, page>>

ListingsNext ==
    \/ \E kind \in Kinds, t \in Times : AddRow(kind, t)
    \/ \E t \in DOMAIN rows :
         GrowOld(t) \/ Sweep(t) \/ \E status \in AlertStatuses : SetTriage(t, status)
    \/ \E q \in Queries : FirstPage(q)
    \/ ReadPage \/ AnswerPage \/ Leave

ListingsSpec == ListingsInit /\ [][ListingsNext]_listings

----------------------------------------------------------------------------
ListingsTypeOK ==
    /\ listing \in {"alerts", "packets"} /\ turn \in {"idle", "asking", "listed", "done"}
    /\ DOMAIN rows \subseteq Times
    /\ rows \in [DOMAIN rows -> [kind : Kinds, status : AlertStatuses, aged : BOOLEAN]]
    /\ query \in Queries /\ offset \in Nat
    /\ page \subseteq Times /\ due \subseteq Times /\ shifted \in BOOLEAN

(* "Every list endpoint returns the same envelope, so a client writes one  *)
(* helper": a client that follows has_more to the end has seen every row   *)
(* that matched and stood all along, although pages are counted off from   *)
(* the front while rows come and go and the count is of another moment.    *)
(* It does not hold where rows leave the front of the list: an alert       *)
(* triaged out of a list filtered by status, and packets, oldest first, as *)
(* they are swept.                                                         *)
NoneMissed == turn = "done" /\ ~shifted => due = {}
=============================================================================
