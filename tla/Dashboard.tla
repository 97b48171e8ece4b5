------------------------------ MODULE Dashboard ------------------------------
(***************************************************************************)
(* The pages of the dashboard that ask the API and write through it, and   *)
(* the hook useApi beneath them.  Requests may be answered in any order,   *)
(* or not at all, while the user filters, turns pages, writes and leaves.  *)
(*                                                                         *)
(* A render and the effects it leaves behind are one step: the browser     *)
(* hands out no event in between.  A page of rows is a number.             *)
(***************************************************************************)
EXTENDS Naturals

CONSTANTS
    Filters,      \* what the list of alerts can be narrowed to
    MaxPages,     \* bound: pages of alerts to a filter
    MaxFetches,   \* bound: how often the pages ask
    MaxWrites,    \* bound: how often they write
    Blank, Failed

ASSUME DashboardAssumption == Filters # {} /\ MaxPages \in Nat

Subjects == [alerts |-> Filters, alert |-> {"first", "second"}, rules |-> {"all"}]
View(screen, of, page) == [screen |-> screen, of |-> of, page |-> page]

VARIABLES
    view,       \* what the page on screen is about
    data, error, loading,    \* its AsyncState
    asked,      \* requestId: of the newest fetch
    fetches,    \* fetches under way: [id, view, answer]
    busy,       \* whether the page waits for its write
    changes,    \* writes under way: [id, stage, mounted]
    turned,     \* history: whether Next was pressed since the filter was chosen
    pages,      \* filter -> pages of alerts there are
    writes,     \* writes the server has applied
    confirmed   \* history: the newest write a page knows to be done

dashboard == <<view, data, error, loading, asked, fetches, busy, changes, turned, pages, writes, confirmed>>
page == <<view, data, error, loading, asked, busy, turned, confirmed>>

DashboardInit ==
    /\ view = View("alerts", CHOOSE f \in Filters : TRUE, 0)
    /\ data = Blank /\ error = FALSE /\ loading = TRUE
    /\ asked = 1 /\ fetches = {[id |-> 1, view |-> view, answer |-> Blank]}
    /\ busy = FALSE /\ changes = {} /\ turned = FALSE
    /\ pages \in [Filters -> 0 .. MaxPages]
    /\ writes = 0 /\ confirmed = 0

----------------------------------------------------------------------------
(* The effect of useApi: what was shown stays, also the error.             *)
Fetch(v) ==
    /\ asked < MaxFetches
    /\ asked' = asked + 1
    /\ fetches' = fetches \cup {[id |-> asked + 1, view |-> v, answer |-> Blank]}
    /\ view' = v /\ loading' = TRUE

(* Another page is mounted, with a hook of its own.                        *)
Visit(screen) ==
    /\ screen # view.screen
    /\ \E of \in Subjects[screen] : Fetch(View(screen, of, 0))
    /\ data' = Blank /\ error' = FALSE /\ busy' = FALSE /\ turned' = FALSE
    /\ changes' = {[c EXCEPT !.mounted = FALSE] : c \in changes}
    /\ UNCHANGED <<pages, writes, confirmed>>

(* Within the history of the browser one alert may follow another.         *)
ShowOther(of) ==
    /\ view.screen = "alert" /\ of \in Subjects.alert \ {view.of}
    /\ Fetch(View("alert", of, 0))
    /\ UNCHANGED <<data, error, busy, changes, turned, pages, writes, confirmed>>

UpdateFilter(f) ==
    /\ view.screen = "alerts" /\ f # view.of
    /\ Fetch(View("alerts", f, 0))
    /\ turned' = FALSE
    /\ UNCHANGED <<data, error, busy, changes, pages, writes, confirmed>>

(* The pager stands below whatever rows are shown, those of an earlier     *)
(* question too, and is gone when there are none.                          *)
TurnPage ==
    /\ view.screen = "alerts" /\ data # Blank /\ data.items
    /\ \/ view.page > 0 /\ Fetch([view EXCEPT !.page = @ - 1]) /\ UNCHANGED turned
       \/ data.more /\ Fetch([view EXCEPT !.page = @ + 1]) /\ turned' = TRUE
    /\ UNCHANGED <<data, error, busy, changes, pages, writes, confirmed>>

Retry ==
    /\ error
    /\ Fetch(view)
    /\ UNCHANGED <<data, error, busy, changes, turned, pages, writes, confirmed>>

----------------------------------------------------------------------------
Reply(v) ==
    LET n == IF v.screen = "alerts" THEN pages[v.of] ELSE 1
    IN  [view |-> v, items |-> n > v.page, more |-> n > v.page + 1,
         none |-> n = 0, writes |-> writes]

(* request: the server replies, refuses or cannot be reached.              *)
Answer(f) ==
    /\ f.answer = Blank
    /\ \E a \in {Reply(f.view), Failed} :
         fetches' = (fetches \ {f}) \cup {[f EXCEPT !.answer = a]}
    /\ UNCHANGED <<page, changes, pages, writes>>

(* Mutant: the hook takes whatever answer comes.                           *)
SettleAny(f) ==
    /\ f.answer # Blank
    /\ fetches' = fetches \ {f}
    /\ loading' = FALSE /\ error' = (f.answer = Failed)
    /\ data' = IF f.answer = Failed THEN data ELSE f.answer
    /\ UNCHANGED <<view, asked, busy, changes, turned, pages, writes, confirmed>>

(* An answer that was superseded, or whose page is gone, is let go.        *)
Settle(f) ==
    /\ f.answer # Blank
    /\ fetches' = fetches \ {f}
    /\ IF f.id = asked
       THEN /\ loading' = FALSE /\ error' = (f.answer = Failed)
            /\ data' = IF f.answer = Failed THEN data ELSE f.answer
       ELSE UNCHANGED <<data, error, loading>>
    /\ UNCHANGED <<view, asked, busy, changes, turned, pages, writes, confirmed>>

----------------------------------------------------------------------------
(* changeStatus, enrich, toggle, reload: the detail page offers them only  *)
(* when it shows its alert, the rules page whatever it shows.              *)
Write ==
    /\ view.screen \in {"alert", "rules"} /\ ~busy /\ writes < MaxWrites
    /\ view.screen = "alert" => data # Blank /\ ~loading /\ ~error
    /\ busy' = TRUE
    /\ changes' = changes \cup {[id |-> asked, stage |-> "sent", mounted |-> TRUE]}
    /\ UNCHANGED <<view, data, error, loading, asked, fetches, turned, pages, writes, confirmed>>

(* The server may have applied what the browser takes for failed.          *)
Apply(c) ==
    /\ c.stage = "sent"
    /\ \E done \in BOOLEAN :
         /\ done => writes < MaxWrites
         /\ writes' = IF done THEN writes + 1 ELSE writes
         /\ \E stage \in {"failed"} \cup (IF done THEN {"done"} ELSE {}) :
              changes' = (changes \ {c}) \cup {[c EXCEPT !.stage = stage]}
    /\ UNCHANGED <<page, fetches, pages>>

(* What is done is asked for anew; a failure is told nobody.  React runs   *)
(* the effect that asks a little after the write has returned, which is    *)
(* one step here: the moment in between shows the answer from before.      *)
Written(c) ==
    /\ c.stage # "sent"
    /\ changes' = changes \ {c}
    /\ IF c.mounted
       THEN /\ busy' = FALSE
            /\ IF c.stage = "done" THEN Fetch(view) /\ confirmed' = writes
               ELSE UNCHANGED <<view, loading, asked, fetches, confirmed>>
       ELSE UNCHANGED <<view, loading, asked, fetches, busy, confirmed>>
    /\ UNCHANGED <<data, error, turned, pages, writes>>

(* Alerts come, go and are triaged elsewhere.                              *)
RowsChange ==
    /\ pages' \in [Filters -> 0 .. MaxPages]
    /\ UNCHANGED <<page, fetches, changes, writes>>

DashboardNext ==
    \/ \E screen \in DOMAIN Subjects : Visit(screen)
    \/ \E of \in Subjects.alert : ShowOther(of)
    \/ \E f \in Filters : UpdateFilter(f)
    \/ TurnPage \/ Retry \/ Write \/ RowsChange
    \/ \E f \in fetches : Answer(f) \/ Settle(f)
    \/ \E c \in changes : Apply(c) \/ Written(c)

DashboardSpec == DashboardInit /\ [][DashboardNext]_dashboard

----------------------------------------------------------------------------
(* A page that no longer loads and has no error to tell shows the answer   *)
(* to the question on screen, no older than any write it knows to be done. *)
ShowsItsAnswer ==
    ~loading /\ ~error /\ data # Blank => data.view = view /\ data.writes >= confirmed

(* "Or a user sees an empty page and assumes there are none": as long as   *)
(* nobody turned to a later page, none shown means none there.             *)
EmptyMeansNone ==
    ~loading /\ ~error /\ data # Blank /\ ~turned => data.items \/ data.none
=============================================================================
