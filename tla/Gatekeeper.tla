----------------------------- MODULE Gatekeeper -----------------------------
(***************************************************************************)
(* ApiGatekeeper and its RateLimitGuard: the door every call to one        *)
(* external service goes through.  The enrichment worker and the requests  *)
(* of the API call execute() on the same guard, whose lock makes one look  *)
(* at the two windows a single step; the deadline test, the provider call  *)
(* and the sleeps happen outside the lock.                                 *)
(*                                                                         *)
(* Times are relative and saturate (the age of a window, the seconds a     *)
(* caller still waits), so the clock needs no bound.                       *)
(***************************************************************************)
EXTENDS Naturals, FiniteSets

CONSTANTS
    Callers,        \* threads that call execute()
    MinuteLen,      \* WINDOW_SECONDS
    DayLen,         \* DAY_SECONDS
    PerMinute,      \* requests_per_minute
    PerDay,         \* requests_per_day
    MaxQueueDepth,  \* max_queue_depth
    Retries,        \* retry_attempts
    BackoffBase     \* retry_backoff_base_seconds

ASSUME GatekeeperAssumption ==
    /\ MinuteLen \in Nat \ {0} /\ DayLen \in Nat \ {0}
    /\ PerMinute \in Nat \ {0} /\ PerDay \in Nat \ {0}
    /\ MaxQueueDepth \in Nat \ {0}
    /\ Retries \in Nat /\ BackoffBase \in Nat \ {0}

ASSUME FiniteCallers == IsFiniteSet(Callers)

(* How long a caller waits for a slot: MAX_WAIT_SECONDS.                   *)
MaxWait == MinuteLen

(* How long a caller sleeps after a failed attempt.                        *)
Backoff(n) == BackoffBase * 2 ^ n

(* A fact of arithmetic the proofs cite: the provers do not know powers.   *)
ASSUME BackoffIsNatural == \A n \in 0 .. Retries : Backoff(n) \in Nat

VARIABLES
    minute, day,  \* the two FixedWindows: age and count
    waiting,      \* callers that took a place in the queue
    pc,           \* where each caller is in execute()
    attempt,      \* its attempt, counted from 0
    left,         \* seconds until its deadline, or until its backoff ends
    stretch,      \* history: the time since somebody began to count, and the
                  \* slots granted since, until a window's length is over
    others        \* history: slots others got since the caller's deadline was set

windows == <<minute, day>>
history == <<stretch, others>>
vars == <<windows, waiting, pc, attempt, left, history>>

Labels == {"out", "start", "try", "check", "calling", "backoff", "leaving"}
Window == [age : Nat, count : Nat]

Goto(c, label) == pc' = [pc EXCEPT ![c] = label]
Occupants == {c \in Callers : pc[c] # "out"}
AwaitSlot(c) == pc[c] \in {"try", "check"}

----------------------------------------------------------------------------
Init ==
    /\ minute = [age |-> 0, count |-> 0] /\ day = [age |-> 0, count |-> 0]
    /\ waiting = 0
    /\ pc = [c \in Callers |-> "out"]
    /\ attempt = [c \in Callers |-> 0]
    /\ left = [c \in Callers |-> 0]
    /\ stretch = [age |-> 0, count |-> 0]
    /\ others = [c \in Callers |-> 0]

Older(w, len) == [w EXCEPT !.age = IF @ < len THEN @ + 1 ELSE @]

Over == [age |-> MinuteLen, count |-> 0]

Tick ==
    /\ minute' = Older(minute, MinuteLen)
    /\ day' = Older(day, DayLen)
    /\ left' = [c \in Callers |-> IF left[c] > 0 THEN left[c] - 1 ELSE 0]
    /\ stretch' = IF stretch.age + 1 < MinuteLen THEN Older(stretch, MinuteLen) ELSE Over
    /\ UNCHANGED <<waiting, pc, attempt, others>>

(* Somebody begins to count the slots that are granted.                    *)
Observe ==
    /\ stretch' = [age |-> 0, count |-> 0]
    /\ UNCHANGED <<windows, waiting, pc, attempt, left, others>>

(* Mutant: the window keeps its start, only the counter is reset.          *)
RefreshedCountOnly(w, len) == IF w.age >= len THEN [w EXCEPT !.count = 0] ELSE w

(* FixedWindow.refresh: the next window starts at the look that finds the  *)
(* last one over.                                                          *)
Refreshed(w, len) == IF w.age >= len THEN [age |-> 0, count |-> 0] ELSE w
(* is_exhausted after its refresh.                                         *)
ExhaustedLate(w, limit) == w.count > limit  \* Mutant: off by one.
Exhausted(w, limit) == w.count >= limit

Recorded(w) == [w EXCEPT !.count = @ + 1]

(* enter_queue: a caller that finds the queue full is refused at once.     *)
EnterQueue(c) ==
    /\ pc[c] = "out"
    /\ waiting < MaxQueueDepth
    /\ waiting' = waiting + 1
    /\ Goto(c, "start")
    /\ UNCHANGED <<windows, attempt, left, history>>

(* acquire_slot fixes the deadline, then polls.                            *)
SetDeadline(c) ==
    /\ pc[c] = "start"
    /\ left' = [left EXCEPT ![c] = MaxWait]
    /\ others' = [others EXCEPT ![c] = 0]
    /\ Goto(c, "try")
    /\ UNCHANGED <<windows, waiting, attempt, stretch>>

(* One look at both windows under the lock.                                *)
TrySlot(c) ==
    /\ pc[c] = "try"
    /\ LET d == Refreshed(day, DayLen)
           m == Refreshed(minute, MinuteLen)
       IN \/ /\ Exhausted(d, PerDay)
             /\ day' = d
             /\ Goto(c, "leaving")
             /\ UNCHANGED <<minute, stretch, others>>
          \/ /\ ~Exhausted(d, PerDay) /\ ~Exhausted(m, PerMinute)
             /\ day' = Recorded(d) /\ minute' = Recorded(m)
             /\ Goto(c, "calling")
             /\ stretch' = IF stretch.age < MinuteLen THEN Recorded(stretch) ELSE stretch
             /\ others' = [o \in Callers |->
                             IF AwaitSlot(o) /\ o # c /\ others[o] < PerMinute
                             THEN others[o] + 1 ELSE others[o]]
          \/ /\ ~Exhausted(d, PerDay) /\ Exhausted(m, PerMinute)
             /\ day' = d /\ minute' = m
             /\ Goto(c, "check")
             /\ UNCHANGED history
    /\ UNCHANGED <<waiting, attempt, left>>

(* Mutant: every poll sets a new deadline.                                 *)
CheckNoDeadline(c) ==
    /\ pc[c] = "check"
    /\ Goto(c, "start")
    /\ UNCHANGED <<windows, waiting, attempt, left, history>>

(* The deadline is looked at after the lock is released.                   *)
CheckDeadline(c) ==
    /\ pc[c] = "check"
    /\ Goto(c, IF left[c] = 0 THEN "leaving" ELSE "try")
    /\ UNCHANGED <<windows, waiting, attempt, left, history>>

(* The provider call returns, or raises and is retried after a backoff.    *)
Respond(c) ==
    /\ pc[c] = "calling"
    /\ \/ Goto(c, "leaving") /\ UNCHANGED left
       \/ /\ attempt[c] < Retries
          /\ left' = [left EXCEPT ![c] = Backoff(attempt[c])]
          /\ Goto(c, "backoff")
    /\ UNCHANGED <<windows, waiting, attempt, history>>

Retry(c) ==
    /\ pc[c] = "backoff" /\ left[c] = 0
    /\ attempt' = [attempt EXCEPT ![c] = @ + 1]
    /\ Goto(c, "start")
    /\ UNCHANGED <<windows, waiting, left, history>>

(* The locals of execute() end with the call.                              *)
Return(c) ==
    /\ attempt' = [attempt EXCEPT ![c] = 0]
    /\ left' = [left EXCEPT ![c] = 0]
    /\ others' = [others EXCEPT ![c] = 0]

(* Mutant: a caller shed while it waits keeps its place.                   *)
LeaveQueueLeaking(c) ==
    /\ pc[c] = "leaving"
    /\ waiting' = IF left[c] > 0 THEN waiting ELSE waiting - 1
    /\ Goto(c, "out")
    /\ Return(c)
    /\ UNCHANGED <<windows, stretch>>

(* leave_queue, in the finally of execute(), whatever the outcome was.     *)
LeaveQueue(c) ==
    /\ pc[c] = "leaving"
    /\ waiting' = waiting - 1
    /\ Goto(c, "out")
    /\ Return(c)
    /\ UNCHANGED <<windows, stretch>>

(* get_queue_status refreshes the windows it reports on.                   *)
Status ==
    /\ minute' = Refreshed(minute, MinuteLen)
    /\ day' = Refreshed(day, DayLen)
    /\ UNCHANGED <<waiting, pc, attempt, left, history>>

Inside(c) ==
    \/ SetDeadline(c) \/ TrySlot(c) \/ CheckDeadline(c)
    \/ Respond(c) \/ Retry(c) \/ LeaveQueue(c)

Next == Tick \/ Observe \/ Status \/ \E c \in Callers : EnterQueue(c) \/ Inside(c)

Spec == Init /\ [][Next]_vars

(* Time passes, a thread inside execute() is scheduled, and the provider   *)
(* clients bound every request with a timeout.                             *)
FairSpec == Spec /\ WF_vars(Tick) /\ \A c \in Callers : WF_vars(Inside(c))

----------------------------------------------------------------------------
TypeOK ==
    /\ minute \in Window /\ day \in Window
    /\ waiting \in Nat
    /\ pc \in [Callers -> Labels]
    /\ attempt \in [Callers -> 0 .. Retries]
    /\ left \in [Callers -> Nat]
    /\ stretch \in Window
    /\ others \in [Callers -> 0 .. PerMinute]

(* A caller only sleeps before an attempt it still has.                    *)
RetriesLeft == \A c \in Callers : pc[c] = "backoff" => attempt[c] < Retries

(* Every place in the queue belongs to one caller inside execute(), every  *)
(* way out of it (refusal, shedding, exhausted retries) gives the place    *)
(* back, and never more callers are inside than max_queue_depth.           *)
QueueAccounting ==
    /\ waiting = Cardinality(Occupants)
    /\ waiting <= MaxQueueDepth

(* No interleaving of callers overfills either window: the two checks and  *)
(* the two records are one critical section (acquire_slot).                *)
QuotaRespected == minute.count <= PerMinute /\ day.count <= PerDay

(* "A fixed window [...] permits a burst of up to 2x the limit": from      *)
(* whichever instant one counts, at most 2 * PerMinute requests are let    *)
(* out in a window's length, the retries included.                         *)
BurstBounded == stretch.count <= 2 * PerMinute

(* A caller at its deadline in front of a full minute was outrun: others   *)
(* got a whole minute's worth of slots while it waited (the reason given   *)
(* for MAX_WAIT_SECONDS being one full window).                            *)
ShedWhenOutrun ==
    \A c \in Callers :
        /\ pc[c] = "check" /\ left[c] = 0
        /\ minute.age < MinuteLen /\ Exhausted(minute, PerMinute)
        => others[c] >= PerMinute

(* Under load the burst is bounded and nobody is shed without cause.       *)
PaceHolds == BurstBounded /\ ShedWhenOutrun

(* Every caller that got into the queue gets out of it, by a result or an  *)
(* error, however the others compete: execute() never hangs.               *)
CallersLeave == \A c \in Callers : pc[c] # "out" ~> pc[c] = "out"
=============================================================================
