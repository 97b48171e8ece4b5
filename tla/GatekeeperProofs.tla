-------------------------- MODULE GatekeeperProofs --------------------------
(***************************************************************************)
(* What the gatekeeper guarantees for every number of callers and every    *)
(* configuration: its queue accounting, its quotas and its pace.           *)
(***************************************************************************)
EXTENDS Gatekeeper, FiniteSetTheorems, TLAPS

(* Each part needs another: the accounting keeps `waiting` a natural       *)
(* number, the types make the windows records of numbers, and the attempts *)
(* stay in range because a caller sleeps only before one it still has.     *)
IInv == TypeOK /\ RetriesLeft /\ QueueAccounting /\ QuotaRespected

LEMMA GotoType ==
  ASSUME pc \in [Callers -> Labels], NEW c \in Callers, NEW x \in Labels,
         Goto(c, x)
  PROVE  pc' \in [Callers -> Labels]
BY DEF Goto

(* The windows stay records of numbers within the limit.                   *)
LEMMA RefreshedType ==
  ASSUME NEW w \in Window, NEW len \in Nat, NEW limit \in Nat, w.count <= limit
  PROVE  /\ Refreshed(w, len) \in Window
         /\ Refreshed(w, len).count <= limit
BY DEF Refreshed, Window

LEMMA RecordedType ==
  ASSUME NEW w \in Window, NEW limit \in Nat, ~Exhausted(w, limit)
  PROVE  /\ Recorded(w) \in Window
         /\ Recorded(w).count <= limit
BY DEF Recorded, Exhausted, Window

LEMMA OlderType ==
  ASSUME NEW w \in Window, NEW len \in Nat
  PROVE  Older(w, len) \in Window /\ Older(w, len).count = w.count
BY DEF Older, Window

(* Moving a caller between two places inside leaves the occupants alone.   *)
LEMMA InsideMove ==
  ASSUME pc \in [Callers -> Labels], NEW c \in Callers, NEW x,
         x # "out", pc[c] # "out", Goto(c, x)
  PROVE  Occupants' = Occupants
BY DEF Goto, Occupants

LEMMA RetriesKept ==
  ASSUME TypeOK, RetriesLeft, NEW c \in Callers, NEW x, x # "backoff",
         Goto(c, x), UNCHANGED attempt
  PROVE  RetriesLeft'
BY DEF Goto, RetriesLeft, TypeOK

LEMMA OccupantsFinite == IsFiniteSet(Occupants)
BY FiniteCallers, FS_Subset DEF Occupants

(* The parts hold before any caller has come ...                           *)
LEMMA InitInv == Init => IInv
<1> SUFFICES ASSUME Init PROVE IInv
  OBVIOUS
<1>1. TypeOK
  BY GatekeeperAssumption DEF Init, TypeOK, Window, Labels
<1>2. Occupants = {}
  BY DEF Init, Occupants
<1>3. QueueAccounting
  BY <1>2, FS_EmptySet, GatekeeperAssumption DEF Init, QueueAccounting
<1>4. QuotaRespected
  BY GatekeeperAssumption DEF Init, QuotaRespected
<1>5. RetriesLeft
  BY DEF Init, RetriesLeft
<1> QED BY <1>1, <1>3, <1>4, <1>5 DEF IInv

LEMMA TickInv == ASSUME IInv, Tick PROVE IInv'
<1> USE DEF IInv, Tick
<1>1. minute' \in Window /\ day' \in Window
  BY OlderType, GatekeeperAssumption DEF TypeOK
<1>4. stretch' \in Window
  BY OlderType, GatekeeperAssumption DEF TypeOK, Over, Window
<1>2. QuotaRespected'
  BY OlderType, GatekeeperAssumption DEF TypeOK, QuotaRespected
<1>3. left' \in [Callers -> Nat]
  BY DEF TypeOK
<1>5. TypeOK'
  BY <1>1, <1>3, <1>4 DEF TypeOK
<1>6. QueueAccounting' /\ RetriesLeft'
  BY DEF QueueAccounting, Occupants, RetriesLeft
<1> QED BY <1>2, <1>5, <1>6

LEMMA EnterQueueInv ==
  ASSUME IInv, NEW c \in Callers, EnterQueue(c) PROVE IInv'
<1> USE DEF IInv, EnterQueue
<1>1. TypeOK'
  <2>1. pc' \in [Callers -> Labels]
    BY GotoType DEF TypeOK, Labels
  <2> QED BY <2>1 DEF TypeOK, windows, history
<1>2. QueueAccounting'
  <2>1. Occupants' = Occupants \cup {c} /\ c \notin Occupants
    BY DEF Occupants, Goto, TypeOK
  <2>2. Cardinality(Occupants') = Cardinality(Occupants) + 1
    BY <2>1, FS_AddElement, OccupantsFinite
  <2> QED BY <2>2, GatekeeperAssumption DEF QueueAccounting, TypeOK
<1>3. QuotaRespected'
  BY DEF QuotaRespected, windows
<1>4. RetriesLeft'
  BY DEF RetriesLeft, Goto, TypeOK
<1> QED BY <1>1, <1>2, <1>3, <1>4

LEMMA SetDeadlineInv ==
  ASSUME IInv, NEW c \in Callers, SetDeadline(c) PROVE IInv'
<1> USE DEF IInv, SetDeadline
<1>1. TypeOK'
  <2>1. pc' \in [Callers -> Labels]
    BY GotoType DEF TypeOK, Labels
  <2>2. left' \in [Callers -> Nat]
    BY GatekeeperAssumption DEF TypeOK, MaxWait
  <2>3. others' \in [Callers -> 0 .. PerMinute]
    BY GatekeeperAssumption DEF TypeOK
  <2> QED BY <2>1, <2>2, <2>3 DEF TypeOK, windows
<1>2. QueueAccounting'
  BY InsideMove DEF QueueAccounting, TypeOK
<1>3. QuotaRespected'
  BY DEF QuotaRespected, windows
<1>4. RetriesLeft'
  BY RetriesKept
<1> QED BY <1>1, <1>2, <1>3, <1>4

(* The one step that fills the windows.                                    *)
LEMMA TrySlotInv ==
  ASSUME IInv, NEW c \in Callers, TrySlot(c) PROVE IInv'
<1> USE DEF IInv
<1> DEFINE d == Refreshed(day, DayLen)
           m == Refreshed(minute, MinuteLen)
<1>1. /\ d \in Window /\ d.count <= PerDay
      /\ m \in Window /\ m.count <= PerMinute
  BY RefreshedType, GatekeeperAssumption DEF TypeOK, QuotaRespected
<1>2. /\ pc' \in [Callers -> Labels]
      /\ Occupants' = Occupants
  BY GotoType, InsideMove DEF TrySlot, TypeOK, Labels, history
<1>3. /\ minute' \in Window /\ minute'.count <= PerMinute
      /\ day' \in Window /\ day'.count <= PerDay
  <2>1. CASE Exhausted(d, PerDay)
    BY <1>1, <2>1 DEF TrySlot, TypeOK, QuotaRespected
  <2>2. CASE ~Exhausted(d, PerDay) /\ ~Exhausted(m, PerMinute)
    <3>1. day' = Recorded(d) /\ minute' = Recorded(m)
      BY <2>2 DEF TrySlot
    <3> HIDE DEF d, m
    <3> QED BY <1>1, <2>2, <3>1, RecordedType, GatekeeperAssumption
  <2>3. CASE ~Exhausted(d, PerDay) /\ Exhausted(m, PerMinute)
    BY <1>1, <2>3 DEF TrySlot
  <2> QED BY <2>1, <2>2, <2>3
<1> HIDE DEF d, m
<1>4. stretch' \in Window
  <2>1. stretch' \in {stretch, Recorded(stretch)}
    BY DEF TrySlot, history
  <2> QED BY <2>1 DEF TypeOK, Recorded, Window
<1>9. others' \in [Callers -> 0 .. PerMinute]
  <2>1. \/ UNCHANGED others
        \/ others' = [o \in Callers |->
                         IF AwaitSlot(o) /\ o # c /\ others[o] < PerMinute
                         THEN others[o] + 1 ELSE others[o]]
    BY DEF TrySlot, history
  <2>2. others \in [Callers -> 0 .. PerMinute]
    BY DEF TypeOK
  <2>3. ASSUME NEW o \in Callers
        PROVE  (IF AwaitSlot(o) /\ o # c /\ others[o] < PerMinute
                THEN others[o] + 1 ELSE others[o]) \in 0 .. PerMinute
    BY <2>2, GatekeeperAssumption
  <2> QED BY <2>1, <2>2, <2>3
<1>5. UNCHANGED <<waiting, attempt, left>>
  BY DEF TrySlot
<1>6. TypeOK'
  BY <1>2, <1>3, <1>4, <1>5, <1>9 DEF TypeOK
<1>7. QueueAccounting'
  BY <1>2, <1>5 DEF QueueAccounting
<1>8. QuotaRespected'
  BY <1>3 DEF QuotaRespected
<1>10. RetriesLeft'
  BY <1>5, RetriesKept DEF TrySlot
<1> QED BY <1>6, <1>7, <1>8, <1>10

LEMMA CheckDeadlineInv ==
  ASSUME IInv, NEW c \in Callers, CheckDeadline(c) PROVE IInv'
<1> USE DEF IInv, CheckDeadline
<1>1. pc' \in [Callers -> Labels] /\ Occupants' = Occupants
  BY GotoType, InsideMove DEF TypeOK, Labels
<1>2. RetriesLeft'
  BY RetriesKept
<1> QED BY <1>1, <1>2
        DEF TypeOK, windows, history, QueueAccounting, QuotaRespected

LEMMA RespondInv ==
  ASSUME IInv, NEW c \in Callers, Respond(c) PROVE IInv'
<1> USE DEF IInv, Respond
<1>1. pc' \in [Callers -> Labels] /\ Occupants' = Occupants
  BY GotoType, InsideMove DEF TypeOK, Labels
<1>2. left' \in [Callers -> Nat]
  BY BackoffIsNatural DEF TypeOK
<1>3. RetriesLeft'
  BY DEF RetriesLeft, Goto, TypeOK
<1> QED BY <1>1, <1>2, <1>3
        DEF TypeOK, windows, history, QueueAccounting, QuotaRespected

LEMMA RetryInv ==
  ASSUME IInv, NEW c \in Callers, Retry(c) PROVE IInv'
<1> USE DEF IInv, Retry
<1>1. pc' \in [Callers -> Labels] /\ Occupants' = Occupants
  BY GotoType, InsideMove DEF TypeOK, Labels
<1>2. attempt' \in [Callers -> 0 .. Retries]
  BY GatekeeperAssumption DEF TypeOK, RetriesLeft
<1>3. RetriesLeft'
  BY DEF RetriesLeft, Goto, TypeOK
<1> QED BY <1>1, <1>2, <1>3
        DEF TypeOK, windows, history, QueueAccounting, QuotaRespected

LEMMA LeaveQueueInv ==
  ASSUME IInv, NEW c \in Callers, LeaveQueue(c) PROVE IInv'
<1> USE DEF IInv, LeaveQueue
<1>1. Occupants' = Occupants \ {c} /\ c \in Occupants
  BY DEF Occupants, Goto, TypeOK
<1>2. /\ Cardinality(Occupants') = Cardinality(Occupants) - 1
      /\ Cardinality(Occupants') \in Nat
  BY <1>1, OccupantsFinite, FS_RemoveElement, FS_CardinalityType
<1>3. QueueAccounting' /\ waiting' \in Nat
  BY <1>2, GatekeeperAssumption DEF QueueAccounting, TypeOK
<1>4. pc' \in [Callers -> Labels]
  BY GotoType DEF TypeOK, Labels
<1>5. /\ attempt' \in [Callers -> 0 .. Retries]
      /\ left' \in [Callers -> Nat]
      /\ others' \in [Callers -> 0 .. PerMinute]
  BY GatekeeperAssumption DEF Return, TypeOK
<1>6. RetriesLeft'
  BY DEF Return, RetriesLeft, Goto, TypeOK
<1> QED BY <1>3, <1>4, <1>5, <1>6 DEF TypeOK, windows, QuotaRespected

LEMMA StatusInv == ASSUME IInv, Status PROVE IInv'
<1> USE DEF IInv, Status
<1>1. /\ minute' \in Window /\ minute'.count <= PerMinute
      /\ day' \in Window /\ day'.count <= PerDay
  BY RefreshedType, GatekeeperAssumption DEF TypeOK, QuotaRespected
<1> QED BY <1>1
        DEF TypeOK, history, RetriesLeft, QueueAccounting, Occupants, QuotaRespected

(* ... every step of the clock or a caller keeps them ...                  *)
LEMMA StepInv == IInv /\ [Next]_vars => IInv'
<1> SUFFICES ASSUME IInv, [Next]_vars PROVE IInv'
  OBVIOUS
<1>1. CASE Tick
  BY <1>1, TickInv
<1>2. CASE Status
  BY <1>2, StatusInv
<1>3. ASSUME NEW c \in Callers, EnterQueue(c) PROVE IInv'
  BY <1>3, EnterQueueInv
<1>4. ASSUME NEW c \in Callers, Inside(c) PROVE IInv'
  BY <1>4, SetDeadlineInv, TrySlotInv, CheckDeadlineInv, RespondInv, RetryInv,
     LeaveQueueInv DEF Inside
<1>6. CASE Observe
  BY <1>6 DEF Observe, windows, IInv, TypeOK, Window, RetriesLeft,
              QueueAccounting, Occupants, QuotaRespected
<1>5. CASE UNCHANGED vars
  BY <1>5 DEF vars, windows, history, IInv, TypeOK, RetriesLeft,
              QueueAccounting, Occupants, QuotaRespected
<1> QED BY <1>1, <1>2, <1>3, <1>4, <1>5, <1>6 DEF Next

(* ... and so they hold in every reachable state.                          *)
LEMMA Invariance == Spec => []IInv
<1> QED BY InitInv, StepInv, PTL DEF Spec

----------------------------------------------------------------------------
(* The pace.  A stretch that is still counted has slots of two windows at  *)
(* most: the current one, and one before it that had begun no earlier than *)
(* a window's length ago; of the current one alone if that began before    *)
(* the stretch did.                                                        *)
Burst ==
    /\ stretch.count <= 2 * PerMinute
    /\ stretch.age < MinuteLen =>
         stretch.count <= minute.count + IF stretch.age < minute.age THEN 0 ELSE PerMinute

(* A caller that has waited for longer than the current window has seen    *)
(* every slot of it go to others.                                          *)
Outrun ==
    \A c \in Callers :
        AwaitSlot(c) /\ minute.age + left[c] < MinuteLen => others[c] >= minute.count

Pace == Burst /\ Outrun

LEMMA InitPace == Init => Pace
BY GatekeeperAssumption DEF Init, Pace, Burst, Outrun, AwaitSlot

(* A window that is found to be over was begun before any stretch that is  *)
(* still counted, and no caller has waited for longer than the next one.   *)
LEMMA RefreshPace ==
  ASSUME IInv, Pace, NEW m, m = Refreshed(minute, MinuteLen)
  PROVE  /\ stretch.age < MinuteLen =>
              stretch.count <= m.count + IF stretch.age < m.age THEN 0 ELSE PerMinute
         /\ \A c \in Callers :
              AwaitSlot(c) /\ m.age + left[c] < MinuteLen => others[c] >= m.count
<1> USE GatekeeperAssumption DEF IInv, TypeOK, Window, QuotaRespected, Pace
<1>1. CASE minute.age >= MinuteLen
  <2>1. m.age = 0 /\ m.count = 0
    BY <1>1 DEF Refreshed
  <2> QED
    BY <1>1, <2>1 DEF Burst
<1>2. CASE minute.age < MinuteLen
  BY <1>2 DEF Refreshed, Burst, Outrun
<1> QED
  BY <1>1, <1>2

LEMMA TickPace == ASSUME IInv, Pace, Tick PROVE Pace'
<1> USE GatekeeperAssumption DEF IInv, TypeOK, Window, QuotaRespected, Pace, Tick
<1>1. /\ minute'.count = minute.count
      /\ minute'.age = IF minute.age < MinuteLen THEN minute.age + 1 ELSE minute.age
  BY DEF Older
<1>2. \/ /\ stretch.age + 1 < MinuteLen
         /\ stretch'.age = stretch.age + 1 /\ stretch'.count = stretch.count
      \/ stretch'.age = MinuteLen /\ stretch'.count = 0
  BY DEF Older, Over
<1>3. Burst'
  BY <1>1, <1>2 DEF Burst
<1>4. ASSUME NEW c \in Callers, AwaitSlot(c)', minute'.age + left'[c] < MinuteLen
      PROVE  others'[c] >= minute'.count
  BY <1>1, <1>4 DEF Outrun, AwaitSlot
<1> QED
  BY <1>3, <1>4 DEF Outrun

LEMMA StatusPace == ASSUME IInv, Pace, Status PROVE Pace'
<1>1. Burst'
  BY RefreshPace DEF Status, Burst, Pace, history
<1>2. Outrun'
  BY RefreshPace DEF Status, Outrun, AwaitSlot, history
<1> QED
  BY <1>1, <1>2 DEF Pace

(* The one step that grants a slot counts it everywhere.                   *)
LEMMA TrySlotPace == ASSUME IInv, Pace, NEW c \in Callers, TrySlot(c) PROVE Pace'
<1> DEFINE d == Refreshed(day, DayLen)
           m == Refreshed(minute, MinuteLen)
<1> USE GatekeeperAssumption
<1>1. /\ stretch.age < MinuteLen =>
           stretch.count <= m.count + IF stretch.age < m.age THEN 0 ELSE PerMinute
      /\ \A o \in Callers :
           AwaitSlot(o) /\ m.age + left[o] < MinuteLen => others[o] >= m.count
  BY RefreshPace
<1>2. m \in Window /\ m.count <= PerMinute
  BY RefreshedType DEF IInv, TypeOK, QuotaRespected
<1>3. /\ \A o \in Callers \ {c} : pc'[o] = pc[o]
      /\ pc[c] = "try" /\ UNCHANGED left
  BY DEF TrySlot, Goto, IInv, TypeOK
<1>4. stretch \in Window /\ others \in [Callers -> 0 .. PerMinute] /\ left \in [Callers -> Nat]
      /\ pc \in [Callers -> Labels]
  BY DEF IInv, TypeOK
<1>5. CASE Exhausted(d, PerDay)
  <2>1. UNCHANGED <<minute, stretch, others>> /\ pc'[c] = "leaving"
    BY <1>4, <1>5 DEF TrySlot, Goto
  <2> QED
    BY <1>3, <2>1 DEF Pace, Burst, Outrun, AwaitSlot
<1>6. CASE ~Exhausted(d, PerDay) /\ ~Exhausted(m, PerMinute)
  <2>1. /\ minute' = Recorded(m) /\ pc'[c] = "calling"
        /\ stretch' = IF stretch.age < MinuteLen THEN Recorded(stretch) ELSE stretch
        /\ others' = [o \in Callers |->
                        IF AwaitSlot(o) /\ o # c /\ others[o] < PerMinute
                        THEN others[o] + 1 ELSE others[o]]
    BY <1>4, <1>6 DEF TrySlot, Goto
  <2>2. minute'.age = m.age /\ minute'.count = m.count + 1 /\ m.count < PerMinute
    BY <1>2, <1>6, <2>1 DEF Recorded, Exhausted, Window
  <2>3. /\ stretch'.age = stretch.age
        /\ stretch'.count = IF stretch.age < MinuteLen THEN stretch.count + 1 ELSE stretch.count
    BY <1>4, <2>1 DEF Recorded, Window
  <2> HIDE DEF m
  <2>4. Burst'
    BY <1>1, <1>2, <1>4, <2>2, <2>3 DEF Burst, Pace, Window
  <2>5. ASSUME NEW o \in Callers, AwaitSlot(o)', minute'.age + left'[o] < MinuteLen
        PROVE  others'[o] >= minute'.count
    <3>1. o # c /\ AwaitSlot(o)
      BY <1>3, <2>1, <2>5 DEF AwaitSlot
    <3> QED
      BY <1>1, <1>2, <1>3, <1>4, <2>1, <2>2, <2>5, <3>1 DEF Window
  <2> QED
    BY <2>4, <2>5 DEF Pace, Outrun
<1>7. CASE ~Exhausted(d, PerDay) /\ Exhausted(m, PerMinute)
  <2>1. minute' = m /\ UNCHANGED <<stretch, others>>
    BY <1>7 DEF TrySlot, history
  <2> HIDE DEF m
  <2>2. Burst'
    BY <1>1, <2>1 DEF Burst, Pace
  <2>3. \A o \in Callers : AwaitSlot(o)' => AwaitSlot(o)
    BY <1>3 DEF AwaitSlot
  <2> QED
    BY <1>1, <1>3, <2>1, <2>2, <2>3 DEF Pace, Outrun
<1> QED
  BY <1>5, <1>6, <1>7 DEF TrySlot

(* The other steps of a caller grant nothing; only one that has just fixed *)
(* its deadline begins to wait, with a whole window's length before it.    *)
LEMMA CallerPace ==
  ASSUME IInv, Pace, NEW c \in Callers,
         \/ EnterQueue(c) \/ SetDeadline(c) \/ CheckDeadline(c)
         \/ Respond(c) \/ Retry(c) \/ LeaveQueue(c)
  PROVE  Pace'
<1> USE GatekeeperAssumption DEF IInv, TypeOK
<1>1. UNCHANGED <<minute, stretch>>
  BY DEF EnterQueue, SetDeadline, CheckDeadline, Respond, Retry, LeaveQueue, windows, history
<1>2. \A o \in Callers \ {c} :
        pc'[o] = pc[o] /\ left'[o] = left[o] /\ others'[o] = others[o]
  BY DEF EnterQueue, SetDeadline, CheckDeadline, Respond, Retry, LeaveQueue, Goto, Return,
         history
<1>3. AwaitSlot(c)' => \/ left'[c] = MinuteLen
                       \/ AwaitSlot(c) /\ left'[c] = left[c] /\ others'[c] = others[c]
  BY DEF EnterQueue, SetDeadline, CheckDeadline, Respond, Retry, LeaveQueue, Goto, AwaitSlot,
         MaxWait, history
<1>4. Burst'
  BY <1>1 DEF Pace, Burst
<1>5. ASSUME NEW o \in Callers, AwaitSlot(o)', minute'.age + left'[o] < MinuteLen
      PROVE  others'[o] >= minute'.count
  <2>1. CASE o = c
    BY <1>1, <1>3, <1>5, <2>1 DEF Pace, Outrun, Window
  <2>2. CASE o # c
    BY <1>1, <1>2, <1>5, <2>2 DEF Pace, Outrun, AwaitSlot
  <2> QED
    BY <2>1, <2>2
<1> QED
  BY <1>4, <1>5 DEF Pace, Outrun

LEMMA StepPace == IInv /\ Pace /\ [Next]_vars => Pace'
<1> SUFFICES ASSUME IInv, Pace, [Next]_vars PROVE Pace'
  OBVIOUS
<1>1. CASE Tick
  BY <1>1, TickPace
<1>2. CASE Status
  BY <1>2, StatusPace
<1>3. CASE Observe
  BY <1>3, GatekeeperAssumption
  DEF Observe, windows, IInv, TypeOK, Window, Pace, Burst, Outrun, AwaitSlot
<1>4. ASSUME NEW c \in Callers, EnterQueue(c) \/ Inside(c) PROVE Pace'
  BY <1>4, TrySlotPace, CallerPace DEF Inside
<1>5. CASE UNCHANGED vars
  BY <1>5 DEF vars, windows, history, Pace, Burst, Outrun, AwaitSlot
<1> QED
  BY <1>1, <1>2, <1>3, <1>4, <1>5 DEF Next

----------------------------------------------------------------------------
(* Every variable of the gatekeeper keeps to its range.                    *)
THEOREM TypeCorrect == Spec => []TypeOK
<1>1. IInv => TypeOK
  BY DEF IInv
<1> QED BY <1>1, Invariance, PTL

(* However many callers race, `waiting` counts the callers inside          *)
(* execute() and never exceeds max_queue_depth: no way out leaks a place.  *)
THEOREM AccountingCorrect == Spec => []QueueAccounting
<1>1. IInv => QueueAccounting
  BY DEF IInv
<1> QED BY <1>1, Invariance, PTL

(* Neither window ever holds more requests than its limit.                 *)
THEOREM QuotasHold == Spec => []QuotaRespected
<1>1. IInv => QuotaRespected
  BY DEF IInv
<1> QED BY <1>1, Invariance, PTL

(* From whichever instant one counts, no more than twice the limit is let  *)
(* out in a window's length; and who is shed at its deadline in front of a *)
(* full minute was outrun by a whole minute's worth of others.             *)
THEOREM PaceIsKept == Spec => []PaceHolds
<1>1. IInv /\ Pace => PaceHolds
  <2> SUFFICES ASSUME IInv, Pace PROVE PaceHolds
    OBVIOUS
  <2>1. ShedWhenOutrun
    BY GatekeeperAssumption
    DEF ShedWhenOutrun, Pace, Outrun, AwaitSlot, Exhausted, IInv, TypeOK, Window
  <2> QED
    BY <2>1 DEF PaceHolds, BurstBounded, Pace, Burst
<1> QED
  BY InitPace, StepPace, Invariance, <1>1, PTL DEF Spec
=============================================================================
