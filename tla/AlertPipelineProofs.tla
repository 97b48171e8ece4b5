------------------------ MODULE AlertPipelineProofs ------------------------
(* Proofs about AlertPipeline, for every set of threads and keys and every *)
(* value of the bounds.                                                    *)
EXTENDS AlertPipeline, FiniteSetTheorems, TLAPS

(* Merge, Load and Copy index by what a thread has in hand: that the types *)
(* survive them needs InHand beside TypeOK.                                *)
IInv == TypeOK /\ InHand

----------------------------------------------------------------------------
(* What the moves and the dictionary operations preserve.                  *)

LEMMA GotoType ==
  ASSUME pc \in [Threads -> Labels], NEW t \in Threads, NEW x,
         x \in Labels, Goto(t, x)
  PROVE  pc' \in [Threads -> Labels]
BY DEF Goto

LEMMA UntrackType ==
  ASSUME TypeOK, NEW k \in Keys, active' = [active EXCEPT ![k] = NoAlert],
         before' = Without(k)
  PROVE  /\ active' \in [Keys -> Ids \cup {NoAlert}]
         /\ before' \subseteq (Tracked' \X Tracked')
BY DEF TypeOK, Tracked, Without

LEMMA AtEndType ==
  ASSUME TypeOK, NEW k \in Tracked
  PROVE  AtEnd(k) \subseteq (Tracked \X Tracked)
BY DEF TypeOK, Tracked, AtEnd, Without

LEMMA TrackType ==
  ASSUME TypeOK, NEW k \in Keys, NEW i \in Ids,
         active' = [active EXCEPT ![k] = i],
         before' = IF k \in Tracked THEN before ELSE AtEnd(k)
  PROVE  /\ active' \in [Keys -> Ids \cup {NoAlert}]
         /\ before' \subseteq (Tracked' \X Tracked')
<1>1. active' \in [Keys -> Ids \cup {NoAlert}]
  BY DEF TypeOK
<1>2. Tracked' = Tracked \cup {k}
  BY DEF TypeOK, Tracked, Ids, NoAlert
<1>3. before' \subseteq (Tracked \cup {k}) \X (Tracked \cup {k})
  BY DEF TypeOK, AtEnd, Without
<1>4. QED
  BY <1>1, <1>2, <1>3

LEMMA CommitType ==
  ASSUME IInv, NEW t \in Threads, Commit(t)
  PROVE  /\ row' \in [Ids -> Nat]
         /\ unsaved' \subseteq Ids /\ crossed' \subseteq Ids
         /\ refused' \subseteq Ids /\ raised' \subseteq Ids /\ forgotten' \subseteq Ids
<1>1. own[t] \in Ids /\ found[t] \in Ids
  BY DEF IInv, TypeOK, InHand, Commit
<1>2. CASE \E x : Stored(t, x)
  <2>1. Written(t) \in Nat
    BY <1>1 DEF IInv, TypeOK, Written
  <2>2. QED
    BY <1>1, <1>2, <2>1 DEF IInv, TypeOK, Stored
<1>3. CASE NotStored(t)
  BY <1>1, <1>3 DEF IInv, TypeOK, NotStored, Abandon
<1>4. QED
  BY <1>2, <1>3 DEF Commit

----------------------------------------------------------------------------
LEMMA InitInv == Init => IInv
<1> SUFFICES ASSUME Init PROVE IInv
  OBVIOUS
<1>1. (CHOOSE k \in Keys : TRUE) \in Keys
  BY FiniteThreadsAndKeys DEF Keys
<1>2. alert \in [Ids -> [key : Keys, time : Nat, seen : Nat, occ : Nat]]
  BY <1>1 DEF Init
<1>3. pc \in [Threads -> Labels]
  BY DEF Init, Labels
<1>4. TypeOK
  <2>1. active \in [Keys -> Ids \cup {NoAlert}] /\ before \subseteq Tracked \X Tracked
    BY DEF Init
  <2>2. /\ own \in [Threads -> Ids \cup {NoAlert}]
        /\ expired \in [Threads -> SUBSET Keys]
        /\ found \in [Threads -> Ids \cup {NoAlert}]
    BY DEF Init
  <2>3. /\ row \in [Ids -> Nat] /\ latest \in [Ids -> Nat]
        /\ base \in [Threads -> Nat] /\ pending \in [Threads -> Nat]
    BY DEF Init
  <2>4. /\ clock \in 0 .. MaxTime /\ built \in 0 .. MaxAlerts
        /\ resets \in 0 .. MaxResets
    BY PipelineAssumption DEF Init
  <2>5. QED
    BY <1>2, <1>3, <2>1, <2>2, <2>3, <2>4 DEF Init, TypeOK
<1>5. InHand
  BY DEF Init, InHand
<1>6. QED
  BY <1>4, <1>5 DEF IInv

LEMMA StepInv == IInv /\ [Next]_vars => IInv'
<1> SUFFICES ASSUME IInv, [Next]_vars PROVE IInv'
  OBVIOUS
<1> USE PipelineAssumption DEF IInv
<1>1. CASE Tick
  BY <1>1 DEF Tick, TypeOK, InHand, Tracked, tracker, persisted, saving, history
<1>2. CASE Reset
  <2>1. active' \in [Keys -> Ids \cup {NoAlert}]
    BY <1>2 DEF Reset
  <2>2. forgotten' \subseteq Ids
    BY <1>2 DEF Reset, TypeOK, Tracked
  <2>3. TypeOK'
    BY <1>2, <2>1, <2>2 DEF Reset, TypeOK, persisted, saving
  <2>4. InHand'
    BY <1>2 DEF Reset, InHand
  <2>5. QED
    BY <2>3, <2>4
<1>3. ASSUME NEW t \in Threads, Begin(t) PROVE IInv'
  <2>1. pc' \in [Threads -> Labels]
    BY <1>3, GotoType DEF Begin, TypeOK, Labels
  <2>2. PICK k \in Keys, s \in Nat :
           /\ alert' = [alert EXCEPT ![built + 1] =
                          [key |-> k, time |-> s, seen |-> s, occ |-> 1]]
           /\ latest' = [latest EXCEPT ![built + 1] = s]
    <3>1. Reports(t) \subseteq Keys
      BY DEF Reports, Keys
    <3>2. Stamps(t) \subseteq Nat
      BY DEF Stamps, TypeOK
    <3>3. QED
      BY <1>3, <3>1, <3>2 DEF Begin
  <2>3. built + 1 \in Ids
    BY <1>3 DEF Begin, TypeOK, Ids
  <2>4. InHand'
    BY <1>3, <2>3 DEF Begin, Goto, TypeOK, InHand, Ids, NoAlert, tracker
  <2>5. /\ alert' \in [Ids -> [key : Keys, time : Nat, seen : Nat, occ : Nat]]
         /\ latest' \in [Ids -> Nat]
    BY <2>2, <2>3 DEF TypeOK
  <2>6. TypeOK'
    <3>1. built' \in 0 .. MaxAlerts /\ own' \in [Threads -> Ids \cup {NoAlert}]
      BY <1>3, <2>3 DEF Begin, TypeOK
    <3>2. QED
      BY <1>3, <2>1, <2>5, <3>1 DEF TypeOK, Tracked, Begin, tracker, persisted, saving
  <2>7. QED
    BY <2>4, <2>6
<1>4. ASSUME NEW t \in Threads, PruneScan(t) PROVE IInv'
  <2>1. pc' \in [Threads -> Labels]
    <3>1. Goto(t, "drop") \/ Goto(t, "idle")
      BY <1>4 DEF PruneScan, Abandon
    <3>2. QED
      BY <3>1, GotoType DEF TypeOK, Labels
  <2>2. TypeOK'
    BY <1>4, <2>1 DEF TypeOK, InHand, Tracked, PruneScan, Abandon, Expired, tracker, persisted, saving
  <2>3. InHand'
    BY <1>4 DEF TypeOK, InHand, Goto, PruneScan, Abandon, Expired, tracker, persisted, saving
  <2>4. QED
    BY <2>2, <2>3
<1>5. ASSUME NEW t \in Threads, PruneDrop(t) PROVE IInv'
  <2>1. pc' \in [Threads -> Labels]
    <3>1. Goto(t, "idle") \/ UNCHANGED pc
      BY <1>5 DEF PruneDrop, Abandon
    <3>2. QED
      BY <3>1, GotoType DEF TypeOK, Labels
  <2>2. /\ active' \in [Keys -> Ids \cup {NoAlert}]
         /\ before' \subseteq (Tracked' \X Tracked')
    BY <1>5, UntrackType DEF PruneDrop, tracker, TypeOK, Tracked
  <2>3. /\ expired' \in [Threads -> SUBSET Keys]
         /\ forgotten' \subseteq Ids
         /\ disturbed' \subseteq Threads
    BY <1>5 DEF PruneDrop, Abandon, Disturb, TypeOK, InHand
  <2>4. TypeOK'
    BY <1>5, <2>1, <2>2, <2>3 DEF TypeOK, InHand, PruneDrop, Abandon, Disturb, tracker, persisted, saving
  <2>5. InHand'
    BY <1>5 DEF TypeOK, InHand, Goto, PruneDrop, Abandon, Disturb, tracker, persisted, saving
  <2>6. QED
    BY <2>4, <2>5
<1>6. ASSUME NEW t \in Threads, Lookup(t) PROVE IInv'
  <2>1. pc' \in [Threads -> Labels]
    <3>1. Goto(t, "insert") \/ Goto(t, "merge")
      BY <1>6 DEF Lookup
    <3>2. QED
      BY <3>1, GotoType DEF TypeOK, Labels
  <2>2. TypeOK'
    BY <1>6, <2>1 DEF TypeOK, InHand, Tracked, Lookup, KeyOf, tracker, persisted, saving, history
  <2>3. InHand'
    BY <1>6 DEF TypeOK, InHand, Goto, Lookup, KeyOf, tracker, persisted, saving, history
  <2>4. QED
    BY <2>2, <2>3
<1>7. ASSUME NEW t \in Threads, Merge(t) PROVE IInv'
  <2>1. pc' \in [Threads -> Labels]
    BY <1>7, GotoType DEF Merge, TypeOK, Labels
  <2>2. /\ found[t] \in Ids
         /\ alert[own[t]].time \in Nat
    BY <1>7 DEF Merge, TypeOK, InHand
  <2>3. /\ alert[found[t]] \in [key : Keys, time : Nat, seen : Nat, occ : Nat]
        /\ alert[found[t]].occ + 1 \in Nat
    BY <2>2 DEF TypeOK
  <2>4. alert' \in [Ids -> [key : Keys, time : Nat, seen : Nat, occ : Nat]]
    <3> DEFINE r == [alert[found[t]] EXCEPT !.occ = @ + 1,
                                            !.seen = alert[own[t]].time]
    <3>1. r \in [key : Keys, time : Nat, seen : Nat, occ : Nat]
      BY <2>2, <2>3
    <3>2. alert' = [alert EXCEPT ![found[t]] = r]
      BY <1>7 DEF Merge
    <3> HIDE DEF r
    <3>3. QED
      BY <2>2, <3>1, <3>2 DEF TypeOK
  <2>5. latest' \in [Ids -> Nat]
    BY <1>7, <2>2 DEF Merge, TypeOK
  <2>6. TypeOK'
    BY <1>7, <2>1, <2>2, <2>3, <2>4, <2>5 DEF TypeOK, InHand, Tracked, Merge, tracker, persisted, saving
  <2>7. InHand'
    BY <1>7 DEF TypeOK, InHand, Goto, Merge, tracker, persisted, saving
  <2>8. QED
    BY <2>6, <2>7
<1>8. ASSUME NEW t \in Threads, Touch(t) PROVE IInv'
  <2>1. pc' \in [Threads -> Labels]
    <3>1. Goto(t, "getActive") \/ Goto(t, "idle")
      BY <1>8 DEF Touch, Abandon
    <3>2. QED
      BY <3>1, GotoType DEF TypeOK, Labels
  <2>2. before' \subseteq (Tracked' \X Tracked')
    BY <1>8, AtEndType DEF Touch, TypeOK, Tracked
  <2>3. /\ forgotten' \subseteq Ids
         /\ disturbed' \subseteq Threads
    BY <1>8 DEF Touch, Abandon, Disturb, TypeOK, InHand
  <2>4. TypeOK'
    BY <1>8, <2>1, <2>2, <2>3 DEF TypeOK, InHand, Touch, Abandon, Disturb, persisted, saving
  <2>5. InHand'
    BY <1>8 DEF TypeOK, InHand, Goto, Touch, Abandon, Disturb, persisted, saving
  <2>6. QED
    BY <2>4, <2>5
<1>9. ASSUME NEW t \in Threads, Insert(t) PROVE IInv'
  <2>1. pc' \in [Threads -> Labels]
    BY <1>9, GotoType DEF Insert, TypeOK, Labels
  <2>2. KeyOf(t) \in Keys /\ own[t] \in Ids
    BY <1>9 DEF Insert, TypeOK, InHand, KeyOf
  <2>3. /\ active' \in [Keys -> Ids \cup {NoAlert}]
         /\ before' \subseteq (Tracked' \X Tracked')
    BY <1>9, <2>2, TrackType DEF Insert
  <2>4. TypeOK'
    BY <1>9, <2>1, <2>2, <2>3 DEF TypeOK, InHand, Insert, Disturb, persisted, saving, history
  <2>5. InHand'
    BY <1>9 DEF TypeOK, InHand, Goto, Insert, Disturb, persisted, saving, history
  <2>6. QED
    BY <2>4, <2>5
<1>10. ASSUME NEW t \in Threads, EvictTest(t) PROVE IInv'
  <2>1. pc' \in [Threads -> Labels]
    <3>1. Goto(t, "pop") \/ Goto(t, "load")
      BY <1>10 DEF EvictTest
    <3>2. QED
      BY <3>1, GotoType DEF TypeOK, Labels
  <2>2. TypeOK'
    BY <1>10, <2>1 DEF TypeOK, InHand, Tracked, EvictTest, tracker, persisted, saving, history
  <2>3. InHand'
    BY <1>10 DEF TypeOK, InHand, Goto, EvictTest, tracker, persisted, saving, history
  <2>4. QED
    BY <2>2, <2>3
<1>11. ASSUME NEW t \in Threads, EvictPop(t) PROVE IInv'
  <2>1. pc' \in [Threads -> Labels]
    <3>1. Goto(t, "idle") \/ Goto(t, "evict")
      BY <1>11 DEF EvictPop, Abandon
    <3>2. QED
      BY <3>1, GotoType DEF TypeOK, Labels
  <2>2. /\ active' \in [Keys -> Ids \cup {NoAlert}]
         /\ before' \subseteq (Tracked' \X Tracked')
         /\ forgotten' \subseteq Ids
    BY <1>11, UntrackType DEF EvictPop, Abandon, Tracked, tracker, TypeOK, InHand
  <2>3. TypeOK'
    BY <1>11, <2>1, <2>2 DEF TypeOK, InHand, EvictPop, Abandon, Disturb, tracker, persisted, saving
  <2>4. InHand'
    BY <1>11 DEF TypeOK, InHand, Goto, EvictPop, Abandon, Disturb, tracker, persisted, saving
  <2>5. QED
    BY <2>3, <2>4
<1>12. ASSUME NEW t \in Threads, Load(t) PROVE IInv'
  <2>1. pc' \in [Threads -> Labels]
    BY <1>12, GotoType DEF Load, TypeOK, Labels
  <2>2. found[t] \in Ids /\ Crossing(t) \subseteq Threads
    BY <1>12 DEF Load, TypeOK, InHand, Crossing
  <2>3. /\ base' \in [Threads -> Nat]
        /\ met' \subseteq Threads /\ crossed' \subseteq Ids
    BY <1>12, <2>2 DEF Load, TypeOK
  <2>4. TypeOK'
    BY <1>12, <2>1, <2>3 DEF TypeOK, Tracked, Load, tracker, history
  <2>5. InHand'
    BY <1>12 DEF TypeOK, InHand, Goto, Load
  <2>6. QED
    BY <2>4, <2>5
<1>13. ASSUME NEW t \in Threads, Announce(t) PROVE IInv'
  <2>1. pc' \in [Threads -> Labels]
    BY <1>13, GotoType DEF Announce, TypeOK, Labels
  <2>2. TypeOK'
    BY <1>13, <2>1 DEF TypeOK, InHand, Tracked, Announce, tracker, saving, history
  <2>3. InHand'
    BY <1>13 DEF TypeOK, InHand, Goto, Announce, tracker, history
  <2>4. QED
    BY <2>2, <2>3
<1>14. ASSUME NEW t \in Threads, GetActive(t) PROVE IInv'
  <2>1. pc' \in [Threads -> Labels]
    <3>1. Goto(t, "idle") \/ Goto(t, "load")
      BY <1>14 DEF GetActive
    <3>2. QED
      BY <3>1, GotoType DEF TypeOK, Labels
  <2>2. TypeOK'
    BY <1>14, <2>1 DEF TypeOK, InHand, Tracked, GetActive, KeyOf, tracker, persisted, saving, history
  <2>3. InHand'
    BY <1>14 DEF TypeOK, InHand, Goto, GetActive, KeyOf, tracker, persisted, saving, history
  <2>4. QED
    BY <2>2, <2>3
<1>15. ASSUME NEW t \in Threads, Copy(t) PROVE IInv'
  <2>1. pc' \in [Threads -> Labels]
    BY <1>15, GotoType DEF Copy, TypeOK, Labels
  <2>2. pending' \in [Threads -> Nat]
    <3>1. alert[found[t]].occ \in Nat
      BY <1>15 DEF Copy, TypeOK, InHand
    <3>2. QED
      BY <1>15, <3>1 DEF Copy, TypeOK
  <2>3. TypeOK'
    BY <1>15, <2>1, <2>2 DEF TypeOK, Tracked, Copy, tracker, history
  <2>4. InHand'
    BY <1>15 DEF TypeOK, InHand, Goto, Copy
  <2>5. QED
    BY <2>3, <2>4
<1>16. ASSUME NEW t \in Threads, Commit(t) PROVE IInv'
  <2>1. pc' \in [Threads -> Labels]
    <3>1. Goto(t, "announce") \/ Goto(t, "idle")
      BY <1>16 DEF Commit, Stored, NotStored, Abandon
    <3>2. QED
      BY <3>1, GotoType DEF TypeOK, Labels
  <2>2. /\ base' \in [Threads -> Nat] /\ pending' \in [Threads -> Nat]
        /\ met' \subseteq Threads
    BY <1>16 DEF Commit, Close, TypeOK
  <2>3. TypeOK'
    BY <1>16, <2>1, <2>2, CommitType DEF TypeOK, Tracked, Commit, tracker
  <2>4. InHand'
    BY <1>16 DEF TypeOK, InHand, Goto, Commit, Stored, NotStored, Abandon
  <2>5. QED
    BY <2>3, <2>4
<1>17. CASE UNCHANGED vars
  BY <1>17 DEF vars, TypeOK, InHand, Tracked, tracker, persisted, saving, history
<1>18. QED
  BY <1>1, <1>2, <1>3, <1>4, <1>5, <1>6, <1>7, <1>8, <1>9, <1>10, <1>11, <1>12, <1>13, <1>14,
     <1>15, <1>16, <1>17 DEF Next, Step

(* Every reachable state is well typed.                                    *)
THEOREM TypeCorrect == Spec => []TypeOK
<1>1. IInv => TypeOK
  BY DEF IInv
<1>2. QED
  BY <1>1, InitInv, StepInv, PTL DEF Spec

----------------------------------------------------------------------------
(* The bound on the tracker.                                               *)

LEMMA FiniteParts ==
  /\ IsFiniteSet(Tracked) /\ IsFiniteSet(Evicting)
  /\ Cardinality(Tracked) \in Nat /\ Cardinality(Evicting) \in Nat
<1>1. IsFiniteSet(Keys) /\ IsFiniteSet(Threads)
  BY FiniteThreadsAndKeys, FS_Union DEF Keys, Threads
<1>2. Tracked \subseteq Keys /\ Evicting \subseteq Threads
  BY DEF Tracked, Evicting
<1>3. IsFiniteSet(Tracked) /\ IsFiniteSet(Evicting)
  BY <1>1, <1>2, FS_Subset
<1>4. QED
  BY <1>3, FS_CardinalityType

(* A step keeps the bound when no key is added and no thread stops         *)
(* evicting.                                                               *)
LEMMA BoundKept ==
  ASSUME TrackedBounded, Tracked' \subseteq Tracked, Evicting \subseteq Evicting',
         IsFiniteSet(Evicting'), Cardinality(Evicting') \in Nat
  PROVE  TrackedBounded'
<1>1. /\ IsFiniteSet(Tracked')
      /\ Cardinality(Tracked') \in Nat
      /\ Cardinality(Tracked') <= Cardinality(Tracked)
  BY FiniteParts, FS_Subset, FS_CardinalityType
<1>2. Cardinality(Evicting) <= Cardinality(Evicting')
  BY FS_Subset
<1>3. QED
  BY <1>1, <1>2, FiniteParts, PipelineAssumption DEF TrackedBounded

LEMMA StepBounded == IInv /\ TrackedBounded /\ [Next]_vars => TrackedBounded'
<1> SUFFICES ASSUME IInv, TrackedBounded, [Next]_vars PROVE TrackedBounded'
  OBVIOUS
<1> USE DEF IInv
<1>1. /\ IsFiniteSet(Tracked') /\ IsFiniteSet(Evicting')
      /\ Cardinality(Tracked') \in Nat /\ Cardinality(Evicting') \in Nat
  <2>1. IsFiniteSet(Keys) /\ IsFiniteSet(Threads)
    BY FiniteThreadsAndKeys, FS_Union DEF Keys, Threads
  <2>2. Tracked' \subseteq Keys /\ Evicting' \subseteq Threads
    BY DEF Tracked, Evicting
  <2>3. IsFiniteSet(Tracked') /\ IsFiniteSet(Evicting')
    BY <2>1, <2>2, FS_Subset
  <2>4. QED
    BY <2>3, FS_CardinalityType
<1>2. CASE Tick \/ UNCHANGED vars
  <2>1. Tracked' = Tracked /\ Evicting' = Evicting
    BY <1>2 DEF Tick, vars, tracker, Tracked, Evicting
  <2>2. QED
    BY <1>1, <2>1, BoundKept
<1>3. CASE Reset
  <2>1. Tracked' = {} /\ Evicting' = Evicting
    BY <1>3 DEF Reset, Tracked, Evicting
  <2>2. QED
    BY <1>1, <2>1, BoundKept
<1>4. ASSUME NEW t \in Threads, Insert(t) PROVE TrackedBounded'
  <2>1. KeyOf(t) \in Keys /\ own[t] \in Ids /\ t \notin Evicting
    BY <1>4 DEF Insert, TypeOK, InHand, KeyOf, Evicting
  <2>2. Tracked' = Tracked \cup {KeyOf(t)}
    BY <1>4, <2>1 DEF Insert, TypeOK, Tracked, Ids, NoAlert
  <2>3. Evicting' = Evicting \cup {t}
    BY <1>4 DEF Insert, TypeOK, Goto, Evicting
  <2>4. Cardinality(Tracked') <= Cardinality(Tracked) + 1
    <3>1. Cardinality(Tracked \cup {KeyOf(t)}) =
             IF KeyOf(t) \in Tracked THEN Cardinality(Tracked)
                                    ELSE Cardinality(Tracked) + 1
      BY FiniteParts, FS_AddElement
    <3>2. QED
      BY <2>2, <3>1, FiniteParts
  <2>5. Cardinality(Evicting') = Cardinality(Evicting) + 1
    BY <2>1, <2>3, FiniteParts, FS_AddElement
  <2>6. QED
    BY <1>1, <2>4, <2>5, FiniteParts, PipelineAssumption DEF TrackedBounded
<1>5. ASSUME NEW t \in Threads, EvictTest(t) PROVE TrackedBounded'
  <2>1. Tracked' = Tracked
    BY <1>5 DEF EvictTest, tracker, Tracked
  <2>2. CASE Cardinality(Tracked) > MaxTracked
    <3>1. Evicting \subseteq Evicting'
      BY <1>5, <2>2 DEF EvictTest, TypeOK, Goto, Evicting
    <3>2. QED
      BY <1>1, <2>1, <3>1, BoundKept
  <2>3. CASE ~(Cardinality(Tracked) > MaxTracked)
    BY <1>1, <2>1, <2>3, PipelineAssumption DEF TrackedBounded
  <2>4. QED
    BY <2>2, <2>3
<1>6. ASSUME NEW t \in Threads, EvictPop(t) PROVE TrackedBounded'
  <2>1. CASE Tracked = {}
    <3>1. Cardinality(Tracked') = 0
      BY <1>6, <2>1, FS_EmptySet DEF EvictPop, tracker, Tracked
    <3>2. QED
      BY <1>1, <3>1, PipelineAssumption DEF TrackedBounded
  <2>2. CASE Tracked # {}
    <3>1. Tracked' \subseteq Tracked
      BY <1>6, <2>2 DEF EvictPop, TypeOK, Tracked
    <3>2. Evicting \subseteq Evicting'
      BY <1>6, <2>2 DEF EvictPop, TypeOK, Goto, Evicting
    <3>3. QED
      BY <1>1, <3>1, <3>2, BoundKept
  <2>3. QED
    BY <2>1, <2>2
<1>7. ASSUME NEW t \in Threads, PruneDrop(t) PROVE TrackedBounded'
  <2>1. Tracked' \subseteq Tracked
    BY <1>7 DEF PruneDrop, TypeOK, tracker, Tracked
  <2>2. Evicting \subseteq Evicting'
    BY <1>7 DEF PruneDrop, Abandon, Goto, TypeOK, Evicting
  <2>3. QED
    BY <1>1, <2>1, <2>2, BoundKept
(* The other steps leave the keys alone and are taken by a thread that is  *)
(* not evicting.                                                           *)
<1>8. ASSUME NEW t \in Threads,
             \/ Begin(t) \/ PruneScan(t) \/ Lookup(t) \/ Merge(t) \/ Touch(t)
             \/ GetActive(t) \/ Load(t) \/ Copy(t) \/ Commit(t) \/ Announce(t)
      PROVE  TrackedBounded'
  <2>1. active' = active /\ pc[t] \notin {"evict", "pop"}
    BY <1>8 DEF Begin, PruneScan, Lookup, Merge, Touch, GetActive, Load, Copy,
                Commit, Announce, tracker
  <2>2. \E x : Goto(t, x)
    BY <1>8 DEF Begin, PruneScan, Lookup, Merge, Touch, GetActive, Load, Copy,
                Commit, Announce, Stored, NotStored, Abandon
  <2>3. Tracked' = Tracked
    BY <2>1 DEF Tracked
  <2>4. Evicting \subseteq Evicting'
    BY <2>1, <2>2 DEF Goto, TypeOK, Evicting
  <2>5. QED
    BY <1>1, <2>3, <2>4, BoundKept
<1>9. QED
  BY <1>2, <1>3, <1>4, <1>5, <1>6, <1>7, <1>8 DEF Next, Step

(* The tracker never exceeds DEDUP_MAX_TRACKED_KEYS by more than the       *)
(* threads that are still evicting, however many threads race.             *)
THEOREM TrackerBounded == Spec => []TrackedBounded
<1>1. Init => TrackedBounded
  <2> SUFFICES ASSUME Init PROVE TrackedBounded
    OBVIOUS
  <2>1. Tracked = {}
    BY DEF Init, Tracked
  <2>2. Cardinality(Tracked) = 0
    BY <2>1, FS_EmptySet
  <2>3. QED
    BY <2>2, FiniteParts, PipelineAssumption DEF TrackedBounded
<1>2. QED
  BY <1>1, InitInv, StepInv, StepBounded, PTL DEF Spec

----------------------------------------------------------------------------
(* Who is told.  An alert enters the tracker through the thread that built *)
(* it, and that thread leaves only by announcing it or by an error.        *)

Entered(i) == row[i] > 0 \/ (\E k \in Keys : active[k] = i) \/ (\E t \in Threads : found[t] = i)

Bringing(i) ==
    {t \in Threads :
        /\ own[t] = i
        /\ \/ pc[t] = "announce"
           \/ pc[t] \in {"evict", "pop", "load", "copy", "commit"} /\ found[t] = i}

(* Alerts whose thread has left _process by one way or the other.          *)
Over == announced \cup raised \cup refused

ToldInv == \A i \in Ids : Entered(i) => i \in Over \/ Bringing(i) # {}

(* Nothing has entered the tracker yet.                                    *)
LEMMA InitTold == Init => ToldInv
BY DEF Init, ToldInv, Entered, Ids, NoAlert

(* A step of t that takes no alert into the tracker, or out of t's hands   *)
(* before t is through with it.                                            *)
LEMMA ToldKept ==
  ASSUME ToldInv, Over \subseteq Over',
         \A i \in Ids : Entered(i)' => Entered(i),
         \A i \in Ids : i \notin Over' => Bringing(i) \subseteq Bringing(i)'
  PROVE  ToldInv'
BY DEF ToldInv

(* The thread that brings an alert into the tracker leaves last.           *)
LEMMA StepTold == IInv /\ ToldInv /\ [Next]_vars => ToldInv'
<1> SUFFICES ASSUME IInv, ToldInv, [Next]_vars PROVE ToldInv'
  OBVIOUS
<1> USE PipelineAssumption DEF IInv
<1>1. CASE Tick \/ UNCHANGED vars
  BY <1>1 DEF Tick, vars, ToldInv, Over, Entered, Bringing, tracker, persisted, history
<1>2. CASE Reset
  <2>1. \A i \in Ids : Entered(i)' => Entered(i)
    BY <1>2 DEF Reset, Entered, persisted, Ids, NoAlert
  <2>2. QED
    BY <1>2, <2>1, ToldKept DEF Reset, Over, Bringing, persisted
<1>3. ASSUME NEW t \in Threads,
             Begin(t) \/ PruneScan(t) \/ PruneDrop(t) \/ Lookup(t) \/ Merge(t) \/ Touch(t) \/ GetActive(t)
      PROVE  ToldInv'
  <2>1. /\ row' = row /\ Over \subseteq Over'
        /\ pc[t] \in {"idle", "prune", "drop", "merge", "touch", "getActive"}
        /\ \A u \in Threads \ {t} : own'[u] = own[u] /\ pc'[u] = pc[u] /\ found'[u] = found[u]
    BY <1>3 DEF Begin, PruneScan, PruneDrop, Lookup, Merge, Touch, GetActive, Abandon, Goto,
                persisted, TypeOK, Over
  <2>2. \A i \in Ids, k \in Keys : active'[k] = i => active[k] = i
    BY <1>3 DEF Begin, PruneScan, PruneDrop, Lookup, Merge, Touch, GetActive, tracker, TypeOK,
                Ids, NoAlert
  <2>3. KeyOf(t) \in Keys \/ pc[t] = "idle"
    BY DEF InHand, TypeOK, KeyOf
  <2>4. \A i \in Ids, u \in Threads : found'[u] = i => found[u] = i \/ \E k \in Keys : active[k] = i
    BY <1>3, <2>3 DEF Begin, PruneScan, PruneDrop, Lookup, Merge, Touch, GetActive, TypeOK
  <2>5. \A i \in Ids : Entered(i)' => Entered(i)
    BY <2>1, <2>2, <2>4 DEF Entered
  <2>6. \A i \in Ids : Bringing(i) \subseteq Bringing(i)'
    BY <2>1 DEF Bringing
  <2>7. QED
    BY <2>1, <2>5, <2>6, ToldKept
<1>4. ASSUME NEW t \in Threads, Insert(t) PROVE ToldInv'
  <2>1. own[t] \in Ids /\ KeyOf(t) \in Keys /\ pc[t] = "insert"
    BY <1>4 DEF Insert, InHand, TypeOK, KeyOf
  <2>2. /\ active' = [active EXCEPT ![KeyOf(t)] = own[t]]
        /\ pc' = [pc EXCEPT ![t] = "evict"]
        /\ found' = [found EXCEPT ![t] = own[t]]
        /\ UNCHANGED <<row, own, announced, raised, refused>>
    BY <1>4 DEF Insert, Goto, persisted
  <2>3. \A i \in Ids : Entered(i)' => Entered(i) \/ i = own[t]
    BY <2>1, <2>2 DEF Entered, TypeOK
  <2>4. \A i \in Ids : Bringing(i) \subseteq Bringing(i)'
    BY <2>1, <2>2 DEF Bringing, TypeOK
  <2>5. t \in Bringing(own[t])'
    BY <2>1, <2>2 DEF Bringing, TypeOK
  <2>6. QED
    BY <2>2, <2>3, <2>4, <2>5 DEF ToldInv, Over
<1>5. ASSUME NEW t \in Threads, EvictTest(t) \/ EvictPop(t) PROVE ToldInv'
  <2>1. \A i \in Ids : Entered(i)' => Entered(i)
    <3>1. row' = row /\ found' = found
      BY <1>5 DEF EvictTest, EvictPop, persisted
    <3>2. active' = active \/ \E k \in Keys : active' = [active EXCEPT ![k] = NoAlert]
      BY <1>5 DEF EvictTest, EvictPop, tracker, Tracked
    <3>3. \A i \in Ids, k \in Keys : active'[k] = i => active[k] = i
      BY <3>2 DEF TypeOK, Ids, NoAlert
    <3>4. QED
      BY <3>1, <3>3 DEF Entered
  <2>2. Over \subseteq Over' /\ UNCHANGED <<own, found>>
    BY <1>5 DEF EvictTest, EvictPop, Abandon, persisted, Over
  <2>3. own[t] \in Over' \/ pc'[t] \in {"evict", "pop", "load"}
    BY <1>5 DEF EvictTest, EvictPop, Abandon, Goto, TypeOK, Over
  <2>4. pc[t] # "announce" /\ \A u \in Threads \ {t} : pc'[u] = pc[u]
    BY <1>5 DEF EvictTest, EvictPop, Abandon, Goto, TypeOK
  <2>5. \A i \in Ids : i \notin Over' => Bringing(i) \subseteq Bringing(i)'
    BY <2>2, <2>3, <2>4 DEF Bringing
  <2>6. QED
    BY <2>1, <2>2, <2>5, ToldKept
<1>6. ASSUME NEW t \in Threads, Load(t) \/ Copy(t) PROVE ToldInv'
  <2>1. /\ UNCHANGED <<active, found, own, row, announced, raised, refused>>
        /\ pc[t] \in {"load", "copy"} /\ pc'[t] \in {"copy", "commit"}
        /\ \A u \in Threads \ {t} : pc'[u] = pc[u]
    BY <1>6 DEF Load, Copy, Goto, TypeOK, tracker
  <2>2. \A i \in Ids : Bringing(i) \subseteq Bringing(i)'
    BY <2>1 DEF Bringing
  <2>3. QED
    BY <2>1, <2>2, ToldKept DEF Entered, Over
<1>7. ASSUME NEW t \in Threads, Announce(t) PROVE ToldInv'
  <2>1. \A i \in Ids : Entered(i)' => Entered(i)
    BY <1>7 DEF Announce, Entered, tracker
  <2>2. Over' = Over \cup {own[t]} /\ \A u \in Threads \ {t} : pc'[u] = pc[u]
    BY <1>7 DEF Announce, Goto, Over, TypeOK
  <2>3. \A i \in Ids : i \notin Over' => Bringing(i) \subseteq Bringing(i)'
    BY <1>7, <2>2 DEF Announce, Bringing
  <2>4. QED
    BY <2>1, <2>2, <2>3, ToldKept
<1>8. ASSUME NEW t \in Threads, Commit(t) PROVE ToldInv'
  <2>1. found[t] \in Ids /\ pc[t] = "commit" /\ UNCHANGED <<active, own, found, announced>>
    BY <1>8 DEF Commit, InHand, TypeOK, tracker
  <2>2. row' = row \/ row' = [row EXCEPT ![found[t]] = Written(t)]
    BY <1>8 DEF Commit, Stored, NotStored
  <2>3. \A i \in Ids : Entered(i)' => Entered(i)
    BY <2>1, <2>2 DEF Entered, TypeOK
  <2>4. /\ Over \subseteq Over'
        /\ own[t] \in Over' \/ found[t] # own[t] \/ pc'[t] = "announce"
        /\ \A u \in Threads \ {t} : pc'[u] = pc[u]
    BY <1>8 DEF Commit, Stored, NotStored, Abandon, Goto, Over, TypeOK
  <2>5. \A i \in Ids : i \notin Over' => Bringing(i) \subseteq Bringing(i)'
    BY <2>1, <2>4 DEF Bringing
  <2>6. QED
    BY <2>3, <2>4, <2>5, ToldKept
<1>9. QED
  BY <1>1, <1>2, <1>3, <1>4, <1>5, <1>6, <1>7, <1>8 DEF Next, Step

(* services/alerts/service.py: no row is left behind without its           *)
(* announcement unless the very thread that raised the alert failed,       *)
(* whatever the threads race on and whichever other saves fail.            *)
THEOREM StoredIsTold == Spec => []RowsAreAnnounced
<1>1. IInv /\ ToldInv => RowsAreAnnounced
  BY DEF ToldInv, Over, RowsAreAnnounced, Entered, Bringing, Busy, KeyOf
<1>2. QED
  BY <1>1, InitInv, StepInv, InitTold, StepTold, PTL DEF Spec

----------------------------------------------------------------------------
(* What the row of a tracked alert holds.  An alert is merged into by      *)
(* threads whose own alerts have its key, so the key is what ties a thread *)
(* that still has to write to the row it will write.                       *)

Keyed ==
    /\ \A k \in Keys : active[k] # NoAlert => active[k] <= built /\ alert[active[k]].key = k
    /\ \A t \in Threads : own[t] <= built
    /\ \A t \in Threads :
         pc[t] \in {"merge", "touch", "evict", "pop", "load", "copy", "commit"} =>
             found[t] <= built /\ alert[found[t]].key = KeyOf(t)

(* A save that has met no other has its row as it loaded it; the alert of  *)
(* one that has is crossed.                                                *)
Saving(t) == pc[t] \in {"copy", "commit"}

Apart ==
    /\ \A t \in met : Saving(t)
    /\ \A t \in Threads : Saving(t) =>
         IF t \in met THEN found[t] \in crossed ELSE base[t] = row[found[t]]
    /\ \A t, u \in Threads :
         t # u /\ Saving(t) /\ Saving(u) /\ found[t] = found[u] => t \in met

(* Threads that will yet write every occurrence folded into the alert      *)
(* tracked under k, or find the key gone.                                  *)
Writing(k) ==
    {t \in Threads :
        /\ KeyOf(t) = k
        /\ \/ pc[t] \in {"touch", "getActive"}
           \/ pc[t] \in {"evict", "pop", "load", "copy"} /\ found[t] = active[k]
           \/ pc[t] = "commit" /\ found[t] = active[k] /\ pending[t] = alert[active[k]].occ}

(* The row is whole, and whoever is about to write it meets another.       *)
Current(k) ==
    active[k] # NoAlert =>
        /\ active[k] \notin unsaved \cup crossed => row[active[k]] = alert[active[k]].occ
        /\ \A t \in Threads : pc[t] = "commit" /\ found[t] = active[k] => t \in met

CurrentInv == Keyed /\ Apart /\ \A k \in Keys : Current(k) \/ Writing(k) # {}

(* Nothing is tracked yet.                                                 *)
LEMMA InitCurrent == Init => CurrentInv
BY DEF Init, CurrentInv, Keyed, Apart, Saving, Current, Ids, NoAlert

(* What a new alert leaves alone.                                          *)
LEMMA BeginLeaves ==
  ASSUME TypeOK, NEW t \in Threads, Begin(t)
  PROVE  /\ built' = built + 1 /\ built \in Nat /\ pc[t] = "idle"
         /\ own' = [own EXCEPT ![t] = built + 1]
         /\ pc' = [pc EXCEPT ![t] = "prune"]
         /\ UNCHANGED <<active, found, row, unsaved, saving>>
         /\ \A i \in Ids : i <= built => alert'[i] = alert[i]
<1>1. built \in Nat
  BY PipelineAssumption DEF TypeOK
<1>2. PICK a : alert' = [alert EXCEPT ![built + 1] = a]
  BY DEF Begin
<1>3. \A i \in Ids : i <= built => alert'[i] = alert[i]
  BY <1>1, <1>2 DEF TypeOK, Ids
<1>4. QED
  BY <1>1, <1>3 DEF Begin, Goto, tracker, persisted, saving

(* Alerts keep their keys, and a new one is nobody else's.                 *)
LEMMA StepKeyed == IInv /\ Keyed /\ [Next]_vars => Keyed'
<1> SUFFICES ASSUME IInv, Keyed, [Next]_vars PROVE Keyed'
  OBVIOUS
<1> USE PipelineAssumption DEF IInv, Keyed
<1>1. CASE Tick \/ UNCHANGED vars
  BY <1>1 DEF Tick, vars, tracker, KeyOf
<1>2. CASE Reset
  BY <1>2 DEF Reset, KeyOf
<1>3. ASSUME NEW t \in Threads, Begin(t) PROVE Keyed'
  <2>1. /\ built' = built + 1 /\ built \in Nat
        /\ own' = [own EXCEPT ![t] = built + 1]
        /\ pc' = [pc EXCEPT ![t] = "prune"]
        /\ UNCHANGED <<active, found>>
    BY <1>3, BeginLeaves
  <2>2. \A i \in Ids : i <= built => alert'[i] = alert[i]
    BY <1>3, BeginLeaves
  <2>3. \A k \in Keys : active[k] # NoAlert => active[k] \in Ids
    BY DEF TypeOK
  <2>4. \A u \in Threads : own[u] \in Nat /\ found[u] \in Nat
    <3>1. Ids \cup {NoAlert} \subseteq Nat
      BY DEF Ids, NoAlert
    <3>2. QED
      BY <3>1 DEF TypeOK
  <2>5. \A k \in Keys : active'[k] # NoAlert => active'[k] <= built' /\ alert'[active'[k]].key = k
    BY <2>1, <2>2, <2>3 DEF Ids
  <2>6. \A u \in Threads : own'[u] <= built'
    BY <2>1, <2>4 DEF TypeOK
  <2>7. ASSUME NEW u \in Threads,
               pc'[u] \in {"merge", "touch", "evict", "pop", "load", "copy", "commit"}
        PROVE  found'[u] <= built' /\ alert'[found'[u]].key = KeyOf(u)'
    <3>1. u # t /\ pc[u] = pc'[u] /\ own'[u] = own[u] /\ found'[u] = found[u]
      BY <2>1, <2>7 DEF TypeOK
    <3>2. own[u] \in Ids /\ found[u] \in Ids
      BY <2>7, <3>1 DEF InHand, TypeOK
    <3>3. QED
      BY <2>1, <2>2, <2>4, <2>7, <3>1, <3>2 DEF KeyOf
  <2>8. QED
    BY <2>5, <2>6, <2>7
<1>4. ASSUME NEW t \in Threads, Merge(t) PROVE Keyed'
  <2>1. /\ \A i \in Ids : alert'[i].key = alert[i].key
        /\ pc' = [pc EXCEPT ![t] = "touch"]
        /\ UNCHANGED <<active, built, own, found>>
    BY <1>4 DEF Merge, Goto, TypeOK, tracker
  <2>2. \A u \in Threads :
          pc[u] \in {"merge", "touch", "evict", "pop", "load", "copy", "commit"} =>
              own[u] \in Ids /\ found[u] \in Ids
    BY DEF InHand, TypeOK
  <2>3. \A k \in Keys : active[k] # NoAlert => active[k] \in Ids
    BY DEF TypeOK
  <2>4. pc[t] = "merge"
    BY <1>4 DEF Merge
  <2>5. QED
    BY <2>1, <2>2, <2>3, <2>4 DEF KeyOf, TypeOK
<1>5. ASSUME NEW t \in Threads, Lookup(t) PROVE Keyed'
  <2>1. /\ found' = [found EXCEPT ![t] = active[KeyOf(t)]]
        /\ pc' = [pc EXCEPT ![t] = IF active[KeyOf(t)] = NoAlert THEN "insert" ELSE "merge"]
        /\ UNCHANGED <<active, built, own, alert>>
    BY <1>5 DEF Lookup, Goto, tracker
  <2>2. KeyOf(t) \in Keys
    BY <1>5 DEF Lookup, InHand, TypeOK, KeyOf
  <2>3. QED
    BY <2>1, <2>2 DEF KeyOf, TypeOK
<1>6. ASSUME NEW t \in Threads, GetActive(t) PROVE Keyed'
  <2>1. /\ found' = [found EXCEPT ![t] = active[KeyOf(t)]]
        /\ pc' = [pc EXCEPT ![t] = IF active[KeyOf(t)] = NoAlert THEN "idle" ELSE "load"]
        /\ UNCHANGED <<active, built, own, alert>>
    BY <1>6 DEF GetActive, Goto, tracker
  <2>2. KeyOf(t) \in Keys
    BY <1>6 DEF GetActive, InHand, TypeOK, KeyOf
  <2>3. QED
    BY <2>1, <2>2 DEF KeyOf, TypeOK
<1>7. ASSUME NEW t \in Threads, Insert(t) PROVE Keyed'
  <2>1. /\ active' = [active EXCEPT ![KeyOf(t)] = own[t]]
        /\ pc' = [pc EXCEPT ![t] = "evict"]
        /\ found' = [found EXCEPT ![t] = own[t]]
        /\ UNCHANGED <<built, own, alert>>
    BY <1>7 DEF Insert, Goto
  <2>2. QED
    BY <2>1 DEF KeyOf, TypeOK
<1>8. ASSUME NEW t \in Threads,
             PruneScan(t) \/ PruneDrop(t) \/ Touch(t) \/ Load(t) \/ Copy(t) \/ Commit(t)
             \/ EvictTest(t) \/ EvictPop(t) \/ Announce(t)
      PROVE  Keyed'
  <2>1. UNCHANGED <<built, own, alert, found>>
    BY <1>8 DEF PruneScan, PruneDrop, Touch, Load, Copy, Commit, EvictTest, EvictPop, Announce
  <2>2. active' = active \/ \E k \in Keys : active' = [active EXCEPT ![k] = NoAlert]
    BY <1>8 DEF PruneScan, PruneDrop, Touch, Load, Copy, Commit, EvictTest, EvictPop, Announce,
                tracker, Tracked
  <2>3. \A u \in Threads :
          pc'[u] \in {"merge", "touch", "evict", "pop", "load", "copy", "commit"} =>
          pc[u] \in {"merge", "touch", "evict", "pop", "load", "copy", "commit"}
    BY <1>8 DEF PruneScan, PruneDrop, Touch, Load, Copy, Commit, EvictTest, EvictPop, Announce,
                Stored, NotStored, Abandon, Goto, TypeOK
  <2>4. QED
    BY <2>1, <2>2, <2>3 DEF KeyOf, TypeOK
<1>9. QED
  BY <1>1, <1>2, <1>3, <1>4, <1>5, <1>6, <1>7, <1>8 DEF Next, Step

(* Saves of one alert that are under way together know of each other.      *)
LEMMA StepApart == IInv /\ Apart /\ [Next]_vars => Apart'
<1> SUFFICES ASSUME IInv, Apart, [Next]_vars PROVE Apart'
  OBVIOUS
<1> USE DEF IInv
<1>1. ASSUME NEW t \in Threads, Load(t) PROVE Apart'
  <2>1. /\ base' = [base EXCEPT ![t] = row[found[t]]]
        /\ pc' = [pc EXCEPT ![t] = "copy"] /\ pc[t] = "load"
        /\ UNCHANGED <<found, row>>
        /\ met' = IF Crossing(t) = {} THEN met ELSE met \cup Crossing(t) \cup {t}
        /\ crossed' = IF Crossing(t) = {} THEN crossed ELSE crossed \cup {found[t]}
    BY <1>1 DEF Load, Goto
  <2>2. \A u \in Threads \ {t} : Saving(u)' = Saving(u) /\ base'[u] = base[u]
    BY <2>1 DEF Saving, TypeOK
  <2>3. /\ base'[t] = row[found[t]] /\ ~Saving(t)
        /\ \A u \in Threads \ {t} : Saving(u) /\ found[u] = found[t] <=> u \in Crossing(t)
    BY <2>1 DEF Saving, Crossing, TypeOK
  <2>4. ASSUME NEW u \in Threads, Saving(u)'
        PROVE  IF u \in met' THEN found[u] \in crossed' ELSE base'[u] = row[found[u]]
    <3>1. CASE u = t
      <4>1. t \notin met
        BY <2>3 DEF Apart
      <4>2. QED
        BY <2>1, <2>3, <3>1, <4>1
    <3>2. CASE u # t
      <4>1. Saving(u) /\ base'[u] = base[u]
        BY <2>2, <2>4, <3>2
      <4>2. CASE u \in Crossing(t)
        <5>1. u \in met' /\ found[u] \in crossed'
          BY <2>1, <4>2 DEF Crossing
        <5>2. QED
          BY <5>1
      <4>3. CASE u \notin Crossing(t)
        <5>1. (u \in met' <=> u \in met) /\ crossed \subseteq crossed'
          BY <2>1, <3>2, <4>3
        <5>2. QED
          BY <4>1, <5>1 DEF Apart
      <4>4. QED
        BY <4>2, <4>3
    <3>3. QED
      BY <3>1, <3>2
  <2>5. ASSUME NEW u \in Threads, NEW v \in Threads, u # v, Saving(u)', Saving(v)', found[u] = found[v]
        PROVE  u \in met'
    <3>1. CASE u = t \/ v = t
      BY <2>1, <2>2, <2>3, <2>5, <3>1
    <3>2. CASE u # t /\ v # t
      BY <2>1, <2>2, <2>5, <3>2 DEF Apart
    <3>3. QED
      BY <3>1, <3>2
  <2>6. \A u \in met' : Saving(u)'
    BY <2>1, <2>2, <2>3 DEF Apart, Saving, Crossing, TypeOK
  <2>7. QED
    BY <2>1, <2>4, <2>5, <2>6 DEF Apart
<1>2. ASSUME NEW t \in Threads, Commit(t) PROVE Apart'
  <2>1. /\ pc[t] = "commit" /\ ~Saving(t)' /\ UNCHANGED found
        /\ \A u \in Threads \ {t} : /\ Saving(u)' = Saving(u) /\ base'[u] = base[u]
                                    /\ u \in met' <=> u \in met
    BY <1>2 DEF Commit, Close, Stored, NotStored, Abandon, Goto, Saving, TypeOK
  <2>2. \A i \in Ids \ {found[t]} : row'[i] = row[i] /\ (i \in crossed' <=> i \in crossed)
    BY <1>2 DEF Commit, Stored, NotStored, TypeOK
  <2>3. crossed' = crossed \/ (t \notin met /\ crossed' = crossed \ {found[t]})
    BY <1>2 DEF Commit, Stored, NotStored
  <2>4. ASSUME NEW u \in Threads, Saving(u)'
        PROVE  IF u \in met' THEN found[u] \in crossed' ELSE base'[u] = row'[found[u]]
    <3>1. u # t /\ Saving(u) /\ found[u] \in Ids
      BY <2>1, <2>4 DEF Saving, InHand, TypeOK
    <3>2. CASE found[u] = found[t]
      <4>1. Saving(t)
        BY <2>1 DEF Saving
      <4>2. u \in met /\ t \in met
        BY <3>1, <3>2, <4>1 DEF Apart
      <4>3. QED
        BY <2>1, <2>3, <3>1, <4>2 DEF Apart
    <3>3. CASE found[u] # found[t]
      BY <2>1, <2>2, <3>1, <3>3 DEF Apart
    <3>4. QED
      BY <3>2, <3>3
  <2>5. \A u, v \in Threads : u # v /\ Saving(u)' /\ Saving(v)' /\ found[u] = found[v] => u \in met'
    BY <2>1 DEF Apart
  <2>6. \A u \in met' : Saving(u)'
    BY <1>2, <2>1 DEF Apart, Commit, Close, TypeOK
  <2>7. QED
    BY <2>1, <2>4, <2>5, <2>6 DEF Apart
(* The other steps neither begin a save nor end one.                       *)
<1>3. CASE Tick \/ Reset \/ UNCHANGED vars
  BY <1>3 DEF Tick, Reset, vars, Apart, Saving, persisted, saving
<1>4. ASSUME NEW t \in Threads,
             \/ Begin(t) \/ PruneScan(t) \/ PruneDrop(t) \/ Lookup(t) \/ Merge(t) \/ Touch(t)
             \/ GetActive(t) \/ Insert(t) \/ EvictTest(t) \/ EvictPop(t) \/ Copy(t) \/ Announce(t)
      PROVE  Apart'
  <2>1. UNCHANGED <<base, row, met, crossed>>
    BY <1>4 DEF Begin, PruneScan, PruneDrop, Lookup, Merge, Touch, GetActive, Insert, EvictTest,
                EvictPop, Copy, Announce, persisted, saving
  <2>2. \A u \in Threads : Saving(u)' = Saving(u) /\ (Saving(u) => found'[u] = found[u])
    BY <1>4 DEF Begin, PruneScan, PruneDrop, Lookup, Merge, Touch, GetActive, Insert, EvictTest,
                EvictPop, Copy, Announce, Abandon, Goto, Saving, TypeOK
  <2>3. met \subseteq Threads
    BY DEF TypeOK
  <2>4. QED
    BY <2>1, <2>2, <2>3 DEF Apart
<1>5. QED
  BY <1>1, <1>2, <1>3, <1>4 DEF Next, Step

(* A step of t that touches no tracked alert and no row leaves the rest to *)
(* the writers, who are all still there.                                   *)
LEMMA CurrentKept ==
  ASSUME CurrentInv, UNCHANGED <<row, unsaved, crossed, met, pending, crossed, met>>,
         \A k \in Keys : active'[k] # NoAlert =>
             /\ active'[k] = active[k]
             /\ alert'[active[k]] = alert[active[k]]
             /\ Writing(k) \subseteq Writing(k)'
             /\ \A t \in Threads : pc'[t] = "commit" /\ found'[t] = active[k] =>
                   \/ pc[t] = "commit" /\ found[t] = active[k]
                   \/ t \in Writing(k)'
  PROVE  \A k \in Keys : Current(k)' \/ Writing(k)' # {}
BY DEF CurrentInv, Current

LEMMA NoAlertIsNone == NoAlert \notin Ids
BY DEF Ids, NoAlert

(* A save's commit leaves the alert it was made for current or unsaved, or *)
(* to the saves it has met.                                                *)
LEMMA CommitCurrent ==
  ASSUME IInv, CurrentInv, NEW t \in Threads, Commit(t)
  PROVE  \A k \in Keys : Current(k)' \/ Writing(k)' # {}
<1> USE DEF IInv
<1> DEFINE i == found[t]
<1>1. /\ pc[t] = "commit" /\ Saving(t) /\ i \in Ids
      /\ pc'[t] # "commit" /\ \A u \in Threads \ {t} : pc'[u] = pc[u] /\ pending'[u] = pending[u]
      /\ met' = met \ {t} /\ UNCHANGED <<alert, own, found, active>>
  BY DEF Commit, Close, Stored, NotStored, Abandon, Goto, Saving, InHand, TypeOK, tracker
<1>2. \/ /\ row' = [row EXCEPT ![i] = Written(t)] /\ unsaved' = unsaved \ {i}
         /\ crossed' = IF t \in met THEN crossed ELSE crossed \ {i}
      \/ /\ row' = row /\ unsaved' = unsaved \cup {i} /\ crossed' = crossed
  BY DEF Commit, Stored, NotStored
<1> HIDE DEF i
<1>3. \A k \in Keys : Writing(k) \ {t} \subseteq Writing(k)'
  BY <1>1 DEF Writing, KeyOf
<1>4. ASSUME NEW k \in Keys, active[k] # i PROVE Current(k)' \/ Writing(k)' # {}
  <2>1. t \notin Writing(k)
    BY <1>1, <1>4 DEF Writing, i
  <2>2. Current(k) => Current(k)'
    BY <1>1, <1>2, <1>4 DEF Current, TypeOK, i
  <2>3. QED
    BY <1>3, <2>1, <2>2 DEF CurrentInv
<1>5. ASSUME NEW k \in Keys, active[k] = i, Writing(k) \ {t} = {} PROVE Current(k)'
  <2>1. \A u \in Threads : pc'[u] = "commit" /\ found'[u] = i => u \in met'
    BY <1>1 DEF CurrentInv, Apart, Saving, i
  <2>2. CASE i \in unsaved' \/ i \in crossed'
    BY <1>1, <1>5, <2>1, <2>2 DEF Current
  <2>3. CASE i \notin unsaved' /\ i \notin crossed'
    <3>1. row' = [row EXCEPT ![i] = Written(t)]
      BY <1>2, <2>3
    <3>2. t \notin met
      BY <1>1, <1>2, <2>3 DEF CurrentInv, Apart, i
    <3>3. t \in Writing(k)
      BY <1>1, <1>5, <3>2, NoAlertIsNone DEF CurrentInv, Current, i
    <3>4. pending[t] = alert[i].occ
      BY <1>1, <1>5, <3>3 DEF Writing
    <3>5. base[t] = row[i]
      BY <1>1, <3>2 DEF CurrentInv, Apart, i
    <3>6. Written(t) = pending[t]
      BY <3>5 DEF Written, i
    <3>7. row'[i] = alert'[i].occ
      BY <1>1, <3>1, <3>4, <3>6 DEF TypeOK
    <3>8. QED
      BY <1>1, <1>5, <2>1, <3>7 DEF Current
  <2>4. QED
    BY <2>2, <2>3
<1>6. QED
  BY <1>3, <1>4, <1>5

(* Every step leaves each row current or with a thread that writes it.     *)
LEMMA StepCurrent == IInv /\ CurrentInv /\ [Next]_vars => CurrentInv'
<1> SUFFICES ASSUME IInv, CurrentInv, [Next]_vars PROVE \A k \in Keys : Current(k)' \/ Writing(k)' # {}
  BY StepKeyed, StepApart DEF CurrentInv
<1> Keyed
  BY DEF CurrentInv
<1> USE PipelineAssumption DEF IInv
<1>1. CASE Tick \/ UNCHANGED vars
  <2>1. UNCHANGED <<row, unsaved, crossed, met, pending, active, alert, own, found, pc>>
    BY <1>1 DEF Tick, vars, tracker, persisted, saving
  <2>2. QED
    BY <2>1 DEF CurrentInv, Current, Writing, KeyOf
<1>2. CASE Reset
  BY <1>2, CurrentKept DEF Reset, persisted, saving, Writing, KeyOf
<1>3. ASSUME NEW t \in Threads, Begin(t) PROVE \A k \in Keys : Current(k)' \/ Writing(k)' # {}
  <2>1. /\ built \in Nat /\ pc[t] = "idle"
        /\ own' = [own EXCEPT ![t] = built + 1]
        /\ pc' = [pc EXCEPT ![t] = "prune"]
        /\ UNCHANGED <<active, found, row, unsaved, met, crossed, pending>>
    BY <1>3, BeginLeaves DEF saving
  <2>2. \A i \in Ids : i <= built => alert'[i] = alert[i]
    BY <1>3, BeginLeaves
  <2>3. \A k \in Keys : active[k] # NoAlert => active[k] \in Ids /\ active[k] <= built
    BY DEF TypeOK, Keyed
  <2>4. \A u \in Threads \ {t} : pc[u] # "idle" => own'[u] = own[u] /\ pc'[u] = pc[u] /\ KeyOf(u)' = KeyOf(u)
    BY <2>1, <2>2 DEF InHand, TypeOK, Keyed, KeyOf
  <2>5. \A k \in Keys : active[k] # NoAlert => Writing(k) \subseteq Writing(k)'
    BY <2>1, <2>2, <2>3, <2>4 DEF Writing
  <2>6. \A u \in Threads : pc'[u] = "commit" => pc[u] = "commit"
    BY <2>1 DEF TypeOK
  <2>7. QED
    BY <2>1, <2>2, <2>3, <2>5, <2>6, CurrentKept
<1>4. ASSUME NEW t \in Threads, PruneScan(t) \/ Lookup(t) \/ EvictTest(t) \/ Announce(t)
      PROVE  \A k \in Keys : Current(k)' \/ Writing(k)' # {}
  <2>1. /\ UNCHANGED <<row, unsaved, crossed, met, pending, active, alert, own>>
        /\ \A u \in Threads \ {t} : pc'[u] = pc[u] /\ found'[u] = found[u]
        /\ pc'[t] # "commit"
        /\ \/ pc[t] \in {"prune", "drop", "announce"}
           \/ pc[t] = "evict" /\ pc'[t] \in {"pop", "load"} /\ found'[t] = found[t]
    BY <1>4 DEF PruneScan, Lookup, EvictTest, Announce, Abandon, Goto, persisted, saving, tracker, TypeOK
  <2>2. \A k \in Keys : Writing(k) \subseteq Writing(k)'
    BY <2>1 DEF Writing, KeyOf
  <2>3. QED
    BY <2>1, <2>2, CurrentKept
<1>5. ASSUME NEW t \in Threads, PruneDrop(t) PROVE \A k \in Keys : Current(k)' \/ Writing(k)' # {}
  <2>1. /\ UNCHANGED <<row, unsaved, crossed, met, pending, alert, own, found>>
        /\ pc[t] = "drop" /\ pc'[t] # "commit"
        /\ \A u \in Threads \ {t} : pc'[u] = pc[u]
        /\ active' = active \/ \E k \in Keys : active' = [active EXCEPT ![k] = NoAlert]
    BY <1>5 DEF PruneDrop, Abandon, Goto, persisted, saving, tracker, TypeOK, Tracked
  <2>2. \A k \in Keys : active'[k] # NoAlert => active'[k] = active[k]
    BY <2>1 DEF TypeOK
  <2>3. \A k \in Keys : active'[k] # NoAlert => Writing(k) \subseteq Writing(k)'
    BY <2>1, <2>2 DEF Writing, KeyOf
  <2>4. QED
    BY <2>1, <2>2, <2>3, CurrentKept
<1>6. ASSUME NEW t \in Threads, Merge(t) PROVE \A k \in Keys : Current(k)' \/ Writing(k)' # {}
  <2>1. /\ UNCHANGED <<row, unsaved, crossed, met, pending, active, own, found>> /\ pc[t] = "merge"
        /\ pc' = [pc EXCEPT ![t] = "touch"] /\ found[t] \in Ids
        /\ \A i \in Ids \ {found[t]} : alert'[i] = alert[i]
        /\ \A i \in Ids : alert'[i].key = alert[i].key
    BY <1>6 DEF Merge, Goto, persisted, saving, tracker, TypeOK, InHand
  <2>2. \A u \in Threads : pc[u] # "idle" => KeyOf(u)' = KeyOf(u)
    BY <2>1 DEF InHand, TypeOK, KeyOf
  <2>3. alert[found[t]].key = KeyOf(t)
    BY <2>1 DEF Keyed
  <2>4. ASSUME NEW k \in Keys PROVE Current(k)' \/ Writing(k)' # {}
    <3>1. CASE k = KeyOf(t)
      <4>1. t \in Writing(k)'
        BY <2>1, <2>2, <3>1 DEF Writing, TypeOK
      <4>2. QED
        BY <4>1
    <3>2. CASE k # KeyOf(t)
      <4>1. active[k] # NoAlert => active[k] \in Ids \ {found[t]}
        BY <2>3, <3>2 DEF Keyed, TypeOK
      <4>2. Current(k) => Current(k)'
        BY <2>1, <4>1 DEF Current, TypeOK
      <4>3. active[k] # NoAlert => Writing(k) \subseteq Writing(k)'
        BY <2>1, <2>2, <4>1 DEF Writing, TypeOK
      <4>4. active[k] = NoAlert => Current(k)'
        BY <2>1 DEF Current
      <4>5. QED
        BY <4>2, <4>3, <4>4 DEF CurrentInv
    <3>3. QED
      BY <3>1, <3>2
  <2>5. QED
    BY <2>4
<1>7. ASSUME NEW t \in Threads, Touch(t) \/ EvictPop(t)
      PROVE  \A k \in Keys : Current(k)' \/ Writing(k)' # {}
  <2>1. /\ UNCHANGED <<row, unsaved, crossed, met, pending, alert, own, found>>
        /\ \A u \in Threads \ {t} : pc'[u] = pc[u]
        /\ active' = active \/ \E k \in Keys : active' = [active EXCEPT ![k] = NoAlert]
        /\ pc'[t] # "commit"
        /\ \/ pc[t] = "touch" /\ pc'[t] = "getActive"
           \/ pc[t] = "touch" /\ KeyOf(t) \notin Tracked /\ active' = active
           \/ pc[t] = "pop" /\ pc'[t] = "evict"
           \/ pc[t] = "pop" /\ Tracked = {} /\ active' = active
    BY <1>7 DEF Touch, EvictPop, Abandon, Goto, persisted, saving, tracker, TypeOK, Tracked
  <2>2. \A k \in Keys : active'[k] # NoAlert => active'[k] = active[k] /\ k \in Tracked
    BY <2>1 DEF TypeOK, Tracked
  <2>3. \A k \in Keys : active'[k] # NoAlert => Writing(k) \subseteq Writing(k)'
    BY <2>1, <2>2 DEF Writing, KeyOf
  <2>4. QED
    BY <2>1, <2>2, <2>3, CurrentKept
<1>8. ASSUME NEW t \in Threads, GetActive(t) PROVE \A k \in Keys : Current(k)' \/ Writing(k)' # {}
  <2>1. /\ UNCHANGED <<row, unsaved, crossed, met, pending, alert, own, active>> /\ pc[t] = "getActive"
        /\ found' = [found EXCEPT ![t] = active[KeyOf(t)]]
        /\ pc' = [pc EXCEPT ![t] = IF active[KeyOf(t)] = NoAlert THEN "idle" ELSE "load"]
    BY <1>8 DEF GetActive, Goto, persisted, saving, tracker
  <2>2. \A k \in Keys : active'[k] # NoAlert => Writing(k) \subseteq Writing(k)'
    BY <2>1 DEF Writing, KeyOf, TypeOK
  <2>3. QED
    BY <2>1, <2>2, CurrentKept
<1>9. ASSUME NEW t \in Threads, Insert(t) PROVE \A k \in Keys : Current(k)' \/ Writing(k)' # {}
  <2>1. /\ UNCHANGED <<row, unsaved, crossed, met, pending, alert, own>> /\ pc[t] = "insert"
        /\ found' = [found EXCEPT ![t] = own[t]]
        /\ active' = [active EXCEPT ![KeyOf(t)] = own[t]]
        /\ pc' = [pc EXCEPT ![t] = "evict"]
    BY <1>9 DEF Insert, Goto, persisted, saving
  <2>2. ASSUME NEW k \in Keys PROVE Current(k)' \/ Writing(k)' # {}
    <3>1. CASE k = KeyOf(t)
      <4>1. t \in Writing(k)'
        BY <2>1, <3>1 DEF Writing, KeyOf, TypeOK
      <4>2. QED
        BY <4>1
    <3>2. CASE k # KeyOf(t)
      <4>1. active'[k] = active[k]
        BY <2>1, <3>2 DEF TypeOK
      <4>2. Writing(k) \subseteq Writing(k)'
        BY <2>1, <4>1 DEF Writing, KeyOf, TypeOK
      <4>3. Current(k) => Current(k)'
        BY <2>1, <4>1 DEF Current, TypeOK
      <4>4. QED
        BY <4>2, <4>3 DEF CurrentInv
    <3>3. QED
      BY <3>1, <3>2
  <2>3. QED
    BY <2>2
<1>10. ASSUME NEW t \in Threads, Load(t) PROVE \A k \in Keys : Current(k)' \/ Writing(k)' # {}
  <2>1. /\ UNCHANGED <<row, unsaved, pending, alert, own, found, active>>
        /\ pc[t] = "load" /\ pc' = [pc EXCEPT ![t] = "copy"]
        /\ met \subseteq met' /\ crossed \subseteq crossed'
    BY <1>10 DEF Load, Goto, tracker
  <2>2. ASSUME NEW k \in Keys PROVE Writing(k) \subseteq Writing(k)' /\ (Current(k) => Current(k)')
    BY <2>1 DEF Writing, KeyOf, Current, TypeOK
  <2>3. QED
    BY <2>2 DEF CurrentInv
<1>11. ASSUME NEW t \in Threads, Copy(t) PROVE \A k \in Keys : Current(k)' \/ Writing(k)' # {}
  <2>1. /\ UNCHANGED <<row, unsaved, met, crossed, alert, own, found, active>>
        /\ pc[t] = "copy" /\ pc' = [pc EXCEPT ![t] = "commit"]
        /\ pending' = [pending EXCEPT ![t] = alert[found[t]].occ]
    BY <1>11 DEF Copy, Goto, tracker
  <2>2. ASSUME NEW k \in Keys PROVE Writing(k) \subseteq Writing(k)'
    BY <2>1 DEF Writing, KeyOf, TypeOK
  <2>3. ASSUME NEW k \in Keys, active[k] # NoAlert, found[t] = active[k] PROVE t \in Writing(k)'
    <3>1. KeyOf(t) = k
      BY <2>1, <2>3 DEF Keyed
    <3>2. QED
      BY <2>1, <2>3, <3>1 DEF Writing, KeyOf, TypeOK
  <2>4. \A u \in Threads \ {t} : pc'[u] = pc[u]
    BY <2>1 DEF TypeOK
  <2>5. ASSUME NEW k \in Keys, Writing(k)' = {} PROVE Current(k)'
    <3>1. Current(k)
      BY <2>2, <2>5 DEF CurrentInv
    <3>2. active[k] # NoAlert => found[t] # active[k]
      BY <2>3, <2>5
    <3>3. QED
      BY <2>1, <2>4, <3>1, <3>2 DEF Current
  <2>6. QED
    BY <2>5
<1>12. ASSUME NEW t \in Threads, Commit(t) PROVE \A k \in Keys : Current(k)' \/ Writing(k)' # {}
  BY <1>12, CommitCurrent
<1>13. QED
  BY <1>1, <1>2, <1>3, <1>4, <1>5, <1>6, <1>7, <1>8, <1>9, <1>10, <1>11, <1>12 DEF Next, Step

(* services/alerts/service.py and repositories/alerts.py: once nobody      *)
(* works on a key, the row of its alert has every occurrence, unless its   *)
(* last save raised or saves of it have crossed since one ran alone.       *)
THEOREM RowsFollow == Spec => []ActiveRowsCurrent
<1>1. IInv /\ CurrentInv => ActiveRowsCurrent
  BY DEF CurrentInv, ActiveRowsCurrent, Current, Writing, Busy, Tracked
<1>2. QED
  BY <1>1, InitInv, StepInv, InitCurrent, StepCurrent, PTL DEF Spec

----------------------------------------------------------------------------
(* Threads that take turns.  With one thread inside _process at a time     *)
(* every operation finds the dictionary as its last one left it ...        *)

Inside == {t \in Threads : pc[t] # "idle"}

Alone ==
    /\ raised = {}
    /\ \A t, u \in Inside : t = u
    /\ \A t \in Inside :
         /\ own[t] = built
         /\ pc[t] = "prune" => t \notin disturbed
         /\ pc[t] = "drop" => expired[t] \subseteq Tracked
         /\ pc[t] \in {"merge", "touch"} => active[KeyOf(t)] = found[t]
         /\ pc[t] = "insert" => active[KeyOf(t)] = NoAlert
         /\ pc[t] = "pop" => Tracked # {}
         /\ pc[t] \in {"copy", "commit"} => base[t] = row[found[t]]

TurnInv == ~overlapped => Alone

(* ... and if the stamps come in order as well, whatever has left the      *)
(* tracker without being forgotten was out of its window, and an alert     *)
(* that follows it under its key is later than that.                       *)

(* Alerts the thread that built them has put into the tracker.             *)
Told(i) == i \in announced \/ (\E k \in Keys : active[k] = i) \/ Bringing(i) # {}

(* The window of alert i is over by the newest stamp.                      *)
Outlived(i) == latest[i] + Window < alert[built].time

InOrder ==
    /\ \A i \in Ids : alert[i].seen = latest[i] /\ (i > built => alert[i].time = 0 /\ latest[i] = 0)
    /\ built > 0 => \A i \in Ids : alert[i].time <= alert[built].time
                                   /\ latest[i] <= alert[built].time
    /\ \A i \in Ids : Told(i) => i <= built
    /\ \A t \in Inside : pc[t] = "drop" => \A k \in expired[t] : Outlived(active[k])
    /\ \A i \in Ids : Told(i) /\ i \notin forgotten => active[alert[i].key] = i \/ Outlived(i)
    /\ \A i, j \in Ids : Told(i) /\ Told(j) /\ i < j /\ alert[i].key = alert[j].key =>
         /\ active[alert[i].key] # i
         /\ i \notin forgotten => alert[j].time > latest[i] + Window

OrderInv == ~overlapped /\ ~misdated => InOrder

(* Nobody is inside yet, and nothing is tracked.                           *)
LEMMA InitOrder == Init => TurnInv /\ OrderInv
BY DEF Init, TurnInv, Alone, Inside, OrderInv, InOrder, Told, Bringing, Ids, NoAlert

(* When one thread was inside at most, what it is about to do is all that  *)
(* has to be seen to.                                                      *)
LEMMA AloneStep ==
  ASSUME TypeOK, NEW t \in Threads, Inside \subseteq {t},
         \A u \in Threads \ {t} : pc'[u] = pc[u],
         raised' = {},
         t \in Inside' =>
             /\ own'[t] = built'
             /\ pc'[t] = "prune" => t \notin disturbed'
             /\ pc'[t] = "drop" => expired'[t] \subseteq Tracked'
             /\ pc'[t] \in {"merge", "touch"} => active'[KeyOf(t)'] = found'[t]
             /\ pc'[t] = "insert" => active'[KeyOf(t)'] = NoAlert
             /\ pc'[t] = "pop" => Tracked' # {}
             /\ pc'[t] \in {"copy", "commit"} => base'[t] = row'[found'[t]]
  PROVE  Alone'
<1>1. Inside' \subseteq {t}
  BY DEF Inside
<1>2. QED
  BY <1>1 DEF Alone

LEMMA StepTurn == IInv /\ TurnInv /\ [Next]_vars => TurnInv'
<1> SUFFICES ASSUME IInv, TurnInv, [Next]_vars, ~overlapped'
             PROVE  Alone'
  BY DEF TurnInv
<1> USE PipelineAssumption DEF IInv
<1>1. ~overlapped
  BY DEF Next, Step, Tick, Reset, Begin, PruneScan, PruneDrop, Lookup, Merge, Touch, GetActive,
         Insert, EvictTest, EvictPop, Load, Copy, Commit, Announce, vars, history
<1>2. Alone
  BY <1>1 DEF TurnInv
<1>3. ASSUME NEW t \in Threads, pc[t] # "idle"
      PROVE  /\ Inside \subseteq {t} /\ own[t] = built /\ own[t] \in Ids /\ KeyOf(t) \in Keys
             /\ raised = {}
  BY <1>2, <1>3 DEF Alone, Inside, InHand, TypeOK, KeyOf
<1>4. CASE Tick \/ UNCHANGED vars
  <2>1. UNCHANGED <<pc, own, built, disturbed, expired, active, alert, found, raised, base, row>>
    BY <1>4 DEF Tick, vars, tracker, persisted, saving
  <2>2. QED
    BY <1>2, <2>1 DEF Alone, Inside, Tracked, KeyOf
<1>5. CASE Reset
  BY <1>2, <1>5 DEF Reset, Alone, Inside, persisted, saving
<1>6. ASSUME NEW t \in Threads, Begin(t) PROVE Alone'
  <2>1. Inside = {}
    BY <1>6 DEF Begin, Inside
  <2>2. /\ pc'[t] = "prune" /\ own'[t] = built' /\ t \notin disturbed' /\ raised' = {}
        /\ \A u \in Threads \ {t} : pc'[u] = pc[u]
    BY <1>2, <1>6 DEF Begin, Goto, TypeOK, Alone
  <2>3. QED
    BY <2>1, <2>2, AloneStep
<1>7. ASSUME NEW t \in Threads,
             \/ PruneScan(t) \/ PruneDrop(t) \/ Lookup(t) \/ Merge(t) \/ Touch(t) \/ GetActive(t)
             \/ Insert(t) \/ EvictTest(t) \/ EvictPop(t) \/ Load(t) \/ Copy(t) \/ Commit(t)
             \/ Announce(t)
      PROVE  Alone'
  <2>1. /\ Inside \subseteq {t} /\ own[t] = built /\ own[t] \in Ids /\ KeyOf(t) \in Keys
        /\ raised = {} /\ t \in Inside
    BY <1>3, <1>7 DEF PruneScan, PruneDrop, Lookup, Merge, Touch, GetActive, Insert,
                      EvictTest, EvictPop, Load, Copy, Commit, Announce, Inside
  <2>2. /\ \A u \in Threads \ {t} : pc'[u] = pc[u]
        /\ UNCHANGED <<own, built>>
    BY <1>7 DEF PruneScan, PruneDrop, Lookup, Merge, Touch, GetActive, Insert,
                EvictTest, EvictPop, Load, Copy, Commit, Announce, Stored, NotStored, Abandon, Goto, TypeOK
  <2>3. SUFFICES /\ raised' = {}
                 /\ pc'[t] # "prune"
                 /\ pc'[t] = "drop" => expired'[t] \subseteq Tracked'
                 /\ pc'[t] \in {"merge", "touch"} => active'[KeyOf(t)'] = found'[t]
                 /\ pc'[t] = "insert" => active'[KeyOf(t)'] = NoAlert
                 /\ pc'[t] = "pop" => Tracked' # {}
                 /\ pc'[t] \in {"copy", "commit"} => base'[t] = row'[found'[t]]
    BY <2>1, <2>2, AloneStep
  <2>4. CASE PruneScan(t)
    BY <1>2, <2>1, <2>4 DEF PruneScan, Abandon, Goto, Alone, Expired, Tracked, tracker, TypeOK
  <2>5. CASE PruneDrop(t)
    <3>1. PICK k \in expired[t] :
            IF k \in Tracked
            THEN /\ active' = [active EXCEPT ![k] = NoAlert]
                 /\ expired' = [expired EXCEPT ![t] = @ \ {k}]
                 /\ UNCHANGED <<pc, raised>>
            ELSE Abandon(t)
      BY <2>5 DEF PruneDrop
    <3>2. expired[t] \subseteq Tracked /\ pc[t] = "drop"
      BY <1>2, <2>1, <2>5 DEF PruneDrop, Alone
    <3>3. QED
      BY <2>1, <3>1, <3>2 DEF Tracked, TypeOK
  <2>6. CASE Lookup(t)
    BY <2>1, <2>6 DEF Lookup, Goto, tracker, KeyOf, TypeOK
  <2>7. CASE Merge(t)
    <3>1. /\ pc'[t] = "touch" /\ raised' = {} /\ UNCHANGED <<active, found>>
          /\ \A i \in Ids : alert'[i].key = alert[i].key
      BY <2>1, <2>7 DEF Merge, Goto, tracker, TypeOK
    <3>2. KeyOf(t)' = KeyOf(t)
      BY <2>1, <2>2, <3>1 DEF KeyOf
    <3>3. active[KeyOf(t)] = found[t]
      BY <1>2, <2>1, <2>7 DEF Merge, Alone
    <3>4. QED
      BY <3>1, <3>2, <3>3
  <2>8. CASE Touch(t)
    <3>1. KeyOf(t) \in Tracked
      BY <1>2, <2>1, <2>8 DEF Touch, Alone, InHand, Tracked
    <3>2. QED
      BY <2>1, <2>8, <3>1 DEF Touch, Goto, TypeOK
  <2>9. CASE EvictPop(t)
    <3>1. Tracked # {}
      BY <1>2, <2>1, <2>9 DEF EvictPop, Alone
    <3>2. QED
      BY <2>1, <2>9, <3>1 DEF EvictPop, Goto, TypeOK
  <2>10. CASE EvictTest(t)
    <3>1. Cardinality(Tracked) > MaxTracked => Tracked # {}
      BY FS_EmptySet
    <3>2. QED
      BY <2>1, <2>10, <3>1 DEF EvictTest, Goto, TypeOK, Tracked, tracker, history
  <2>11. CASE GetActive(t) \/ Insert(t) \/ Load(t) \/ Announce(t)
    BY <2>1, <2>11 DEF GetActive, Insert, Load, Announce, Goto, TypeOK
  <2>12. CASE Copy(t)
    <3>1. base[t] = row[found[t]] /\ UNCHANGED <<base, row, found>>
      BY <1>2, <2>1, <2>12 DEF Copy, Alone
    <3>2. QED
      BY <2>1, <2>12, <3>1 DEF Copy, Goto, TypeOK
  <2>13. CASE Commit(t)
    <3>1. base[t] = row[found[t]] /\ found[t] \in Ids
      BY <1>2, <2>1, <2>13 DEF Commit, Alone, InHand, TypeOK
    <3>2. ~InsertsTwice(t)
      BY <3>1 DEF InsertsTwice
    <3>3. QED
      BY <2>1, <2>13, <3>2 DEF Commit, Stored, NotStored, Goto, TypeOK
  <2>14. QED
    BY <1>7, <2>4, <2>5, <2>6, <2>7, <2>8, <2>9, <2>10, <2>11, <2>12, <2>13
<1>8. QED
  BY <1>4, <1>5, <1>6, <1>7 DEF Next, Step

(* A step that builds and merges nothing, and takes nothing in; what it    *)
(* takes out is forgotten or out of its window.                            *)
LEMMA OrderKept ==
  ASSUME TypeOK, InOrder, UNCHANGED <<built, alert, latest>>, forgotten \subseteq forgotten',
         \A i \in Ids : Told(i)' => Told(i),
         \A k \in Keys : \/ active'[k] = active[k]
                         \/ /\ active'[k] = NoAlert
                            /\ active[k] \in forgotten' \/ Outlived(active[k]),
         \A t \in Inside' : pc'[t] = "drop" => \A k \in expired'[t] : Outlived(active'[k])
  PROVE  InOrder'
<1>1. \A i \in Ids : Outlived(i)' <=> Outlived(i)
  BY DEF Outlived
<1>2. \A t \in Inside' : pc'[t] = "drop" => \A k \in expired'[t] : Outlived(active[k])'
  BY DEF Outlived
<1>3. \A i \in Ids : alert[i].key \in Keys
  BY DEF TypeOK
<1>4. \A i \in Ids : i # NoAlert
  BY DEF Ids, NoAlert
<1>5. \A i \in Ids : Told(i)' /\ i \notin forgotten' => active'[alert[i].key] = i \/ Outlived(i)'
  BY <1>1, <1>3 DEF InOrder
<1>6. \A i, j \in Ids : Told(i)' /\ Told(j)' /\ i < j /\ alert[i].key = alert[j].key =>
         /\ active'[alert[i].key] # i
         /\ i \notin forgotten' => alert[j].time > latest[i] + Window
  BY <1>3, <1>4 DEF InOrder
<1>7. QED
  BY <1>2, <1>5, <1>6 DEF InOrder

LEMMA BeginOrder ==
  ASSUME IInv, Keyed, InOrder, Alone, NEW t \in Threads, Begin(t), ~misdated', Inside = {}
  PROVE  InOrder'
<1> USE PipelineAssumption DEF IInv
<1>1. /\ built' = built + 1 /\ built \in Nat /\ built' \in Ids
      /\ pc'[t] = "prune" /\ \A u \in Threads \ {t} : pc'[u] = pc[u]
      /\ UNCHANGED <<active, announced, forgotten>>
  BY DEF Begin, TypeOK, Ids, Goto, tracker, persisted, saving
<1>2. PICK s \in Nat, k \in Keys :
        /\ alert' = [alert EXCEPT ![built + 1] = [key |-> k, time |-> s, seen |-> s, occ |-> 1]]
        /\ latest' = [latest EXCEPT ![built + 1] = s]
        /\ \A i \in Ids : alert[i].time <= s
  <2>1. Reports(t) \subseteq Keys
    BY DEF Reports, Keys
  <2>2. Stamps(t) \subseteq Nat
    BY DEF Stamps, TypeOK
  <2>3. PICK k \in Keys, s \in Nat :
          /\ alert' = [alert EXCEPT ![built + 1] = [key |-> k, time |-> s, seen |-> s, occ |-> 1]]
          /\ latest' = [latest EXCEPT ![built + 1] = s]
          /\ misdated' = (misdated \/ \E i \in Ids : alert[i].time > s)
    BY <2>1, <2>2 DEF Begin
  <2>4. \A i \in Ids : alert[i].time \in Nat
    BY DEF TypeOK
  <2>5. ~ \E i \in Ids : alert[i].time > s
    BY <2>3, Zenon
  <2>6. \A i \in Ids : alert[i].time <= s
    BY <2>4, <2>5
  <2>7. QED
    BY <2>3, <2>6
<1>3. /\ alert'[built'].time = s /\ alert'[built'].seen = s /\ latest'[built'] = s
      /\ \A i \in Ids : i # built' => alert'[i] = alert[i] /\ latest'[i] = latest[i]
  BY <1>1, <1>2 DEF TypeOK
<1>4. \A i \in Ids : latest[i] \in Nat /\ alert[i].time \in Nat /\ alert[i].key \in Keys
  BY DEF TypeOK
<1>5. \A i \in Ids : alert[i].time <= s /\ latest[i] <= s
  <2>1. CASE built = 0
    BY <1>2, <1>4, <2>1 DEF InOrder, Ids
  <2>2. CASE built > 0
    <3>1. built \in Ids
      BY <1>1, <2>2 DEF TypeOK, Ids
    <3>2. QED
      BY <1>2, <1>4, <2>2, <3>1 DEF InOrder
  <2>3. QED
    BY <1>1, <2>1, <2>2
<1>6. \A i \in Ids : Told(i)' => Told(i) /\ i <= built
  <2>1. \A i \in Ids : Bringing(i)' = {}
    BY <1>1 DEF Bringing, Inside
  <2>2. \A i \in Ids : Told(i)' => Told(i)
    BY <1>1, <2>1 DEF Told
  <2>3. QED
    BY <2>2 DEF InOrder
<1>7. \A i \in Ids : i <= built => i # built' /\ i \in Nat
  BY <1>1 DEF Ids
<1>8. \A i \in Ids : i <= built /\ Outlived(i) => Outlived(i)'
  <2>1. ASSUME NEW i \in Ids, i <= built, Outlived(i)
        PROVE  Outlived(i)'
    <3>1. built \in Ids
      BY <1>1, <2>1 DEF TypeOK, Ids
    <3>2. alert[built].time <= s /\ alert[built].time \in Nat /\ latest[i] \in Nat
      BY <1>4, <1>5, <3>1
    <3>3. latest'[i] = latest[i]
      BY <1>3, <1>7, <2>1
    <3>4. QED
      BY <1>3, <2>1, <3>2, <3>3 DEF Outlived
  <2>2. QED
    BY <2>1
<1>9. /\ \A i \in Ids : alert'[i].seen = latest'[i]
      /\ \A i \in Ids : i > built' => alert'[i].time = 0 /\ latest'[i] = 0
      /\ \A i \in Ids : alert'[i].time <= s /\ latest'[i] <= s
  BY <1>1, <1>3, <1>5 DEF InOrder, Ids
<1>10. \A i \in Ids : Told(i)' /\ i \notin forgotten' => active'[alert'[i].key] = i \/ Outlived(i)'
  BY <1>1, <1>3, <1>6, <1>7, <1>8 DEF InOrder
<1>11. \A i, j \in Ids : Told(i)' /\ Told(j)' /\ i < j /\ alert'[i].key = alert'[j].key =>
         /\ active'[alert'[i].key] # i
         /\ i \notin forgotten' => alert'[j].time > latest'[i] + Window
  BY <1>1, <1>3, <1>6, <1>7 DEF InOrder
<1>12. \A u \in Inside' : pc'[u] # "drop"
  BY <1>1 DEF Inside
<1>13. \A i \in Ids : Told(i)' => i <= built'
  BY <1>1, <1>6, <1>7
<1>14. QED
  BY <1>3, <1>9, <1>10, <1>11, <1>12, <1>13 DEF InOrder

LEMMA MergeOrder ==
  ASSUME IInv, Keyed, InOrder, Alone, NEW t \in Threads, Merge(t), Inside = {t}
  PROVE  InOrder'
<1> USE PipelineAssumption DEF IInv
<1> DEFINE m == found[t]
           now == alert[built].time
<1>1. /\ pc[t] = "merge" /\ own[t] = built /\ built \in Ids /\ built > 0 /\ m \in Ids
      /\ active[KeyOf(t)] = m /\ alert[m].key = KeyOf(t) /\ KeyOf(t) \in Keys
  <2>1. pc[t] = "merge" /\ t \in Inside
    BY DEF Merge, Inside
  <2>2. own[t] = built /\ active[KeyOf(t)] = m
    BY <2>1 DEF Alone
  <2>3. own[t] \in Ids /\ m \in Ids
    BY <2>1 DEF InHand, Inside, TypeOK, Ids
  <2>4. alert[m].key = KeyOf(t) /\ KeyOf(t) \in Keys
    BY <2>1, <2>3 DEF Keyed, KeyOf, TypeOK
  <2> QED
    BY <2>1, <2>2, <2>3, <2>4 DEF Ids
<1>2. \A i \in Ids : latest[i] \in Nat /\ alert[i].time \in Nat /\ alert[i].key \in Keys
  BY DEF TypeOK
<1>3. /\ latest[m] <= now
      /\ alert'[m].seen = now /\ latest'[m] = now
      /\ \A i \in Ids : alert'[i].time = alert[i].time /\ alert'[i].key = alert[i].key
      /\ \A i \in Ids \ {m} : alert'[i] = alert[i] /\ latest'[i] = latest[i]
  <2>1. latest[m] <= now
    BY <1>1 DEF InOrder
  <2>2. PICK a : /\ a = [alert[m] EXCEPT !.occ = @ + 1, !.seen = now]
                 /\ alert' = [alert EXCEPT ![m] = a]
    BY <1>1 DEF Merge
  <2>3. alert[m] \in [key : Keys, time : Nat, seen : Nat, occ : Nat]
    BY <1>1 DEF TypeOK
  <2>4. a.key = alert[m].key /\ a.time = alert[m].time /\ a.seen = now
    BY <2>2, <2>3
  <2>5. latest' = [latest EXCEPT ![m] = IF now > @ THEN now ELSE @]
    BY <1>1 DEF Merge
  <2> HIDE DEF m, now
  <2>6. latest'[m] = now
    <3>1. latest \in [Ids -> Nat] /\ now \in Nat
      BY <1>1 DEF TypeOK, now
    <3>2. QED
      BY <1>1, <2>1, <2>5, <3>1
  <2>7. QED
    BY <1>1, <2>1, <2>2, <2>4, <2>5, <2>6 DEF TypeOK
<1>4. /\ UNCHANGED <<built, active, announced, forgotten, own, expired>>
      /\ pc'[t] = "touch" /\ \A u \in Threads \ {t} : pc'[u] = pc[u]
  BY DEF Merge, Goto, TypeOK, tracker, persisted, saving
<1> HIDE DEF m, now
<1>5. \A i \in Ids : Told(i)' <=> Told(i)
  BY <1>1, <1>4 DEF Told, Bringing, Inside
<1>6. \A i \in Ids \ {m} : Outlived(i) => Outlived(i)'
  BY <1>1, <1>3, <1>4 DEF Outlived
<1>7. /\ \A i \in Ids : alert'[i].seen = latest'[i]
      /\ \A i \in Ids : alert'[i].time <= alert'[built'].time /\ latest'[i] <= alert'[built'].time
  BY <1>1, <1>2, <1>3, <1>4 DEF InOrder, now
<1>8. \A i \in Ids : i > built' => alert'[i].time = 0 /\ latest'[i] = 0
  <2>1. m <= built
    BY <1>1 DEF Keyed, m
  <2>2. QED
    BY <1>1, <1>3, <1>4, <2>1 DEF InOrder, Ids
<1>9. \A i \in Ids : Told(i)' /\ i \notin forgotten' => active'[alert'[i].key] = i \/ Outlived(i)'
  BY <1>1, <1>3, <1>4, <1>5, <1>6 DEF InOrder
<1>10. \A i, j \in Ids : Told(i)' /\ Told(j)' /\ i < j /\ alert'[i].key = alert'[j].key =>
         /\ active'[alert'[i].key] # i
         /\ i \notin forgotten' => alert'[j].time > latest'[i] + Window
  BY <1>1, <1>3, <1>4, <1>5 DEF InOrder
<1>11. \A u \in Inside' : pc'[u] # "drop"
  BY <1>4 DEF Inside
<1>12. QED
  BY <1>4, <1>5, <1>7, <1>8, <1>9, <1>10, <1>11 DEF InOrder

LEMMA InsertOrder ==
  ASSUME IInv, Keyed, InOrder, Alone, NEW t \in Threads, Insert(t), Inside = {t}
  PROVE  InOrder'
<1> USE PipelineAssumption DEF IInv
<1> DEFINE k == KeyOf(t)
<1>1. /\ pc[t] = "insert" /\ own[t] = built /\ built \in Ids /\ k \in Keys
      /\ active[k] = NoAlert /\ alert[built].key = k
  BY DEF Insert, Alone, Inside, InHand, TypeOK, KeyOf
<1>2. /\ active' = [active EXCEPT ![k] = built] /\ pc' = [pc EXCEPT ![t] = "evict"]
      /\ found' = [found EXCEPT ![t] = built]
      /\ UNCHANGED <<built, alert, latest, announced, forgotten, own, expired>>
  BY <1>1 DEF Insert, Goto, persisted, saving, history
<1> HIDE DEF k
<1>3. /\ \A i \in Ids : alert[i].key \in Keys /\ latest[i] \in Nat /\ alert[i].time \in Nat
      /\ \A i \in Ids : i # NoAlert /\ i \in Nat
  BY DEF TypeOK, Ids, NoAlert
<1>4. \A i \in Ids : Told(i)' => Told(i) \/ i = built
  BY <1>1, <1>2 DEF Told, Bringing, TypeOK
<1>5. \A i \in Ids : Outlived(i)' <=> Outlived(i)
  BY <1>2 DEF Outlived
<1>6. \A i \in Ids : i # built /\ alert[i].key = k => active[alert[i].key] # i
  BY <1>1, <1>3
<1>7. \A i \in Ids : Told(i)' => i <= built
  BY <1>1, <1>3, <1>4 DEF InOrder
<1>8. \A i \in Ids : Told(i)' /\ i \notin forgotten => active'[alert[i].key] = i \/ Outlived(i)
  <2>1. ASSUME NEW i \in Ids, Told(i)', i \notin forgotten
        PROVE  active'[alert[i].key] = i \/ Outlived(i)
    <3>1. CASE i = built
      BY <1>1, <1>2, <3>1 DEF TypeOK
    <3>2. CASE i # built
      <4>1. active[alert[i].key] = i \/ Outlived(i)
        BY <1>4, <2>1, <3>2 DEF InOrder
      <4>2. QED
        BY <1>1, <1>2, <1>3, <1>6, <3>2, <4>1 DEF TypeOK
    <3>3. QED
      BY <3>1, <3>2
  <2>2. QED
    BY <2>1
<1>9. ASSUME NEW i \in Ids, NEW j \in Ids,
             Told(i)', Told(j)', i < j, alert[i].key = alert[j].key
      PROVE  /\ active'[alert[i].key] # i
             /\ i \notin forgotten => alert[j].time > latest[i] + Window
  <2>1. i # built /\ Told(i)
    BY <1>3, <1>4, <1>7, <1>9, <1>1
  <2>2. CASE j = built
    <3>1. active[alert[i].key] # i
      BY <1>1, <1>3, <1>9, <2>2
    <3>2. i \notin forgotten => Outlived(i)
      BY <2>1, <3>1 DEF InOrder
    <3>3. QED
      BY <1>1, <1>2, <1>3, <1>9, <2>1, <2>2, <3>2 DEF Outlived, TypeOK
  <2>3. CASE j # built
    <3>1. Told(j)
      BY <1>4, <1>9, <2>3
    <3>2. /\ active[alert[i].key] # i
          /\ i \notin forgotten => alert[j].time > latest[i] + Window
      BY <1>9, <2>1, <3>1 DEF InOrder
    <3>3. QED
      BY <1>2, <1>3, <2>1, <3>2 DEF TypeOK
  <2>4. QED
    BY <2>2, <2>3
<1>10. \A u \in Inside' : pc'[u] # "drop"
  BY <1>1, <1>2 DEF Inside, TypeOK
<1>11. QED
  BY <1>2, <1>5, <1>7, <1>8, <1>9, <1>10 DEF InOrder

LEMMA StepOrder ==
  IInv /\ Keyed /\ TurnInv /\ TurnInv' /\ OrderInv /\ [Next]_vars => OrderInv'
<1> SUFFICES ASSUME IInv, Keyed, TurnInv, TurnInv', OrderInv, [Next]_vars,
                    ~overlapped', ~misdated'
             PROVE  InOrder'
  BY DEF OrderInv
<1> USE PipelineAssumption DEF IInv
<1>1. ~overlapped /\ ~misdated
  <2>1. ~overlapped
    BY DEF Next, Step, Tick, Reset, Begin, PruneScan, PruneDrop, Lookup, Merge, Touch, GetActive,
           Insert, EvictTest, EvictPop, Load, Copy, Commit, Announce, vars, history
  <2>2. misdated' = misdated \/ \E t \in Threads : Begin(t)
    BY DEF Next, Step, Tick, Reset, PruneScan, PruneDrop, Lookup, Merge, Touch, GetActive,
           Insert, EvictTest, EvictPop, Load, Copy, Commit, Announce, vars, history
  <2>3. ASSUME NEW t \in Threads, Begin(t) PROVE ~misdated
    <3>1. PICK s : misdated' = (misdated \/ \E i \in Ids : alert[i].time > s)
      BY <2>3 DEF Begin
    <3>2. QED
      BY <3>1, Zenon
  <2>4. QED
    BY <2>1, <2>2, <2>3
<1>2. Alone /\ Alone' /\ InOrder
  BY <1>1 DEF TurnInv, OrderInv
<1>3. \A t \in Threads : pc[t] # "idle" => Inside = {t}
  BY <1>2 DEF Alone, Inside
<1>4. CASE Tick \/ UNCHANGED vars
  <2>1. UNCHANGED <<built, alert, latest, active, announced, forgotten, own, found, pc, expired>>
    BY <1>4 DEF Tick, vars, tracker, persisted, saving, history
  <2>2. QED
    BY <1>2, <2>1 DEF InOrder, Told, Bringing, Outlived, Inside
<1>5. CASE Reset
  <2>1. /\ UNCHANGED <<built, alert, latest, announced, own, found, pc, expired>>
        /\ \A k \in Keys : active'[k] = NoAlert
        /\ \A k \in Keys : active[k] # NoAlert => active[k] \in forgotten'
        /\ forgotten \subseteq forgotten'
        /\ Inside = {}
    BY <1>5 DEF Reset, Tracked, persisted, saving, Inside
  <2>2. \A i \in Ids : Told(i)' => Told(i)
    BY <2>1 DEF Told, Bringing, Ids, NoAlert
  <2>3. \A t \in Inside' : pc'[t] # "drop"
    BY <2>1 DEF Inside
  <2>4. \A k \in Keys : \/ active'[k] = active[k]
                        \/ /\ active'[k] = NoAlert
                           /\ active[k] \in forgotten' \/ Outlived(active[k])
    BY <2>1
  <2>5. QED
    BY <1>2, <2>1, <2>2, <2>3, <2>4, OrderKept
<1>6. ASSUME NEW t \in Threads, Begin(t) PROVE InOrder'
  <2>1. Inside = {}
    BY <1>6 DEF Begin, Inside
  <2>2. QED
    BY <1>2, <1>6, <2>1, BeginOrder
<1>7. ASSUME NEW t \in Threads, Merge(t) PROVE InOrder'
  BY <1>2, <1>3, <1>7, MergeOrder DEF Merge
<1>8. ASSUME NEW t \in Threads, Insert(t) PROVE InOrder'
  BY <1>2, <1>3, <1>8, InsertOrder DEF Insert
<1>9. ASSUME NEW t \in Threads,
             \/ PruneScan(t) \/ PruneDrop(t) \/ Lookup(t) \/ Touch(t) \/ GetActive(t)
             \/ EvictTest(t) \/ EvictPop(t) \/ Load(t) \/ Copy(t) \/ Commit(t) \/ Announce(t)
      PROVE  InOrder'
  <2>1. /\ UNCHANGED <<built, alert, latest, own>>
        /\ forgotten \subseteq forgotten'
        /\ pc[t] # "idle"
        /\ \A u \in Threads \ {t} : pc'[u] = pc[u]
    BY <1>9 DEF PruneScan, PruneDrop, Lookup, Touch, GetActive, EvictTest, EvictPop,
                Load, Copy, Commit, Announce, Stored, NotStored, Abandon, Goto, TypeOK, history
  <2>2. Inside = {t} /\ own[t] = built /\ own[t] \in Ids /\ raised' = {}
    BY <1>2, <1>3, <2>1 DEF Alone, InHand, TypeOK, Inside
  <2>3. \A i \in Ids : i # NoAlert
    BY DEF Ids, NoAlert
  <2>4. ASSUME NEW i \in Ids, Told(i)' PROVE Told(i)
    <3>1. \A k \in Keys : active'[k] \in {active[k], NoAlert}
      BY <1>9 DEF PruneScan, PruneDrop, Lookup, Touch, GetActive, EvictTest, EvictPop,
                  Load, Copy, Commit, Announce, tracker, TypeOK
    <3>2. \/ announced' = announced
          \/ pc[t] = "announce" /\ announced' = announced \cup {own[t]}
      BY <1>9 DEF PruneScan, PruneDrop, Lookup, Touch, GetActive, EvictTest, EvictPop,
                  Load, Copy, Commit, Announce, persisted, saving
    <3>3. \A u \in Threads \ {t} : found'[u] = found[u]
      BY <1>9 DEF PruneScan, PruneDrop, Lookup, Touch, GetActive, EvictTest, EvictPop,
                  Load, Copy, Commit, Announce, TypeOK
    <3>4. t \in Bringing(i)' => t \in Bringing(i) \/ \E k \in Keys : active[k] = i
      <4>1. CASE GetActive(t)
        <5>1. KeyOf(t) \in Keys
          BY <2>2 DEF KeyOf, TypeOK
        <5>2. pc'[t] # "announce" /\ found'[t] = active[KeyOf(t)]
          BY <4>1 DEF GetActive, Goto, TypeOK
        <5>3. QED
          BY <5>1, <5>2 DEF Bringing
      <4>2. CASE EvictTest(t) \/ EvictPop(t) \/ Load(t) \/ Copy(t) \/ Commit(t)
        <5>1. /\ pc[t] \in {"evict", "pop", "load", "copy", "commit"}
              /\ found' = found /\ own' = own
              /\ pc'[t] = "announce" => found[t] = own[t]
          BY <4>2 DEF EvictTest, EvictPop, Load, Copy, Commit, Stored, NotStored, Abandon, Goto, TypeOK
        <5>2. QED
          BY <5>1 DEF Bringing
      <4>3. CASE PruneScan(t) \/ PruneDrop(t) \/ Lookup(t) \/ Touch(t) \/ Announce(t)
        <5>1. pc'[t] \in {"drop", "insert", "merge", "getActive", "idle"}
          BY <4>3 DEF PruneScan, PruneDrop, Lookup, Touch, Announce, Abandon, Goto, TypeOK
        <5>2. QED
          BY <5>1 DEF Bringing
      <4>4. QED
        BY <1>9, <4>1, <4>2, <4>3
    <3>5. Bringing(i)' # {} => Bringing(i) # {} \/ \E k \in Keys : active[k] = i
      BY <2>1, <3>3, <3>4 DEF Bringing
    <3>6. i \in announced' => Told(i)
      BY <3>2, <2>2 DEF Told, Bringing
    <3>7. QED
      BY <2>3, <2>4, <3>1, <3>5, <3>6 DEF Told
  <2>5. /\ \A k \in Keys : \/ active'[k] = active[k]
                           \/ /\ active'[k] = NoAlert
                              /\ active[k] \in forgotten' \/ Outlived(active[k])
        /\ pc'[t] = "drop" => \A k \in expired'[t] : Outlived(active'[k])
    <3>1. CASE PruneScan(t)
      <4>1. active' = active /\ expired'[t] = Expired(alert[built].time) /\ pc'[t] = "drop"
        BY <2>2, <3>1 DEF PruneScan, Abandon, Goto, tracker, TypeOK
      <4>2. \A k \in Tracked : active[k] \in Ids /\ alert[active[k]].seen = latest[active[k]]
        BY <1>2 DEF Tracked, TypeOK, InOrder
      <4>3. \A k \in Expired(alert[built].time) : Outlived(active[k])
        BY <4>2 DEF Expired, Outlived
      <4>4. QED
        BY <4>1, <4>3
    <3>2. CASE PruneDrop(t)
      <4>1. PICK k \in expired[t] :
              IF k \in Tracked
              THEN /\ active' = [active EXCEPT ![k] = NoAlert]
                   /\ expired' = [expired EXCEPT ![t] = @ \ {k}]
              ELSE Abandon(t)
        BY <3>2 DEF PruneDrop
      <4>2. k \in Tracked /\ expired[t] \subseteq Keys
        BY <2>2, <4>1 DEF Abandon, TypeOK
      <4>3. \A j \in expired[t] : Outlived(active[j])
        BY <1>2, <2>2, <3>2 DEF PruneDrop, InOrder
      <4>4. QED
        BY <4>1, <4>2, <4>3 DEF TypeOK
    <3>3. CASE EvictPop(t)
      <4>1. PICK k \in Tracked : /\ active' = [active EXCEPT ![k] = NoAlert]
                                 /\ forgotten' = forgotten \cup {active[k]}
                                 /\ pc'[t] = "evict"
        BY <2>2, <3>3 DEF EvictPop, Abandon, Goto, TypeOK
      <4>2. QED
        BY <4>1 DEF TypeOK, Tracked
    <3>4. CASE Lookup(t) \/ Touch(t) \/ GetActive(t)  \/ EvictTest(t) \/ Load(t) \/ Copy(t) \/ Commit(t)
               \/ Announce(t)
      BY <2>2, <3>4 DEF Lookup, Touch, GetActive, EvictTest, Load, Copy, Commit, Announce, Stored, NotStored,
                        Abandon, Goto, tracker, TypeOK
    <3>5. QED
      BY <1>9, <3>1, <3>2, <3>3, <3>4
  <2>6. Inside' \subseteq {t}
    BY <2>1, <2>2 DEF Inside
  <2>7. \A u \in Inside' : pc'[u] = "drop" => \A k \in expired'[u] : Outlived(active'[k])
    BY <2>5, <2>6
  <2>8. QED
    BY <1>2, <2>1, <2>4, <2>5, <2>7, OrderKept
<1>10. QED
  BY <1>4, <1>5, <1>6, <1>7, <1>8, <1>9 DEF Next, Step

(* services/alerts/dedup.py: while the threads take turns no dictionary    *)
(* operation raises; if the stamps come in order as well, two announced    *)
(* alerts of one key are more than a window apart unless the first was     *)
(* evicted or reset away, and last_seen is the newest event.               *)
THEOREM TurnsAreSound == Spec => []SoundInTurn
<1>1. Init => Keyed
  BY InitCurrent DEF CurrentInv
<1>2. IInv /\ TurnInv /\ OrderInv => SoundInTurn
  <2>1. \A i \in announced : Told(i)
    BY DEF Told
  <2>2. InOrder /\ announced \subseteq Ids => MergedInWindow /\ LastSeenIsLatest
    BY <2>1 DEF InOrder, MergedInWindow, LastSeenIsLatest
  <2>3. QED
    BY <2>2 DEF IInv, TypeOK, TurnInv, Alone, OrderInv, SoundInTurn
<1>3. QED
  BY <1>1, <1>2, InitInv, StepInv, StepKeyed, InitOrder, StepTurn, StepOrder, PTL DEF Spec
=============================================================================
