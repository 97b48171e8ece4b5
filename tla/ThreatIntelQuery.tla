-------------------------- MODULE ThreatIntelQuery --------------------------
(***************************************************************************)
(* One address looked up at one provider: query_provider, the two cache    *)
(* tiers and the circuit breaker.  Every process (the sensor with its      *)
(* enrichment worker, the API with its request threads) has a memory tier  *)
(* and a breaker of its own; the durable tier, a row of the database, is   *)
(* shared.  The memory tier and the breaker have a lock each, the database *)
(* reads and writes in separate statements.                                *)
(*                                                                         *)
(* Times are relative and saturate; an age nothing depends on is 0.        *)
(* An entry as old as the TTL is the same as none.  The answer itself is   *)
(* abstracted to its age, counted from the instant the provider gave it.   *)
(***************************************************************************)
EXTENDS Naturals, FiniteSets

CONSTANTS
    Procs,       \* the processes
    Sensor,      \* of these, the one in which only the worker looks up
    Callers,     \* the threads that look the address up
    TTL,         \* TI_CACHE_TTL_SECONDS
    Threshold,   \* TI_BREAKER_FAILURE_THRESHOLD
    Cooldown,    \* TI_BREAKER_RESET_SECONDS
    MaxStops     \* bound: times a service is stopped

ASSUME QueryAssumption ==
    /\ TTL \in Nat \ {0} /\ Threshold \in Nat \ {0} /\ Cooldown \in Nat \ {0}
    /\ MaxStops \in Nat

ASSUME FiniteCallers == IsFiniteSet(Callers)

VARIABLES
    home,      \* home[c]: the process of caller c, fixed
    memory,    \* each process's entry: its age and the age of its data
    row,       \* the durable entry: present, its age and the age of its data
    breaker,   \* each process's breaker: failures, opened, its age since
    running,   \* processes whose ThreatIntelService is started
    pc,        \* where each caller is in query_provider
    hand,      \* the age of the answer each caller holds
    loaded,    \* callers whose SELECT found a row
    same,      \* of those, the callers whose row has not been deleted since
    outage,    \* history: failures in a row, cooldowns aside
    stops

store == <<row, loaded, same>>
vars == <<home, memory, breaker, running, pc, hand, store, outage, stops>>

Labels == {"idle", "durable", "purge", "promote", "breaker", "calling",
           "cache", "select", "write"}
Ages == 0 .. 2 * TTL
NoEntry == [age |-> TTL, data |-> 0]
NoRow == [present |-> FALSE, age |-> 0, data |-> 0]
Closed == [failures |-> 0, opened |-> FALSE, age |-> 0]

(* The enrichment worker is one thread, the requests of the API are many.  *)
Layouts ==
    {l \in [Callers -> Procs] :
        \A c, d \in Callers : l[c] = Sensor /\ l[d] = Sensor => c = d}

ThreadsOf(p) == {c \in Callers : home[c] = p}

Capped(n, cap) == IF n < cap THEN n ELSE cap
Goto(c, label) == pc' = [pc EXCEPT ![c] = label]

(* Return the answer to the caller's caller.                               *)
Serve(c) ==
    /\ Goto(c, "idle")
    /\ hand' = [hand EXCEPT ![c] = 0]

----------------------------------------------------------------------------
Init ==
    /\ home \in Layouts
    /\ memory = [p \in Procs |-> NoEntry]
    /\ row = NoRow
    /\ breaker = [p \in Procs |-> Closed]
    /\ running = Procs
    /\ pc = [c \in Callers |-> "idle"]
    /\ hand = [c \in Callers |-> 0]
    /\ loaded = {} /\ same = {}
    /\ stops = 0
    /\ outage = [p \in Procs |-> 0]

Older(entry) ==
    IF entry.age + 1 >= TTL THEN [entry EXCEPT !.age = TTL, !.data = 0]
    ELSE [entry EXCEPT !.age = @ + 1, !.data = Capped(@ + 1, 2 * TTL)]

(* An answer grows older in the tiers; the time it spends in the hands of  *)
(* a thread is not counted.                                                *)
Tick ==
    /\ memory' = [p \in Procs |-> Older(memory[p])]
    /\ row' = IF row.present THEN Older(row) ELSE row
    /\ breaker' = [p \in Procs |->
                     IF breaker[p].opened
                     THEN [breaker[p] EXCEPT !.age = Capped(@ + 1, Cooldown)]
                     ELSE breaker[p]]
    /\ UNCHANGED <<running, pc, hand, loaded, same, outage, stops>>

(* ThreatIntelCache.get: the entry while it is fresh.                      *)
MemoryGet(c) ==
    /\ pc[c] = "idle"
    /\ IF memory[home[c]].age < TTL
       THEN Serve(c)
       ELSE Goto(c, "durable") /\ UNCHANGED hand
    /\ UNCHANGED <<memory, breaker, running, store, outage, stops>>

(* ThreatIntelCacheRepository.get: a row past its TTL is deleted, a        *)
(* failing database is the same as a miss.                                 *)
DurableGet(c) ==
    /\ pc[c] = "durable"
    /\ \/ /\ row.present /\ row.age < TTL
          /\ hand' = [hand EXCEPT ![c] = row.data]
          /\ Goto(c, "promote")
          /\ UNCHANGED same
       \/ /\ row.present /\ row.age >= TTL
          /\ same' = same \cup {c}
          /\ Goto(c, "purge")
          /\ UNCHANGED hand
       \/ Goto(c, "breaker") /\ UNCHANGED <<hand, same>>
    /\ UNCHANGED <<memory, breaker, running, row, loaded, outage, stops>>

(* The DELETE goes by the row's id, and takes whatever the row holds now.  *)
Purge(c) ==
    /\ pc[c] = "purge"
    /\ IF c \in same
       THEN row' = NoRow /\ same' = {}
       ELSE UNCHANGED <<row, same>>
    /\ Goto(c, "breaker")
    /\ UNCHANGED <<memory, breaker, running, hand, loaded, outage, stops>>

(* Mutant: the promoted answer is also written back.                       *)
PromoteBoth(c) ==
    /\ pc[c] = "promote"
    /\ memory' = [memory EXCEPT ![home[c]] = [age |-> 0, data |-> hand[c]]]
    /\ row' = [row EXCEPT !.age = 0]
    /\ Serve(c)
    /\ UNCHANGED <<breaker, running, loaded, same, outage, stops>>

(* A durable hit enters the memory tier with a full TTL.                   *)
Promote(c) ==
    /\ pc[c] = "promote"
    /\ memory' = [memory EXCEPT ![home[c]] = [age |-> 0, data |-> hand[c]]]
    /\ Serve(c)
    /\ UNCHANGED <<breaker, running, store, outage, stops>>

(* _state_unlocked.                                                        *)
State(b) ==
    IF ~b.opened THEN "closed"
    ELSE IF b.age >= Cooldown THEN "half_open" ELSE "open"

(* Mutant: a refused request starts the cooldown again.                    *)
BreakerRestarting(c) ==
    LET p == home[c] state == State(breaker[p]) IN
    /\ pc[c] = "breaker"
    /\ Goto(c, IF state = "open" THEN "idle" ELSE "calling")
    /\ breaker' = [breaker EXCEPT ![p].age = IF state = "open" THEN 0 ELSE @]
    /\ outage' = IF state = "half_open" THEN [outage EXCEPT ![p] = 0] ELSE outage
    /\ UNCHANGED <<memory, running, hand, store, stops>>

(* allows_request: a half-open circuit admits whoever asks.                *)
Breaker(c) ==
    LET p == home[c] state == State(breaker[p]) IN
    /\ pc[c] = "breaker"
    /\ Goto(c, IF state = "open" THEN "idle" ELSE "calling")
    /\ outage' = IF state = "half_open" THEN [outage EXCEPT ![p] = 0] ELSE outage
    /\ UNCHANGED <<memory, breaker, running, hand, store, stops>>

(* The provider answers: record_success, then the cache.                   *)
Succeed(c) ==
    LET p == home[c] IN
    /\ pc[c] = "calling"
    /\ breaker' = [breaker EXCEPT ![p] = Closed]
    /\ hand' = [hand EXCEPT ![c] = 0]
    /\ Goto(c, "cache")
    /\ outage' = [outage EXCEPT ![p] = 0]
    /\ UNCHANGED <<memory, running, store, stops>>

(* Mutant: the circuit opens one failure later.                            *)
FailLate(c) ==
    LET p == home[c]
        failures == Capped(breaker[p].failures + 1, Threshold + 1)
        opens == failures > Threshold
    IN
    /\ pc[c] = "calling"
    /\ breaker' = [breaker EXCEPT ![p] =
                     [failures |-> failures, opened |-> @.opened \/ opens,
                      age |-> IF opens THEN 0 ELSE @.age]]
    /\ outage' = [outage EXCEPT ![p] = @ + 1]
    /\ Goto(c, "idle")
    /\ UNCHANGED <<memory, running, hand, store, stops>>

(* The lookup fails, refusals of the gatekeeper included: record_failure.  *)
Fail(c) ==
    LET p == home[c]
        failures == Capped(breaker[p].failures + 1, Threshold)
        opens == failures >= Threshold
    IN
    /\ pc[c] = "calling"
    /\ breaker' = [breaker EXCEPT ![p] =
                     [failures |-> failures, opened |-> @.opened \/ opens,
                      age |-> IF opens THEN 0 ELSE @.age]]
    /\ outage' = [outage EXCEPT ![p] = @ + 1]
    /\ Goto(c, "idle")
    /\ UNCHANGED <<memory, running, hand, store, stops>>

(* The lookup raises, which a provider must not and a plugin may: the      *)
(* exception leaves query_provider, and the breaker never hears of it.     *)
Raise(c) ==
    /\ pc[c] = "calling"
    /\ Serve(c)
    /\ UNCHANGED <<memory, breaker, running, store, outage, stops>>

(* cache.set, memory first.                                                *)
CacheAnswer(c) ==
    /\ pc[c] = "cache"
    /\ memory' = [memory EXCEPT ![home[c]] = [age |-> 0, data |-> hand[c]]]
    /\ Goto(c, "select")
    /\ UNCHANGED <<breaker, running, hand, store, outage, stops>>

DurableSelect(c) ==
    /\ pc[c] = "select"
    /\ \/ /\ Goto(c, "write")
          /\ loaded' = IF row.present THEN loaded \cup {c} ELSE loaded \ {c}
          /\ same' = IF row.present THEN same \cup {c} ELSE same \ {c}
          /\ UNCHANGED hand
       \/ Serve(c) /\ UNCHANGED <<loaded, same>>  \* the database fails
    /\ UNCHANGED <<memory, breaker, running, row, outage, stops>>

(* UPDATE of the row found, or INSERT: either is lost, and its error       *)
(* swallowed, when the row was deleted or inserted meanwhile.              *)
DurableWrite(c) ==
    /\ pc[c] = "write"
    /\ row' = IF (c \in loaded /\ c \in same) \/ (c \notin loaded /\ ~row.present)
              THEN [present |-> TRUE, age |-> 0, data |-> hand[c]]
              ELSE row
    /\ loaded' = loaded \ {c} /\ same' = same \ {c}
    /\ Serve(c)
    /\ UNCHANGED <<memory, breaker, running, outage, stops>>

(* The memory tier is full of other addresses, and this one is the oldest. *)
Evict(p) ==
    /\ memory' = [memory EXCEPT ![p] = NoEntry]
    /\ UNCHANGED <<breaker, running, pc, hand, store, outage, stops>>

(* RetentionService._prune_expired_cache.                                  *)
PruneExpired ==
    /\ row.present /\ row.age >= TTL
    /\ row' = NoRow
    /\ same' = {}
    /\ UNCHANGED <<memory, breaker, running, pc, hand, loaded, outage, stops>>

(* ThreatIntelService._do_stop and _do_start; a lookup under way goes on.  *)
Stop(p) ==
    /\ p \in running /\ stops < MaxStops
    /\ running' = running \ {p}
    /\ stops' = stops + 1
    /\ memory' = [memory EXCEPT ![p] = NoEntry]
    /\ UNCHANGED <<breaker, pc, hand, store, outage>>

Start(p) ==
    /\ p \notin running
    /\ running' = running \cup {p}
    /\ breaker' = [breaker EXCEPT ![p] = Closed]
    /\ outage' = [outage EXCEPT ![p] = 0]
    /\ UNCHANGED <<memory, pc, hand, store, stops>>

Answer(c) == Succeed(c) \/ Fail(c) \/ Raise(c)

Query(c) ==
    \/ DurableGet(c) \/ Purge(c) \/ Promote(c) \/ Breaker(c) \/ Answer(c)
    \/ CacheAnswer(c) \/ DurableSelect(c) \/ DurableWrite(c)

Next ==
    /\ \/ Tick \/ PruneExpired
       \/ \E c \in Callers : MemoryGet(c) \/ Query(c)
       \/ \E p \in Procs : Evict(p) \/ Stop(p) \/ Start(p)
    /\ UNCHANGED home

Spec == Init /\ [][Next]_vars

----------------------------------------------------------------------------
TypeOK ==
    /\ home \in [Callers -> Procs]
    /\ memory \in [Procs -> [age : 0 .. TTL, data : Ages]]
    /\ row \in [present : BOOLEAN, age : 0 .. TTL, data : Ages]
    /\ breaker \in [Procs -> [failures : 0 .. Threshold, opened : BOOLEAN,
                              age : 0 .. Cooldown]]
    /\ running \subseteq Procs
    /\ pc \in [Callers -> Labels]
    /\ hand \in [Callers -> Ages]
    /\ loaded \subseteq Callers /\ same \subseteq Callers
    /\ outage \in [Procs -> Nat]
    /\ stops \in 0 .. MaxStops

(* Whatever the processes promote and overwrite, no caller is handed an    *)
(* answer two TTLs after the provider gave it: a promotion renews an entry *)
(* once, it never feeds the durable tier (TieredThreatIntelCache.get).     *)
BoundedStaleness ==
    /\ \A p \in Procs : memory[p].age < TTL => memory[p].data < 2 * TTL
    /\ \A c \in Callers : pc[c] = "promote" => hand[c] < TTL

(* A provider that is down costs each process at most a threshold of calls *)
(* and those already under way when the circuit opened, until the cooldown *)
(* elapses: the outage becomes "an immediate skip".  A call that raised is *)
(* not among the failures counted here, nor in the breaker.                *)
OutageBounded ==
    \A p \in Procs : outage[p] < Threshold + Cardinality(ThreadsOf(p))

(* No circuit stays open: the calls under way when it opened can push the  *)
(* cooldown back, the refused ones cannot.                                 *)
CircuitRecovers == \A p \in Procs : []<>(State(breaker[p]) # "open")
=============================================================================
