---------------------- MODULE NativeCompileCacheProofs ----------------------
(***************************************************************************)
(* Proofs about NativeCompileCache for every number of threads and keys    *)
(* and every bound, compilations that panic included.                      *)
(*                                                                         *)
(* SingleFlight is not inductive: the invariant adds that the owner of a   *)
(* flight is the thread in_flight names for its key.  The counters of the  *)
(* limiter are counted by one argument: a step leaves the set a counter    *)
(* stands for and the counter alone, or adds one thread and one to it, or  *)
(* removes one thread and takes one from it.                               *)
(***************************************************************************)
EXTENDS NativeCompileCache, RecencyLists, FiniteSetTheorems

FgQueue == In("queued") \ Background
BgQueue == In("queued") \cap Background

\* The owner of a flight is the one in_flight names.
FlightOwner == \A t \in Threads : Owns(t) => key[t] \in Keys /\ inFlight[key[t]] = t

\* The part of the type invariant that concerns threads and keys.
CallTypes ==
  /\ pc \in [Threads -> States]
  /\ key \in [Threads -> Keys \cup {None}]
  /\ outcome \in [Threads -> Outcomes \cup {None}]
  /\ joined \in [Threads -> Threads \cup {None}]
  /\ inFlight \in [Keys -> Threads \cup {None}]
  /\ entries \subseteq Keys
  /\ failed \subseteq Keys

\* The recency list and the entries, as an induction needs them.
Recency ==
  /\ lru \in Seq(Keys)
  /\ Distinct(lru)
  /\ ToSet(lru) = entries
  /\ IsFiniteSet(entries)
  /\ Len(lru) = Cardinality(entries)
  /\ Len(lru) <= Capacity

Flights == CallTypes /\ FlightOwner /\ OneStatusPerKey

LimiterTypes ==
  /\ active \in 0 .. MaxParallel
  /\ fgQueued \in Nat
  /\ bgQueued \in Nat
  /\ notified \subseteq In("queued")

Limiter ==
  /\ LimiterTypes
  /\ PermitsMatchCompilers
  /\ QueueCountersMatch
  /\ WakeupPending

\* One step of a counter n of the threads in S.
Counts(S, S2, n, n2) ==
  \/ S2 = S /\ n2 = n
  \/ \E t \in Threads : t \notin S /\ S2 = S \cup {t} /\ n2 = n + 1
  \/ \E t \in Threads : t \in S /\ S2 = S \ {t} /\ n2 = n - 1
-----------------------------------------------------------------------------
\* A step that counts keeps the counter equal to the size of its set.
LEMMA CountsKept ==
  ASSUME NEW S \in SUBSET Threads, NEW S2, NEW n \in Int, NEW n2,
         n = Cardinality(S), Counts(S, S2, n, n2)
  PROVE  n2 = Cardinality(S2) /\ n2 \in Nat
<1>1. IsFiniteSet(S)
  BY ThreadsAreFinite, FS_Subset
<1>2. Cardinality(S) \in Nat
  BY <1>1, FS_CardinalityType
<1>3. CASE S2 = S /\ n2 = n
  BY <1>2, <1>3
<1>4. ASSUME NEW t \in Threads, t \notin S, S2 = S \cup {t}, n2 = n + 1
      PROVE  n2 = Cardinality(S2) /\ n2 \in Nat
  <2>1. Cardinality(S2) = Cardinality(S) + 1
    BY <1>1, <1>4, FS_AddElement
  <2> QED
    BY <2>1, <1>2, <1>4
<1>5. ASSUME NEW t \in Threads, t \in S, S2 = S \ {t}, n2 = n - 1
      PROVE  n2 = Cardinality(S2) /\ n2 \in Nat
  <2>1. Cardinality(S2) = Cardinality(S) - 1 /\ IsFiniteSet(S2)
    BY <1>1, <1>5, FS_RemoveElement
  <2>2. Cardinality(S2) \in Nat
    BY <2>1, FS_CardinalityType
  <2> QED
    BY <2>1, <2>2, <1>2, <1>5
<1> QED
  BY <1>3, <1>4, <1>5 DEF Counts

\* The threads that sleep or compile, when one thread moves.
LEMMA OneMoves ==
  ASSUME pc \in [Threads -> States], NEW t \in Threads, NEW to,
         pc' = [pc EXCEPT ![t] = to]
  PROVE  /\ In("queued")' = IF to = "queued" THEN In("queued") \cup {t} ELSE In("queued") \ {t}
         /\ In("compiling")' = IF to = "compiling" THEN In("compiling") \cup {t}
                                                   ELSE In("compiling") \ {t}
  BY DEF In

\* The threads in a state are threads.
LEMMA InSubset == \A s : In(s) \in SUBSET Threads
  BY DEF In

\* Counting the sleepers and the compilers.
LEMMA LimiterCounts ==
  ASSUME Limiter,
         Counts(FgQueue, FgQueue', fgQueued, fgQueued'),
         Counts(BgQueue, BgQueue', bgQueued, bgQueued'),
         Counts(In("compiling"), In("compiling")', active, active'),
         fgQueued' + bgQueued' <= MaxQueue
  PROVE  /\ PermitsMatchCompilers'
         /\ QueueCountersMatch'
         /\ active' \in Nat /\ fgQueued' \in Nat /\ bgQueued' \in Nat
<1>1. /\ active \in Int /\ fgQueued \in Int /\ bgQueued \in Int
      /\ FgQueue \in SUBSET Threads /\ BgQueue \in SUBSET Threads
      /\ In("compiling") \in SUBSET Threads
  BY BoundsPositive, InSubset DEF Limiter, LimiterTypes, FgQueue, BgQueue
<1>2. /\ fgQueued = Cardinality(FgQueue)
      /\ bgQueued = Cardinality(BgQueue)
      /\ active = Cardinality(In("compiling"))
  BY DEF Limiter, QueueCountersMatch, PermitsMatchCompilers, FgQueue, BgQueue
<1>3. fgQueued' = Cardinality(FgQueue') /\ fgQueued' \in Nat
  BY <1>1, <1>2, CountsKept
<1>4. bgQueued' = Cardinality(BgQueue') /\ bgQueued' \in Nat
  BY <1>1, <1>2, CountsKept
<1>5. active' = Cardinality(In("compiling")') /\ active' \in Nat
  BY <1>1, <1>2, CountsKept
<1> QED
  BY <1>3, <1>4, <1>5 DEF PermitsMatchCompilers, QueueCountersMatch, FgQueue, BgQueue

\* When nothing compiles and a foreground thread sleeps, one has been woken.
LEMMA ForegroundAwake ==
  ASSUME Limiter, ~(active > 0), fgQueued > 0
  PROVE  \E g \in notified : g \notin Background
<1>1. FgQueue # {}
  <2>1. fgQueued = Cardinality(FgQueue) /\ fgQueued \in Nat
    BY DEF Limiter, LimiterTypes, QueueCountersMatch, FgQueue
  <2>2. Cardinality({}) = 0
    BY FS_EmptySet
  <2> QED
    BY <2>1, <2>2
<1>2. PICK f \in In("queued") : f \notin Background
  BY <1>1 DEF FgQueue
<1>3. CASE f \in notified
  BY <1>2, <1>3
<1>4. CASE f \notin notified
  BY <1>2, <1>4 DEF Limiter, WakeupPending
<1> QED
  BY <1>3, <1>4
-----------------------------------------------------------------------------
(***************************************************************************)
(* The limiter.                                                            *)
(***************************************************************************)
\* Initially nobody sleeps or compiles.
LEMMA LimiterInit == Init => Limiter
<1> SUFFICES ASSUME Init PROVE Limiter
  OBVIOUS
<1>1. In("compiling") = {} /\ In("queued") = {}
  BY DEF Init, In
<1>2. In("queued") \ Background = {} /\ In("queued") \cap Background = {}
  BY <1>1
<1>3. Cardinality({}) = 0
  BY FS_EmptySet
<1>4. PermitsMatchCompilers /\ QueueCountersMatch
  <2>1. active = 0 /\ fgQueued = 0 /\ bgQueued = 0 /\ 0 + 0 <= MaxQueue
    BY BoundsPositive DEF Init
  <2> QED
    BY <1>1, <1>2, <1>3, <2>1, Zenon DEF PermitsMatchCompilers, QueueCountersMatch
<1>5. LimiterTypes /\ WakeupPending
  BY <1>1, BoundsPositive DEF Init, LimiterTypes, WakeupPending
<1> QED
  BY <1>4, <1>5 DEF Limiter

\* A step that concerns neither the queue nor a permit.
LEMMA LimiterIdle ==
  ASSUME Limiter, UNCHANGED limiterVars,
         In("queued")' = In("queued"), In("compiling")' = In("compiling")
  PROVE  Limiter'
  BY Zenon DEF Limiter, LimiterTypes, PermitsMatchCompilers, QueueCountersMatch, WakeupPending,
         limiterVars

\* A thread enters the queue.
LEMMA Enters ==
  ASSUME pc \in [Threads -> States], Limiter, NEW t \in Threads, Enqueue(t)
  PROVE  Limiter'
<1>1. /\ active \in Int /\ fgQueued \in Int /\ bgQueued \in Int
      /\ MaxParallel \in Int /\ MaxParallel > 0 /\ MaxQueue \in Int
  BY BoundsPositive DEF Limiter, LimiterTypes
<1>2. pc' = [pc EXCEPT ![t] = "queued"]
  BY DEF Enqueue
<1>3. t \notin In("queued") /\ t \notin In("compiling")
  BY DEF Enqueue, In
<1>4. In("queued")' = In("queued") \cup {t} /\ In("compiling")' = In("compiling")
  <2>1. In("compiling")' = In("compiling") \ {t} /\ In("queued")' = In("queued") \cup {t}
    BY <1>2, OneMoves, Zenon
  <2> QED
    BY <1>3, <2>1
<1>5. Counts(FgQueue, FgQueue', fgQueued, fgQueued')
  BY <1>3, <1>4 DEF Enqueue, Counts, FgQueue
<1>6. Counts(BgQueue, BgQueue', bgQueued, bgQueued')
  BY <1>3, <1>4 DEF Enqueue, Counts, BgQueue
<1>7. Counts(In("compiling"), In("compiling")', active, active')
  BY <1>4 DEF Enqueue, Counts
<1>8. fgQueued' + bgQueued' <= MaxQueue
  BY <1>1 DEF Enqueue
<1>9. /\ PermitsMatchCompilers' /\ QueueCountersMatch'
      /\ fgQueued' \in Nat /\ bgQueued' \in Nat
  BY <1>5, <1>6, <1>7, <1>8, LimiterCounts
<1>10. WakeupPending'
  <2>1. active > 0 \/ (t \in Background /\ fgQueued > 0)
    BY <1>1 DEF Enqueue, MustWait
  <2>2. CASE active > 0
    BY <2>2 DEF Enqueue, WakeupPending
  <2>3. CASE ~(active > 0) /\ t \in Background /\ fgQueued > 0
    <3>1. PICK g \in notified : g \notin Background
      BY <2>3, ForegroundAwake
    <3> QED
      BY <3>1 DEF Enqueue, WakeupPending
  <2> QED
    BY <2>1, <2>2, <2>3
<1>11. LimiterTypes'
  BY <1>4, <1>9 DEF Limiter, LimiterTypes, Enqueue
<1> QED
  BY <1>9, <1>10, <1>11 DEF Limiter

\* A sleeper that must wait goes back to sleep.
LEMMA Resleeps ==
  ASSUME Limiter, NEW t \in Threads, SleepAgain(t)
  PROVE  Limiter'
<1>1. active \in Int /\ MaxParallel \in Int /\ MaxParallel > 0
  BY BoundsPositive DEF Limiter, LimiterTypes
<1>2. In("queued")' = In("queued") /\ In("compiling")' = In("compiling")
  BY DEF SleepAgain, In
<1>3. WakeupPending'
  <2>1. active > 0 \/ (t \in Background /\ fgQueued > 0)
    BY <1>1 DEF SleepAgain, MustWait
  <2>2. CASE active > 0
    BY <2>2 DEF SleepAgain, WakeupPending
  <2>3. CASE ~(active > 0) /\ t \in Background /\ fgQueued > 0
    <3>1. PICK g \in notified : g \notin Background
      BY <2>3, ForegroundAwake
    <3>2. g \in notified' \ Background
      BY <3>1, <2>3 DEF SleepAgain
    <3> QED
      BY <3>2 DEF WakeupPending
  <2> QED
    BY <2>1, <2>2, <2>3
<1>4. LimiterTypes'
  BY <1>2 DEF Limiter, LimiterTypes, SleepAgain
<1> QED
  BY <1>2, <1>3, <1>4
  DEF Limiter, SleepAgain, PermitsMatchCompilers, QueueCountersMatch

\* A thread takes a slot, from the queue or at once.
LEMMA TakesSlot ==
  ASSUME pc \in [Threads -> States], Limiter, NEW t \in Threads,
         LeaveQueue(t) \/ AcquireAtOnce(t)
  PROVE  Limiter'
<1>1. /\ active \in Int /\ active >= 0 /\ fgQueued \in Int /\ bgQueued \in Int
      /\ MaxParallel \in Int /\ MaxQueue \in Int
  BY BoundsPositive DEF Limiter, LimiterTypes
<1>2. /\ pc' = [pc EXCEPT ![t] = "compiling"]
      /\ active' = active + 1
      /\ active < MaxParallel
  BY <1>1 DEF LeaveQueue, AcquireAtOnce, MustWait
<1>3. t \notin In("compiling")
  BY DEF LeaveQueue, AcquireAtOnce, In
<1>4. In("queued")' = In("queued") \ {t} /\ In("compiling")' = In("compiling") \cup {t}
  BY <1>2, OneMoves, Zenon
<1>5. Counts(In("compiling"), In("compiling")', active, active')
  BY <1>2, <1>3, <1>4 DEF Counts
<1>6. /\ Counts(FgQueue, FgQueue', fgQueued, fgQueued')
      /\ Counts(BgQueue, BgQueue', bgQueued, bgQueued')
      /\ fgQueued' + bgQueued' <= MaxQueue
  <2>1. fgQueued + bgQueued <= MaxQueue
    BY DEF Limiter, QueueCountersMatch
  <2>2. CASE LeaveQueue(t)
    <3>1. t \in In("queued")
      BY <2>2 DEF LeaveQueue, In
    <3>2. CASE t \in Background
      <4>1. bgQueued' = bgQueued - 1 /\ fgQueued' = fgQueued
        BY <2>2, <3>2 DEF LeaveQueue
      <4>2. FgQueue' = FgQueue /\ BgQueue' = BgQueue \ {t} /\ t \in BgQueue
        BY <1>4, <3>1, <3>2 DEF FgQueue, BgQueue
      <4> QED
        BY <1>1, <2>1, <4>1, <4>2 DEF Counts
    <3>3. CASE t \notin Background
      <4>1. fgQueued' = fgQueued - 1 /\ bgQueued' = bgQueued
        BY <2>2, <3>3 DEF LeaveQueue
      <4>2. BgQueue' = BgQueue /\ FgQueue' = FgQueue \ {t} /\ t \in FgQueue
        BY <1>4, <3>1, <3>3 DEF FgQueue, BgQueue
      <4> QED
        BY <1>1, <2>1, <4>1, <4>2 DEF Counts
    <3> QED
      BY <3>2, <3>3
  <2>3. CASE AcquireAtOnce(t)
    <3>1. In("queued")' = In("queued")
      BY <2>3, <1>4 DEF AcquireAtOnce, In
    <3> QED
      BY <2>1, <2>3, <3>1 DEF AcquireAtOnce, Counts, FgQueue, BgQueue
  <2> QED
    BY <2>2, <2>3
<1>7. /\ PermitsMatchCompilers' /\ QueueCountersMatch'
      /\ fgQueued' \in Nat /\ bgQueued' \in Nat
  BY <1>5, <1>6, LimiterCounts
<1>8. notified' \subseteq In("queued")'
  <2>1. notified \subseteq In("queued")
    BY DEF Limiter, LimiterTypes
  <2>2. CASE LeaveQueue(t)
    BY <2>1, <2>2, <1>4 DEF LeaveQueue
  <2>3. CASE AcquireAtOnce(t)
    <3>1. t \notin In("queued") /\ notified' = notified
      BY <2>3 DEF AcquireAtOnce, In
    <3> QED
      BY <2>1, <3>1, <1>4
  <2> QED
    BY <2>2, <2>3
<1>9. active' > 0 /\ active' \in 0 .. MaxParallel
  BY <1>1, <1>2
<1> QED
  BY <1>7, <1>8, <1>9 DEF Limiter, LimiterTypes, WakeupPending

\* A compilation ends, by returning or by a panic, and drops its permit.
LEMMA DropsPermit ==
  ASSUME pc \in [Threads -> States], Limiter, NEW t \in Threads, pc[t] = "compiling",
         NEW to \in {"record", "idle"}, pc' = [pc EXCEPT ![t] = to],
         active' = active - 1, notified' = In("queued"), UNCHANGED <<fgQueued, bgQueued>>
  PROVE  Limiter'
<1>1. t \in In("compiling") /\ t \notin In("queued")
  BY DEF In
<1>2. In("queued")' = In("queued") /\ In("compiling")' = In("compiling") \ {t}
  <2>1. to # "queued" /\ to # "compiling"
    OBVIOUS
  <2>2. In("queued")' = In("queued") \ {t} /\ In("compiling")' = In("compiling") \ {t}
    BY <2>1, OneMoves, Zenon
  <2> QED
    BY <1>1, <2>2
<1>3. Counts(In("compiling"), In("compiling")', active, active')
  BY <1>1, <1>2 DEF Counts
<1>4. /\ Counts(FgQueue, FgQueue', fgQueued, fgQueued')
      /\ Counts(BgQueue, BgQueue', bgQueued, bgQueued')
  BY <1>2 DEF Counts, FgQueue, BgQueue
<1>5. fgQueued' + bgQueued' <= MaxQueue
  BY DEF Limiter, QueueCountersMatch
<1>6. PermitsMatchCompilers' /\ QueueCountersMatch' /\ active' \in Nat
  BY <1>3, <1>4, <1>5, LimiterCounts
<1>7. active' \in 0 .. MaxParallel
  BY <1>6, BoundsPositive DEF Limiter, LimiterTypes
<1> QED
  BY <1>2, <1>6, <1>7 DEF Limiter, LimiterTypes, WakeupPending

\* Every step of every thread keeps the limiter's invariant.
LEMMA LimiterStep ==
  ASSUME pc \in [Threads -> States], Limiter, [Next]_vars
  PROVE  Limiter'
<1>1. ASSUME NEW t \in Threads, NEW k \in Keys,
             Hit(t, k) \/ KnownFailure(t, k) \/ Join(t, k) \/ BeginFlight(t, k)
      PROVE  Limiter'
  <2>1. In("queued")' = In("queued") /\ In("compiling")' = In("compiling")
    BY <1>1 DEF In, Hit, KnownFailure, Join, BeginFlight, vars
  <2>2. UNCHANGED limiterVars
    BY <1>1 DEF Hit, KnownFailure, Join, BeginFlight, vars
  <2> QED
    BY <2>1, <2>2, LimiterIdle
<1>2. ASSUME NEW t \in Threads, QueueFull(t) \/ Record(t)
      PROVE  Limiter'
  <2>1. In("queued")' = In("queued") /\ In("compiling")' = In("compiling")
    BY <1>2 DEF In, QueueFull, Record
  <2>2. UNCHANGED limiterVars
    BY <1>2 DEF QueueFull, Record
  <2> QED
    BY <2>1, <2>2, LimiterIdle
<1>3. ASSUME NEW t \in Threads, Publish(t)
      PROVE  Limiter'
  <2>1. In("queued")' = In("queued") /\ In("compiling")' = In("compiling")
    BY <1>3 DEF In, Publish
  <2>2. UNCHANGED limiterVars
    BY <1>3 DEF Publish
  <2> QED
    BY <2>1, <2>2, LimiterIdle
<1>4. ASSUME NEW t \in Threads, NEW r \in Outcomes, CompileEnds(t, r)
      PROVE  Limiter'
  BY <1>4, DropsPermit, Zenon DEF CompileEnds
<1>5. ASSUME NEW t \in Threads, CompilePanics(t)
      PROVE  Limiter'
  BY <1>5, DropsPermit, Zenon DEF CompilePanics
<1>6. CASE UNCHANGED vars
  BY <1>6, LimiterIdle DEF vars, limiterVars, In
<1> QED
  BY <1>1, <1>2, <1>3, <1>4, <1>5, <1>6, Enters, Resleeps, TakesSlot
  DEF Next, Lookup, OwnerStep
-----------------------------------------------------------------------------
(***************************************************************************)
(* Flights, entries and failures.                                          *)
(***************************************************************************)
\* Initially there is no flight, no entry and no failure.
LEMMA FlightsInit == Init => Flights /\ Recency
<1> SUFFICES ASSUME Init PROVE Flights /\ Recency
  OBVIOUS
<1>1. Flights
  BY DEF Init, Flights, CallTypes, FlightOwner, OneStatusPerKey, Owns, States, None
<1>2. lru \in Seq(Keys) /\ Len(lru) = 0 /\ lru = <<>> /\ entries = {}
  BY EmptySeq DEF Init
<1>3. Distinct(lru) /\ ToSet(lru) = entries
  BY <1>2 DEF Distinct, ToSet
<1>4. IsFiniteSet(entries) /\ Cardinality(entries) = 0
  BY <1>2, FS_EmptySet
<1> QED
  BY <1>1, <1>2, <1>3, <1>4, BoundsPositive DEF Recency

\* A call that misses owns the flight it begins.
LEMMA Begins ==
  ASSUME Flights, NEW t \in Threads, NEW k \in Keys, BeginFlight(t, k)
  PROVE  Flights'
<1>1. CallTypes'
  BY DEF Flights, CallTypes, BeginFlight, States
<1>2. FlightOwner'
  <2> SUFFICES ASSUME NEW s \in Threads, Owns(s)'
               PROVE  key'[s] \in Keys /\ inFlight'[key'[s]] = s
    BY DEF FlightOwner
  <2>1. CASE s = t
    BY <2>1 DEF Flights, CallTypes, BeginFlight
  <2>2. CASE s # t
    <3>1. Owns(s) /\ key'[s] = key[s]
      BY <2>2 DEF Flights, CallTypes, BeginFlight, Owns
    <3>2. key[s] \in Keys /\ inFlight[key[s]] = s
      BY <3>1 DEF Flights, FlightOwner
    <3>3. key[s] # k
      BY <3>2, ThreadsAreFinite DEF BeginFlight, None
    <3> QED
      BY <3>1, <3>2, <3>3 DEF Flights, CallTypes, BeginFlight
  <2> QED
    BY <2>1, <2>2
<1>3. OneStatusPerKey'
  BY DEF Flights, CallTypes, OneStatusPerKey, BeginFlight
<1> QED
  BY <1>1, <1>2, <1>3 DEF Flights

\* A step inside a flight, or of a waiter, that leaves the cache alone.
LEMMA FlightMoves ==
  ASSUME Flights, CallTypes', UNCHANGED <<inFlight, entries, failed>>,
         \A s \in Threads : Owns(s)' => Owns(s) /\ key'[s] = key[s]
  PROVE  Flights'
<1>1. FlightOwner'
  BY DEF Flights, FlightOwner
<1>2. OneStatusPerKey'
  BY DEF Flights, OneStatusPerKey
<1> QED
  BY <1>1, <1>2 DEF Flights

\* The owner records its result: its key leaves in_flight, and is then cached
\* or failed but not both.
LEMMA Records ==
  ASSUME Flights, Recency, NEW t \in Threads, Record(t)
  PROVE  Flights' /\ Recency'
<1> DEFINE k == key[t]
           full == entries \cup {k}
           q == TouchLru(lru, k)
<1>1. k \in Keys /\ inFlight[k] = t /\ inFlight[k] # None
  BY ThreadsAreFinite DEF Flights, FlightOwner, Record, Owns, None
<1>2. k \notin entries /\ k \notin failed
  BY <1>1 DEF Flights, OneStatusPerKey
<1>3. entries' \subseteq full /\ (outcome[t] # "ok" => entries' = entries)
  BY DEF Record
<1>4. failed' \subseteq failed \cup {k} /\ (outcome[t] = "ok" => failed' = failed)
  BY DEF Record
<1>5. CallTypes'
  BY <1>1, <1>3, <1>4 DEF Flights, CallTypes, Record, States
<1>6. FlightOwner'
  <2> SUFFICES ASSUME NEW s \in Threads, Owns(s)'
               PROVE  key'[s] \in Keys /\ inFlight'[key'[s]] = s
    BY DEF FlightOwner
  <2>1. s # t /\ Owns(s) /\ key'[s] = key[s]
    BY DEF Flights, CallTypes, Record, Owns
  <2>2. key[s] \in Keys /\ inFlight[key[s]] = s
    BY <2>1 DEF Flights, FlightOwner
  <2>3. key[s] # k
    BY <1>1, <2>1, <2>2
  <2> QED
    BY <2>1, <2>2, <2>3 DEF Flights, CallTypes, Record
<1>7. OneStatusPerKey'
  <2>1. entries' \cap failed' = {}
    BY <1>2, <1>3, <1>4 DEF Flights, OneStatusPerKey
  <2>2. ASSUME NEW j \in Keys, inFlight'[j] # None
        PROVE  j \notin entries' \cup failed'
    <3>1. j # k /\ inFlight[j] # None
      BY <1>1, <2>2 DEF Flights, CallTypes, Record
    <3>2. j \notin entries \cup failed
      BY <3>1 DEF Flights, OneStatusPerKey
    <3> QED
      BY <1>3, <1>4, <3>1, <3>2
  <2> QED
    BY <2>1, <2>2 DEF OneStatusPerKey
<1>8. Recency'
  <2>1. CASE outcome[t] # "ok"
    BY <2>1 DEF Record, Recency
  <2>2. CASE outcome[t] = "ok"
    <3>1. /\ q \in Seq(Keys) /\ Len(q) = Len(lru) + 1 /\ Distinct(q)
          /\ ToSet(q) = full
      BY <1>1, <1>2, TouchUnlisted DEF Recency, TouchLru
    <3>2. IsFiniteSet(full) /\ Cardinality(full) = Cardinality(entries) + 1
      BY <1>2, FS_AddElement DEF Recency
    <3>3. Len(lru) \in Nat /\ Len(lru) = Cardinality(entries) /\ Len(lru) <= Capacity
          /\ Capacity \in Nat
      BY LenProperties, BoundsPositive DEF Recency
    <3>4. Len(q) = Cardinality(full) /\ Cardinality(full) \in Nat
      BY <3>1, <3>2, <3>3
    <3>5. CASE Cardinality(full) > Capacity
      <4>1. lru' = Tail(q) /\ entries' = full \ {Head(q)}
        BY <2>2, <3>5 DEF Record
      <4>2. q # <<>>
        BY <3>1, <3>3, EmptySeq
      <4>3. /\ lru' \in Seq(Keys) /\ Len(lru') = Len(q) - 1 /\ Distinct(lru')
            /\ Head(q) \in full /\ ToSet(lru') = entries'
        BY <3>1, <4>1, <4>2, EvictFront
      <4>4. IsFiniteSet(entries') /\ Cardinality(entries') = Cardinality(full) - 1
        <5>1. /\ IsFiniteSet(full \ {Head(q)})
              /\ Cardinality(full \ {Head(q)}) =
                   IF Head(q) \in full THEN Cardinality(full) - 1 ELSE Cardinality(full)
          BY <3>2, FS_RemoveElement
        <5> QED
          BY <4>1, <4>3, <5>1
      <4>5. Len(lru') = Cardinality(entries') /\ Len(lru') <= Capacity
        BY <3>2, <3>3, <3>4, <4>3, <4>4
      <4> QED
        BY <4>3, <4>4, <4>5 DEF Recency
    <3>6. CASE ~(Cardinality(full) > Capacity)
      <4>1. lru' = q /\ entries' = full
        BY <2>2, <3>6 DEF Record
      <4>2. Len(q) <= Capacity
        BY <3>3, <3>4, <3>6
      <4> QED
        BY <3>1, <3>2, <3>4, <4>1, <4>2 DEF Recency
    <3> QED
      BY <3>5, <3>6
  <2> QED
    BY <2>1, <2>2
<1> QED
  BY <1>5, <1>6, <1>7, <1>8 DEF Flights

\* Every step of every thread keeps flights and recency.
LEMMA FlightsStep ==
  ASSUME Flights, Recency, [Next]_vars
  PROVE  Flights' /\ Recency'
<1>0. CallTypes
  BY DEF Flights
<1>1. ASSUME NEW t \in Threads, NEW k \in Keys, Hit(t, k)
      PROVE  Flights' /\ Recency'
  <2>1. Flights'
    BY <1>0, <1>1, FlightMoves DEF Hit, CallTypes, Owns
  <2>2. k \in ToSet(lru)
    BY <1>1 DEF Hit, Recency
  <2>3. /\ lru' \in Seq(Keys) /\ Len(lru') = Len(lru) /\ Distinct(lru')
        /\ ToSet(lru') = ToSet(lru) /\ entries' = entries
    BY <1>1, <2>2, TouchListed DEF Hit, Recency, TouchLru
  <2> QED
    BY <2>1, <2>3 DEF Recency
<1>2. ASSUME NEW t \in Threads, NEW k \in Keys, Join(t, k)
      PROVE  Flights' /\ Recency'
  <2>1. CallTypes'
    BY <1>0, <1>2 DEF Join, CallTypes, States, cacheVars
  <2>2. \A s \in Threads : Owns(s)' => Owns(s) /\ key'[s] = key[s]
    BY <1>0, <1>2 DEF Join, CallTypes, Owns
  <2> QED
    BY <1>2, <2>1, <2>2, FlightMoves DEF Join, cacheVars, Recency
<1>3. ASSUME NEW t \in Threads, NEW k \in Keys, BeginFlight(t, k)
      PROVE  Flights' /\ Recency'
  BY <1>3, Begins, Zenon DEF BeginFlight, Recency
<1>4. ASSUME NEW t \in Threads,
             \/ AcquireAtOnce(t) \/ QueueFull(t) \/ Enqueue(t) \/ SleepAgain(t)
             \/ LeaveQueue(t) \/ CompilePanics(t)
      PROVE  Flights' /\ Recency'
  <2>1. CallTypes'
    BY <1>0, <1>4 DEF AcquireAtOnce, QueueFull, Enqueue, SleepAgain, LeaveQueue, CompilePanics,
                      CallTypes, States, Outcomes, cacheVars
  <2>2. \A s \in Threads : Owns(s)' => Owns(s) /\ key'[s] = key[s]
    BY <1>0, <1>4 DEF AcquireAtOnce, QueueFull, Enqueue, SleepAgain, LeaveQueue, CompilePanics,
                      CallTypes, Owns
  <2>3. UNCHANGED cacheVars
    BY <1>4 DEF AcquireAtOnce, QueueFull, Enqueue, SleepAgain, LeaveQueue, CompilePanics
  <2> QED
    BY <2>1, <2>2, <2>3, FlightMoves DEF cacheVars, Recency
<1>5. ASSUME NEW t \in Threads, NEW r \in Outcomes, CompileEnds(t, r)
      PROVE  Flights' /\ Recency'
  <2>1. CallTypes'
    BY <1>0, <1>5 DEF CompileEnds, CallTypes, States, cacheVars
  <2>2. \A s \in Threads : Owns(s)' => Owns(s) /\ key'[s] = key[s]
    BY <1>0, <1>5 DEF CompileEnds, CallTypes, Owns
  <2> QED
    BY <1>5, <2>1, <2>2, FlightMoves DEF CompileEnds, cacheVars, Recency
<1>6. ASSUME NEW t \in Threads, Publish(t)
      PROVE  Flights' /\ Recency'
  <2>1. CallTypes'
    BY <1>0, <1>6 DEF Publish, CallTypes, States, cacheVars
  <2>2. \A s \in Threads : Owns(s)' => Owns(s) /\ key'[s] = key[s]
    BY <1>0, <1>6 DEF Publish, CallTypes, Owns
  <2> QED
    BY <1>6, <2>1, <2>2, FlightMoves DEF Publish, cacheVars, Recency
<1>7. CASE UNCHANGED vars
  BY <1>7 DEF vars, cacheVars, Flights, CallTypes, FlightOwner, OneStatusPerKey, Owns, Recency
<1> QED
  BY <1>1, <1>2, <1>3, <1>4, <1>5, <1>6, <1>7, Records
  DEF Next, Lookup, OwnerStep, KnownFailure
-----------------------------------------------------------------------------
CacheInv == Flights /\ Recency /\ Limiter

\* The inductive invariant of the cache and the limiter.
THEOREM CacheInvariant == Spec => []CacheInv
<1>1. Init => CacheInv
  BY FlightsInit, LimiterInit DEF CacheInv
<1>2. CacheInv /\ [Next]_vars => CacheInv'
  BY FlightsStep, LimiterStep DEF CacheInv, Flights, CallTypes
<1> QED
  BY <1>1, <1>2, PTL DEF Spec

\* Every variable keeps its type, the limiter's counters and their bounds
\* included.
THEOREM CacheTypeCorrect == Spec => []TypeOK
<1>1. CacheInv => TypeOK
  <2> SUFFICES ASSUME CacheInv PROVE TypeOK
    OBVIOUS
  <2>1. fgQueued \in 0 .. MaxQueue /\ bgQueued \in 0 .. MaxQueue
    BY BoundsPositive DEF CacheInv, Limiter, LimiterTypes, QueueCountersMatch
  <2> QED
    BY <2>1 DEF CacheInv, Flights, CallTypes, Recency, Limiter, LimiterTypes, TypeOK
<1> QED
  BY <1>1, CacheInvariant, PTL

\* No two threads ever compile the same key at the same time, whatever the
\* number of threads.
THEOREM FlightsAreSingle == Spec => []SingleFlight
<1>1. CacheInv => SingleFlight
  BY DEF CacheInv, Flights, FlightOwner, SingleFlight
<1> QED
  BY <1>1, CacheInvariant, PTL

\* A key never has two of the states cached, failed and in flight.
THEOREM KeysHaveOneStatus == Spec => []OneStatusPerKey
<1>1. CacheInv => OneStatusPerKey
  BY DEF CacheInv, Flights
<1> QED
  BY <1>1, CacheInvariant, PTL

\* The limiter's active counter is the number of compilations, for every
\* limit and also when compilations panic.
THEOREM CompilePermitsAreConserved == Spec => []PermitsMatchCompilers
<1>1. CacheInv => PermitsMatchCompilers
  BY DEF CacheInv, Limiter
<1> QED
  BY <1>1, CacheInvariant, PTL

\* At most maximum_parallel compilations run in the process.
THEOREM ParallelismIsBounded == Spec => []CompilesBounded
<1>1. CacheInv => CompilesBounded
  BY BoundsPositive DEF CacheInv, Limiter, LimiterTypes, PermitsMatchCompilers, CompilesBounded
<1> QED
  BY <1>1, CacheInvariant, PTL

\* The queue counters match the sleepers and respect the queue limit.
THEOREM QueueIsBounded == Spec => []QueueCountersMatch
<1>1. CacheInv => QueueCountersMatch
  BY DEF CacheInv, Limiter
<1> QED
  BY <1>1, CacheInvariant, PTL

\* No thread sleeps in the limiter without somebody to wake it.
THEOREM NoLostWakeup == Spec => []WakeupPending
<1>1. CacheInv => WakeupPending
  BY DEF CacheInv, Limiter
<1> QED
  BY <1>1, CacheInvariant, PTL

\* The recency list is exactly the cached keys and the cache is bounded.
THEOREM CacheIsBounded == Spec => []LruMatchesEntries
<1>1. CacheInv => LruMatchesEntries
  BY DEF CacheInv, Recency, LruMatchesEntries
<1> QED
  BY <1>1, CacheInvariant, PTL
-----------------------------------------------------------------------------
(***************************************************************************)
(* Foreground before background.                                           *)
(***************************************************************************)
\* Without a foreground place taken, only background threads sleep.
LEMMA NoForegroundSleeps ==
  ASSUME Limiter, ~(fgQueued > 0)
  PROVE  In("queued") \subseteq Background
<1>1. fgQueued = 0 /\ fgQueued = Cardinality(FgQueue)
  BY DEF Limiter, LimiterTypes, QueueCountersMatch, FgQueue
<1>2. IsFiniteSet(FgQueue)
  BY ThreadsAreFinite, InSubset, FS_Subset DEF FgQueue
<1>3. FgQueue = {}
  BY <1>1, <1>2, FS_EmptySet
<1> QED
  BY <1>3 DEF FgQueue

\* A background compilation starts by taking a slot in acquire(), at once or
\* from the queue, and must_wait keeps it from doing so while a foreground
\* thread is queued.
LEMMA BackgroundYields ==
  ASSUME CacheInv, Next, NEW b \in Background,
         pc[b] # "compiling", pc'[b] = "compiling"
  PROVE  In("queued") \subseteq Background
<1>0. CallTypes /\ Limiter /\ b \in Threads
  BY ThreadsAreFinite DEF CacheInv, Flights
<1>1. PICK t \in Threads : Lookup(t) \/ OwnerStep(t) \/ CompilePanics(t)
  BY DEF Next
<1>2. CASE Lookup(t)
  <2>1. pc'[b] = pc[b] \/ pc'[b] \in {"waiting", "limiter"}
    BY <1>0, <1>2 DEF Lookup, Hit, KnownFailure, Join, BeginFlight, vars, CallTypes
  <2> QED
    BY <2>1
<1>3. CASE AcquireAtOnce(t) \/ LeaveQueue(t)
  <2>1. t = b /\ ~MustWait(t)
    BY <1>0, <1>3 DEF AcquireAtOnce, LeaveQueue, CallTypes
  <2> QED
    BY <1>0, <2>1, NoForegroundSleeps DEF MustWait
<1>4. CASE QueueFull(t) \/ Enqueue(t) \/ SleepAgain(t) \/ Record(t) \/ CompilePanics(t)
  <2>1. pc'[b] = pc[b] \/ pc'[b] \in {"record", "queued", "publish", "idle"}
    BY <1>0, <1>4 DEF QueueFull, Enqueue, SleepAgain, Record, CompilePanics, CallTypes
  <2> QED
    BY <2>1
<1>5. ASSUME NEW r \in Outcomes, CompileEnds(t, r)
      PROVE  FALSE
  BY <1>0, <1>5 DEF CompileEnds, CallTypes
<1>6. CASE Publish(t)
  <2>1. pc'[b] = pc[b] \/ pc'[b] = "idle"
    BY <1>0, <1>6 DEF Publish
  <2> QED
    BY <2>1
<1> QED
  BY <1>1, <1>2, <1>3, <1>4, <1>5, <1>6 DEF OwnerStep

\* "foreground misses overtake queued background work", for every number of
\* threads and every limit.
THEOREM BackgroundWaitsItsTurn == Spec => ForegroundFirst
<1>1. ASSUME CacheInv, [Next]_vars
      PROVE  [\A b \in Background :
                pc[b] # "compiling" /\ pc'[b] = "compiling"
                  => In("queued") \subseteq Background]_vars
  BY <1>1, BackgroundYields
<1> QED
  BY <1>1, CacheInvariant, PTL DEF Spec, ForegroundFirst
-----------------------------------------------------------------------------
(***************************************************************************)
(* Waiters, when no compilation panics.  in_flight then names a thread     *)
(* that really owns the flight, which a caller that joins relies on.       *)
(***************************************************************************)
Owners == {"limiter", "queued", "compiling", "record"}

FlightIsOwned ==
  \A k \in Keys : inFlight[k] # None => Owns(inFlight[k]) /\ key[inFlight[k]] = k

JoinedThreads == \A w \in In("waiting") : joined[w] \in Threads

Awaited == FlightIsOwned /\ JoinedThreads /\ WaitersHaveOwner

\* A thread that owns a flight, or has yet to publish one, goes on owning or
\* publishing it.
StaysOwner(t) ==
  Owns(t) \/ pc[t] = "publish" => pc'[t] \in Owners \cup {"publish"} /\ key'[t] = key[t]

\* A step that adds no waiter, ends no flight and lets no owner go.
LEMMA NobodyLeft ==
  ASSUME CallTypes, Awaited, UNCHANGED <<inFlight, joined>>,
         \A t \in Threads : pc'[t] = "waiting" => pc[t] = "waiting" /\ key'[t] = key[t],
         \A t \in Threads : StaysOwner(t),
         \A t \in Threads : Owns(t) => pc'[t] \in Owners
  PROVE  Awaited'
<1>1. FlightIsOwned'
  BY DEF CallTypes, Awaited, FlightIsOwned, StaysOwner, Owns, Owners
<1>2. ASSUME NEW w \in Threads, pc'[w] = "waiting"
      PROVE  /\ joined'[w] \in Threads
             /\ key'[joined'[w]] = key'[w]
             /\ pc'[joined'[w]] \in Owners \/ pc'[joined'[w]] = "publish"
  <2>1. pc[w] = "waiting" /\ key'[w] = key[w] /\ joined'[w] = joined[w]
    BY <1>2
  <2>2. /\ joined[w] \in Threads /\ key[joined[w]] = key[w]
        /\ Owns(joined[w]) \/ pc[joined[w]] = "publish"
    BY <2>1 DEF Awaited, JoinedThreads, WaitersHaveOwner, In
  <2> QED
    BY <2>1, <2>2 DEF StaysOwner, Owns, Owners
<1> QED
  BY <1>1, <1>2 DEF Awaited, JoinedThreads, WaitersHaveOwner, In, Owns, Owners

\* A caller that joins waits for the owner in_flight names.
LEMMA JoinsOwner ==
  ASSUME CallTypes, Awaited, NEW t \in Threads, NEW k \in Keys, Join(t, k)
  PROVE  Awaited'
<1>1. /\ pc[t] = "idle" /\ inFlight[k] # None /\ inFlight[k] \in Threads
      /\ pc' = [pc EXCEPT ![t] = "waiting"] /\ key' = [key EXCEPT ![t] = k]
      /\ joined' = [joined EXCEPT ![t] = inFlight[k]] /\ inFlight' = inFlight
  BY DEF Join, CallTypes, cacheVars
<1>2. Owns(inFlight[k]) /\ key[inFlight[k]] = k
  BY <1>1 DEF Awaited, FlightIsOwned
<1>3. \A s \in Threads : Owns(s) \/ pc[s] = "publish"
        => s # t /\ pc'[s] = pc[s] /\ key'[s] = key[s] /\ (Owns(s) => pc'[s] \in Owners)
  BY <1>1 DEF Owns, Owners, CallTypes
<1>4. FlightIsOwned'
  <2> SUFFICES ASSUME NEW j \in Keys, inFlight[j] # None
               PROVE  pc'[inFlight[j]] \in Owners /\ key'[inFlight[j]] = j
    BY <1>1 DEF FlightIsOwned, Owns, Owners
  <2>1. inFlight[j] \in Threads /\ Owns(inFlight[j]) /\ key[inFlight[j]] = j
    BY DEF Awaited, FlightIsOwned, CallTypes
  <2> QED
    BY <1>3, <2>1 DEF Owns, Owners
<1>5. ASSUME NEW w \in Threads, pc'[w] = "waiting"
      PROVE  /\ joined'[w] \in Threads
             /\ key'[joined'[w]] = key'[w]
             /\ pc'[joined'[w]] \in Owners \/ pc'[joined'[w]] = "publish"
  <2>1. CASE w = t
    BY <1>1, <1>2, <1>3, <2>1 DEF CallTypes, Owns, Owners
  <2>2. CASE w # t
    <3>1. pc[w] = "waiting" /\ key'[w] = key[w] /\ joined'[w] = joined[w]
      BY <1>1, <1>5, <2>2 DEF CallTypes
    <3>2. /\ joined[w] \in Threads /\ key[joined[w]] = key[w]
          /\ Owns(joined[w]) \/ pc[joined[w]] = "publish"
      BY <3>1 DEF Awaited, JoinedThreads, WaitersHaveOwner, In
    <3> QED
      BY <1>3, <3>1, <3>2 DEF Owns, Owners
  <2> QED
    BY <2>1, <2>2
<1> QED
  BY <1>4, <1>5 DEF Awaited, JoinedThreads, WaitersHaveOwner, In, Owns, Owners

\* A new flight has its owner, and nobody waits for a thread that was idle.
LEMMA BeginsOwned ==
  ASSUME CallTypes, Awaited, NEW t \in Threads, NEW k \in Keys, BeginFlight(t, k)
  PROVE  Awaited'
<1>1. /\ pc[t] = "idle" /\ pc' = [pc EXCEPT ![t] = "limiter"]
      /\ key' = [key EXCEPT ![t] = k] /\ inFlight' = [inFlight EXCEPT ![k] = t]
      /\ joined' = joined
  BY DEF BeginFlight
<1>2. \A s \in Threads : Owns(s) \/ pc[s] = "publish"
        => s # t /\ pc'[s] = pc[s] /\ key'[s] = key[s] /\ (Owns(s) => pc'[s] \in Owners)
  BY <1>1 DEF Owns, Owners, CallTypes
<1>3. FlightIsOwned'
  <2> SUFFICES ASSUME NEW j \in Keys, inFlight'[j] # None
               PROVE  pc'[inFlight'[j]] \in Owners /\ key'[inFlight'[j]] = j
    BY DEF FlightIsOwned, Owns, Owners
  <2>1. CASE j = k
    BY <1>1, <2>1 DEF CallTypes, Owns, Owners
  <2>2. CASE j # k
    <3>1. inFlight'[j] = inFlight[j] /\ inFlight[j] \in Threads
      BY <1>1, <2>2 DEF CallTypes
    <3>2. Owns(inFlight[j]) /\ key[inFlight[j]] = j
      BY <3>1 DEF Awaited, FlightIsOwned
    <3> QED
      BY <1>2, <3>1, <3>2 DEF Owns, Owners
  <2> QED
    BY <2>1, <2>2
<1>4. ASSUME NEW w \in Threads, pc'[w] = "waiting"
      PROVE  /\ joined'[w] \in Threads
             /\ key'[joined'[w]] = key'[w]
             /\ pc'[joined'[w]] \in Owners \/ pc'[joined'[w]] = "publish"
  <2>1. pc[w] = "waiting" /\ key'[w] = key[w]
    BY <1>1, <1>4 DEF CallTypes
  <2>2. /\ joined[w] \in Threads /\ key[joined[w]] = key[w]
        /\ Owns(joined[w]) \/ pc[joined[w]] = "publish"
    BY <2>1 DEF Awaited, JoinedThreads, WaitersHaveOwner, In
  <2> QED
    BY <1>1, <1>2, <2>1, <2>2 DEF Owns, Owners
<1> QED
  BY <1>3, <1>4 DEF Awaited, JoinedThreads, WaitersHaveOwner, In, Owns, Owners

\* The owner that records its result still has to publish it.
LEMMA RecordsOwned ==
  ASSUME Flights, Awaited, NEW t \in Threads, Record(t)
  PROVE  Awaited'
<1>0. CallTypes
  BY DEF Flights
<1>1. /\ pc[t] = "record" /\ pc' = [pc EXCEPT ![t] = "publish"]
      /\ inFlight' = [inFlight EXCEPT ![key[t]] = None]
      /\ key' = key /\ joined' = joined
  BY DEF Record
<1>2. key[t] \in Keys
  BY <1>1 DEF Flights, FlightOwner, Owns
<1>3. FlightIsOwned'
  <2> SUFFICES ASSUME NEW j \in Keys, inFlight'[j] # None
               PROVE  pc'[inFlight'[j]] \in Owners /\ key'[inFlight'[j]] = j
    BY DEF FlightIsOwned, Owns, Owners
  <2>1. j # key[t] /\ inFlight'[j] = inFlight[j] /\ inFlight[j] \in Threads
    BY <1>0, <1>1, <1>2 DEF CallTypes
  <2>2. Owns(inFlight[j]) /\ key[inFlight[j]] = j
    BY <2>1 DEF Awaited, FlightIsOwned
  <2>3. inFlight[j] # t
    BY <2>1, <2>2
  <2> QED
    BY <1>0, <1>1, <2>1, <2>2, <2>3 DEF Owns, Owners, CallTypes
<1>4. ASSUME NEW w \in Threads, pc'[w] = "waiting"
      PROVE  /\ joined'[w] \in Threads
             /\ key'[joined'[w]] = key'[w]
             /\ pc'[joined'[w]] \in Owners \/ pc'[joined'[w]] = "publish"
  <2>1. pc[w] = "waiting"
    BY <1>0, <1>1, <1>4 DEF CallTypes
  <2>2. /\ joined[w] \in Threads /\ key[joined[w]] = key[w]
        /\ Owns(joined[w]) \/ pc[joined[w]] = "publish"
    BY <2>1 DEF Awaited, JoinedThreads, WaitersHaveOwner, In
  <2> QED
    BY <1>0, <1>1, <2>2 DEF Owns, Owners, CallTypes
<1> QED
  BY <1>3, <1>4 DEF Awaited, JoinedThreads, WaitersHaveOwner, In, Owns, Owners

\* The owner that publishes takes its waiters along.
LEMMA PublishesAll ==
  ASSUME CallTypes, Awaited, NEW t \in Threads, Publish(t)
  PROVE  Awaited'
<1>1. /\ pc[t] = "publish" /\ inFlight' = inFlight
      /\ pc' = [w \in Threads |->
                  IF \/ w = t
                     \/ pc[w] = "waiting" /\ joined[w] = t /\ key[w] = key[t]
                    THEN "idle" ELSE pc[w]]
      /\ \A w \in Threads : joined'[w] = (IF pc'[w] = "idle" THEN None ELSE joined[w])
      /\ \A w \in Threads : key'[w] = (IF pc'[w] = "idle" THEN None ELSE key[w])
  BY DEF Publish, cacheVars
<1>2. \A s \in Threads \ {t} : Owns(s) \/ pc[s] = "publish"
        => pc'[s] = pc[s] /\ key'[s] = key[s] /\ (Owns(s) => pc'[s] \in Owners)
  BY <1>1 DEF Owns, Owners
<1>3. FlightIsOwned'
  <2> SUFFICES ASSUME NEW j \in Keys, inFlight[j] # None
               PROVE  pc'[inFlight[j]] \in Owners /\ key'[inFlight[j]] = j
    BY <1>1 DEF FlightIsOwned, Owns, Owners
  <2>1. inFlight[j] \in Threads /\ Owns(inFlight[j]) /\ key[inFlight[j]] = j
    BY DEF Awaited, FlightIsOwned, CallTypes
  <2>2. inFlight[j] # t
    BY <1>1, <2>1 DEF Owns
  <2> QED
    BY <1>2, <2>1, <2>2 DEF Owns, Owners
<1>4. ASSUME NEW w \in Threads, pc'[w] = "waiting"
      PROVE  /\ joined'[w] \in Threads
             /\ key'[joined'[w]] = key'[w]
             /\ pc'[joined'[w]] \in Owners \/ pc'[joined'[w]] = "publish"
  <2>1. pc[w] = "waiting" /\ ~(joined[w] = t /\ key[w] = key[t])
    BY <1>1, <1>4
  <2>2. key'[w] = key[w] /\ joined'[w] = joined[w]
    BY <1>1, <1>4
  <2>3. /\ joined[w] \in Threads /\ key[joined[w]] = key[w]
        /\ Owns(joined[w]) \/ pc[joined[w]] = "publish"
    BY <2>1 DEF Awaited, JoinedThreads, WaitersHaveOwner, In
  <2>4. joined[w] # t
    BY <2>1, <2>3
  <2> QED
    BY <1>2, <2>2, <2>3, <2>4 DEF Owns, Owners
<1> QED
  BY <1>3, <1>4 DEF Awaited, JoinedThreads, WaitersHaveOwner, In, Owns, Owners

\* Without panics, every step keeps the waiters' owners.
LEMMA AwaitedStep ==
  ASSUME Flights, Awaited, [QuietNext]_vars
  PROVE  Awaited'
<1>0. CallTypes
  BY DEF Flights
<1>1. ASSUME NEW t \in Threads, NEW k \in Keys, Hit(t, k) \/ KnownFailure(t, k)
      PROVE  Awaited'
  <2>1. UNCHANGED <<pc, key, joined, inFlight>>
    BY <1>1 DEF Hit, KnownFailure, vars, cacheVars
  <2> QED
    BY <1>0, <2>1, NobodyLeft DEF StaysOwner, Owns, Owners
<1>2. ASSUME NEW t \in Threads,
             AcquireAtOnce(t) \/ QueueFull(t) \/ Enqueue(t) \/ SleepAgain(t) \/ LeaveQueue(t)
      PROVE  Awaited'
  <2>1. /\ UNCHANGED <<key, joined, inFlight>> /\ Owns(t)
        /\ pc' = pc \/ \E to \in {"compiling", "record", "queued"} : pc' = [pc EXCEPT ![t] = to]
    BY <1>2 DEF AcquireAtOnce, QueueFull, Enqueue, SleepAgain, LeaveQueue, cacheVars, Owns
  <2> QED
    BY <1>0, <2>1, NobodyLeft DEF StaysOwner, Owns, Owners, CallTypes
<1>3. ASSUME NEW t \in Threads, NEW r \in Outcomes, CompileEnds(t, r)
      PROVE  Awaited'
  <2>1. /\ UNCHANGED <<key, joined, inFlight>> /\ Owns(t)
        /\ pc' = [pc EXCEPT ![t] = "record"]
    BY <1>3 DEF CompileEnds, cacheVars, Owns
  <2> QED
    BY <1>0, <2>1, NobodyLeft DEF StaysOwner, Owns, Owners, CallTypes
<1>4. CASE UNCHANGED vars
  BY <1>0, <1>4, NobodyLeft DEF StaysOwner, Owns, Owners, vars, cacheVars
<1> QED
  BY <1>0, <1>1, <1>2, <1>3, <1>4, JoinsOwner, BeginsOwned, RecordsOwned, PublishesAll
  DEF QuietNext, Lookup, OwnerStep

\* A thread that waits for a flight waits for one whose owner has yet to
\* publish it, for every number of threads, as long as no compilation panics.
THEOREM WaitersAreAnswered == QuietSpec => []WaitersHaveOwner
<1>1. Init => CacheInv /\ Awaited
  <2>1. Init => Awaited
    BY DEF Init, Awaited, FlightIsOwned, JoinedThreads, WaitersHaveOwner, In
  <2> QED
    BY <2>1, FlightsInit, LimiterInit DEF CacheInv
<1>2. CacheInv /\ Awaited /\ [QuietNext]_vars => (CacheInv /\ Awaited)'
  <2> SUFFICES ASSUME CacheInv, Awaited, [QuietNext]_vars PROVE (CacheInv /\ Awaited)'
    OBVIOUS
  <2>1. [Next]_vars
    BY DEF QuietNext, Next
  <2>2. CacheInv'
    BY <2>1, FlightsStep, LimiterStep DEF CacheInv, Flights, CallTypes
  <2> QED
    BY <2>2, AwaitedStep DEF CacheInv
<1>3. Awaited => WaitersHaveOwner
  BY DEF Awaited
<1> QED
  BY <1>1, <1>2, <1>3, PTL DEF QuietSpec
=============================================================================
