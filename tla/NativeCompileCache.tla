------------------------- MODULE NativeCompileCache -------------------------
(***************************************************************************)
(* NativeCompileCache and ProcessCompileLimiter                            *)
(* (crates/php_vm/src/vm/native_compile_cache.rs).                         *)
(*                                                                         *)
(* Threads ask the cache for the compile record of a key.  A miss starts   *)
(* one flight for the key; later callers of the key wait for the flight.   *)
(* The owner of the flight asks the process-wide limiter for a permit      *)
(* (bounded parallelism, bounded queue, foreground before background),     *)
(* compiles, drops the permit, records the outcome under the cache's lock  *)
(* and, after unlocking, publishes it to the waiters.                      *)
(*                                                                         *)
(* Each action is one critical section of the cache's or the limiter's     *)
(* mutex, or the end of the compilation.  A compile record is abstracted   *)
(* to its key, an error to whether it is remembered.                       *)
(***************************************************************************)
EXTENDS Integers, Sequences, FiniteSets, SequencesExt

CONSTANTS Threads,       \* the threads that call get_or_compile
          Background,    \* those that call get_or_compile_background
          Keys,          \* NativeCompileCacheKey
          MaxParallel,   \* PHRUST_NATIVE_COMPILE_PARALLELISM
          MaxQueue,      \* PHRUST_NATIVE_COMPILE_QUEUE_LIMIT
          Capacity       \* the cache's entry bound

ASSUME ThreadsAreFinite ==
  /\ IsFiniteSet(Threads)
  /\ Background \subseteq Threads
  /\ "none" \notin Threads

\* from_environment() replaces 0 by the default, and new() uses max(1).
ASSUME BoundsPositive ==
  /\ MaxParallel \in Nat \ {0}
  /\ MaxQueue \in Nat \ {0}
  /\ Capacity \in Nat \ {0}

VARIABLES
  pc,         \* where each thread is in get_or_compile_with_priority
  key,        \* the key its call has missed on or waits for
  outcome,    \* the owner's result between compiling and publishing
  joined,     \* the owner of the flight a waiting thread has joined
  inFlight,   \* in_flight: the owner of each key's flight
  entries,    \* primary_entries
  lru,        \* primary_lru, least recently used first
  failed,     \* permanent_failures
  active,     \* CompileLimitState.active
  fgQueued,   \* CompileLimitState.foreground_queued
  bgQueued,   \* CompileLimitState.background_queued
  notified    \* the queued threads woken since they last looked

cacheVars   == <<inFlight, entries, lru, failed>>
limiterVars == <<active, fgQueued, bgQueued, notified>>
vars == <<pc, key, outcome, joined, cacheVars, limiterVars>>

None == "none"

\* queue_full and transient errors are not remembered
\* (permanent_compile_failure), every other error is.
Outcomes == {"ok", "queue_full", "transient", "permanent"}

States == {"idle", "waiting", "limiter", "queued", "compiling", "record",
           "publish"}

In(s) == {t \in Threads : pc[t] = s}

\* The threads that own a flight of the cache.
Owns(t) == pc[t] \in {"limiter", "queued", "compiling", "record"}

\* must_wait in ProcessCompileLimiter::acquire.
MustWaitForSlot(t) == active >= MaxParallel

MustWait(t) == active >= MaxParallel \/ (t \in Background /\ fgQueued > 0)

\* touch_lru.
PushLru(q, k) == Append(q, k)

TouchLru(q, k) == Append(RemoveFirst(q, k), k)

Init ==
  /\ pc = [t \in Threads |-> "idle"]
  /\ key = [t \in Threads |-> None]
  /\ outcome = [t \in Threads |-> None]
  /\ joined = [t \in Threads |-> None]
  /\ inFlight = [k \in Keys |-> None]
  /\ entries = {}
  /\ lru = <<>>
  /\ failed = {}
  /\ active = 0
  /\ fgQueued = 0
  /\ bgQueued = 0
  /\ notified = {}
-----------------------------------------------------------------------------
(***************************************************************************)
(* Faulty variants of the steps below, against which the properties are    *)
(* tried.                                                                  *)
(***************************************************************************)
\* The lookup misses without consulting in_flight.
BeginFlightUnchecked(t, k) ==
  /\ pc[t] = "idle"
  /\ k \notin entries \cup failed
  /\ inFlight' = [inFlight EXCEPT ![k] = t]
  /\ key' = [key EXCEPT ![t] = k]
  /\ pc' = [pc EXCEPT ![t] = "limiter"]
  /\ UNCHANGED <<outcome, joined, entries, lru, failed, limiterVars>>

\* A woken background thread gives back a foreground place.
LeaveWrongQueue(t) ==
  /\ pc[t] = "queued"
  /\ ~MustWait(t)
  /\ notified' = notified \ {t}
  /\ fgQueued' = IF fgQueued > 0 THEN fgQueued - 1 ELSE 0
  /\ active' = active + 1
  /\ pc' = [pc EXCEPT ![t] = "compiling"]
  /\ UNCHANGED <<key, outcome, joined, cacheVars, bgQueued>>

\* Dropping the permit wakes one waiter (notify_one for notify_all).
CompileEndsWakingOne(t, r) ==
  /\ pc[t] = "compiling"
  /\ outcome' = [outcome EXCEPT ![t] = r]
  /\ pc' = [pc EXCEPT ![t] = "record"]
  /\ active' = active - 1
  /\ \/ In("queued") = {} /\ UNCHANGED notified
     \/ \E w \in In("queued") : notified' = notified \cup {w}
  /\ UNCHANGED <<key, joined, cacheVars, fgQueued, bgQueued>>

\* A panicking compilation keeps its permit.
PanicForgetsPermit(t) ==
  /\ pc[t] = "compiling"
  /\ pc' = [pc EXCEPT ![t] = "idle"]
  /\ key' = [key EXCEPT ![t] = None]
  /\ UNCHANGED <<outcome, joined, cacheVars, limiterVars>>

\* Only a successful result is published to the waiters.
PublishSuccessOnly(t) ==
  /\ pc[t] = "publish"
  /\ pc' = [w \in Threads |->
              IF \/ w = t
                 \/ /\ pc[w] = "waiting"
                    /\ joined[w] = t
                    /\ key[w] = key[t]
                    /\ outcome[t] = "ok"
                THEN "idle" ELSE pc[w]]
  /\ joined' = [w \in Threads |-> IF pc'[w] = "idle" THEN None ELSE joined[w]]
  /\ key' = [w \in Threads |-> IF pc'[w] = "idle" THEN None ELSE key[w]]
  /\ outcome' = [outcome EXCEPT ![t] = None]
  /\ UNCHANGED <<cacheVars, limiterVars>>
-----------------------------------------------------------------------------
(***************************************************************************)
(* The lookup: one critical section of the cache's mutex.                  *)
(***************************************************************************)
\* The key has an entry: the call returns it and the entry becomes the most
\* recently used.
Hit(t, k) ==
  /\ pc[t] = "idle"
  /\ k \in entries
  /\ lru' = TouchLru(lru, k)
  /\ UNCHANGED <<pc, key, outcome, joined, inFlight, entries, failed, limiterVars>>

\* A compilation of the key has failed for good: the call returns its error.
KnownFailure(t, k) ==
  /\ pc[t] = "idle"
  /\ k \in failed \ entries
  /\ UNCHANGED vars

\* The key is in flight: the call waits on that flight's CompileWait.
Join(t, k) ==
  /\ pc[t] = "idle"
  /\ k \notin entries \cup failed
  /\ inFlight[k] # None
  /\ joined' = [joined EXCEPT ![t] = inFlight[k]]
  /\ key' = [key EXCEPT ![t] = k]
  /\ pc' = [pc EXCEPT ![t] = "waiting"]
  /\ UNCHANGED <<outcome, cacheVars, limiterVars>>

\* A miss: the call owns a new flight.
BeginFlight(t, k) ==
  /\ pc[t] = "idle"
  /\ k \notin entries \cup failed
  /\ inFlight[k] = None
  /\ inFlight' = [inFlight EXCEPT ![k] = t]
  /\ key' = [key EXCEPT ![t] = k]
  /\ pc' = [pc EXCEPT ![t] = "limiter"]
  /\ UNCHANGED <<outcome, joined, entries, lru, failed, limiterVars>>

(***************************************************************************)
(* ProcessCompileLimiter::acquire: critical sections of its mutex.         *)
(***************************************************************************)
\* A slot is free.
AcquireAtOnce(t) ==
  /\ pc[t] = "limiter"
  /\ ~MustWait(t)
  /\ active' = active + 1
  /\ pc' = [pc EXCEPT ![t] = "compiling"]
  /\ UNCHANGED <<key, outcome, joined, cacheVars, fgQueued, bgQueued, notified>>

\* The queue is full: E_NATIVE_COMPILE_QUEUE_FULL is the flight's result.
QueueFull(t) ==
  /\ pc[t] = "limiter"
  /\ MustWait(t)
  /\ fgQueued + bgQueued >= MaxQueue
  /\ outcome' = [outcome EXCEPT ![t] = "queue_full"]
  /\ pc' = [pc EXCEPT ![t] = "record"]
  /\ UNCHANGED <<key, joined, cacheVars, limiterVars>>

\* The thread takes a place in the queue and sleeps on the condvar.
Enqueue(t) ==
  /\ pc[t] = "limiter"
  /\ MustWait(t)
  /\ fgQueued + bgQueued < MaxQueue
  /\ IF t \in Background
       THEN bgQueued' = bgQueued + 1 /\ UNCHANGED fgQueued
       ELSE fgQueued' = fgQueued + 1 /\ UNCHANGED bgQueued
  /\ pc' = [pc EXCEPT ![t] = "queued"]
  /\ UNCHANGED <<key, outcome, joined, cacheVars, active, notified>>

\* A sleeper wakes, notified or spuriously, and must wait again.
SleepAgain(t) ==
  /\ pc[t] = "queued"
  /\ t \in notified
  /\ MustWait(t)
  /\ notified' = notified \ {t}
  /\ UNCHANGED <<pc, key, outcome, joined, cacheVars, active, fgQueued, bgQueued>>

\* A sleeper wakes, notified or spuriously, and leaves the queue with a slot.
LeaveQueue(t) ==
  /\ pc[t] = "queued"
  /\ ~MustWait(t)
  /\ notified' = notified \ {t}
  /\ IF t \in Background
       THEN bgQueued' = bgQueued - 1 /\ UNCHANGED fgQueued
       ELSE fgQueued' = fgQueued - 1 /\ UNCHANGED bgQueued
  /\ active' = active + 1
  /\ pc' = [pc EXCEPT ![t] = "compiling"]
  /\ UNCHANGED <<key, outcome, joined, cacheVars>>

(***************************************************************************)
(* The compilation.                                                        *)
(***************************************************************************)
\* compile() returns and the permit is dropped, waking every sleeper.  A
\* record of another function (E_NATIVE_COMPILE_BREADTH) is a permanent
\* failure; an exhausted code limit or allocation is a transient one.
CompileEnds(t, r) ==
  /\ pc[t] = "compiling"
  /\ outcome' = [outcome EXCEPT ![t] = r]
  /\ pc' = [pc EXCEPT ![t] = "record"]
  /\ active' = active - 1
  /\ notified' = In("queued")
  /\ UNCHANGED <<key, joined, cacheVars, fgQueued, bgQueued>>

\* compile() panics: unwinding drops the permit and the thread leaves the
\* call.  Nothing removes the flight from in_flight.
CompilePanics(t) ==
  /\ pc[t] = "compiling"
  /\ pc' = [pc EXCEPT ![t] = "idle"]
  /\ key' = [key EXCEPT ![t] = None]
  /\ active' = active - 1
  /\ notified' = In("queued")
  /\ UNCHANGED <<outcome, joined, cacheVars, fgQueued, bgQueued>>

(***************************************************************************)
(* After the compilation.                                                  *)
(***************************************************************************)
\* The owner records its result under the lock: insert_primary and
\* evict_primary_entries on success, permanent_failures on an error that is
\* remembered.
Record(t) ==
  /\ pc[t] = "record"
  /\ inFlight' = [inFlight EXCEPT ![key[t]] = None]
  /\ IF outcome[t] = "ok"
       THEN LET full == entries \cup {key[t]}
                q    == TouchLru(lru, key[t])
            IN IF Cardinality(full) > Capacity
                 THEN /\ lru' = Tail(q)
                      /\ entries' = full \ {Head(q)}
                 ELSE lru' = q /\ entries' = full
       ELSE UNCHANGED <<entries, lru>>
  /\ failed' = IF outcome[t] = "permanent" THEN failed \cup {key[t]} ELSE failed
  /\ pc' = [pc EXCEPT ![t] = "publish"]
  /\ UNCHANGED <<key, outcome, joined, limiterVars>>

\* CompileWait::publish hands the result to every waiter of the flight, and
\* the owner returns.
Publish(t) ==
  /\ pc[t] = "publish"
  /\ pc' = [w \in Threads |->
              IF \/ w = t
                 \/ pc[w] = "waiting" /\ joined[w] = t /\ key[w] = key[t]
                THEN "idle" ELSE pc[w]]
  /\ joined' = [w \in Threads |-> IF pc'[w] = "idle" THEN None ELSE joined[w]]
  /\ key' = [w \in Threads |-> IF pc'[w] = "idle" THEN None ELSE key[w]]
  /\ outcome' = [outcome EXCEPT ![t] = None]
  /\ UNCHANGED <<cacheVars, limiterVars>>
-----------------------------------------------------------------------------
Lookup(t) ==
  \E k \in Keys : Hit(t, k) \/ KnownFailure(t, k) \/ Join(t, k) \/ BeginFlight(t, k)

\* What the owner of a flight does until it returns, panics aside.
OwnerStep(t) ==
  \/ AcquireAtOnce(t) \/ QueueFull(t) \/ Enqueue(t)
  \/ SleepAgain(t) \/ LeaveQueue(t)
  \/ \E r \in Outcomes \ {"queue_full"} : CompileEnds(t, r)
  \/ Record(t) \/ Publish(t)

Next == \E t \in Threads : Lookup(t) \/ OwnerStep(t) \/ CompilePanics(t)

Spec == Init /\ [][Next]_vars

\* No compilation panics.
QuietNext == \E t \in Threads : Lookup(t) \/ OwnerStep(t)

\* A thread that holds a mutex or compiles goes on; a notified sleeper gets
\* to look.  No thread need call, and a spurious wakeup never has to happen.
Fairness ==
  \A t \in Threads :
    /\ WF_vars(AcquireAtOnce(t) \/ QueueFull(t) \/ Enqueue(t))
    /\ WF_vars(t \in notified /\ (SleepAgain(t) \/ LeaveQueue(t)))
    /\ WF_vars(\E r \in Outcomes \ {"queue_full"} : CompileEnds(t, r))
    /\ WF_vars(Record(t) \/ Publish(t))

QuietSpec == Init /\ [][QuietNext]_vars /\ Fairness
-----------------------------------------------------------------------------
\* The cache, the limiter and its counters have the types of the Rust fields.
TypeOK ==
  /\ pc \in [Threads -> States]
  /\ key \in [Threads -> Keys \cup {None}]
  /\ outcome \in [Threads -> Outcomes \cup {None}]
  /\ joined \in [Threads -> Threads \cup {None}]
  /\ inFlight \in [Keys -> Threads \cup {None}]
  /\ entries \subseteq Keys
  /\ lru \in Seq(Keys)
  /\ failed \subseteq Keys
  /\ active \in 0 .. MaxParallel
  /\ fgQueued \in 0 .. MaxQueue
  /\ bgQueued \in 0 .. MaxQueue
  /\ notified \subseteq In("queued")

\* Concurrent misses for one key use single flight: no two threads own a
\* flight of the same key (get_or_compile_with_priority consults and fills
\* in_flight under one lock).
SingleFlight ==
  \A s, t \in Threads : Owns(s) /\ Owns(t) /\ key[s] = key[t] => s = t

\* A key is cached, remembered as failed, in flight, or none of these, never
\* two of them, although a flight compiles with no lock held.
OneStatusPerKey ==
  /\ entries \cap failed = {}
  /\ \A k \in Keys : inFlight[k] # None => k \notin entries \cup failed

\* The limiter's counter is the number of compilations under way, and a
\* permit is released exactly once however the compilation ends.
PermitsMatchCompilers == active = Cardinality(In("compiling"))

\* No more than PHRUST_NATIVE_COMPILE_PARALLELISM threads compile at once,
\* although a release wakes every sleeper and new callers do not queue.
CompilesBounded == Cardinality(In("compiling")) <= MaxParallel

\* The queue counters are the sleeping threads of each priority, and together
\* respect PHRUST_NATIVE_COMPILE_QUEUE_LIMIT.
QueueCountersMatch ==
  /\ fgQueued = Cardinality(In("queued") \ Background)
  /\ bgQueued = Cardinality(In("queued") \cap Background)
  /\ fgQueued + bgQueued <= MaxQueue

\* No wakeup is lost: a thread sleeps unnotified only while a compilation is
\* under way, whose permit will notify it, or while a foreground thread has
\* been notified and will take the slot.
WakeupPending ==
  \A t \in In("queued") \ notified :
    active > 0 \/ \E f \in notified \ Background : f # t

\* The recency list holds the cached keys, each once, and the cache never
\* exceeds its capacity (touch_lru, evict_primary_entries).
LruMatchesEntries ==
  /\ ToSet(lru) = entries
  /\ Len(lru) = Cardinality(entries)
  /\ Len(lru) <= Capacity

\* Foreground misses overtake queued background work: no background
\* compilation starts while a foreground thread is queued.
ForegroundFirst ==
  [][\A b \in Background :
       pc[b] # "compiling" /\ pc'[b] = "compiling"
         => In("queued") \subseteq Background]_vars

\* The flight a thread waits on is still owned, so its publication is yet to
\* come; a panic of the owner is the only thing that breaks this.
WaitersHaveOwner ==
  \A w \in In("waiting") :
    LET o == joined[w]
    IN key[o] = key[w] /\ (Owns(o) \/ pc[o] = "publish")

\* Once callers stop arriving, every call under way returns: no schedule of
\* flights, sleepers and waiters leaves a thread asleep for ever.
CallsDrain ==
  <>[][\A t \in Threads : pc[t] = "idle" => pc'[t] = "idle"]_vars
    => <>[](\A t \in Threads : pc[t] = "idle")
=============================================================================
