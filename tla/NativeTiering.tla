--------------------------- MODULE NativeTiering ---------------------------
(***************************************************************************)
(* Background tiering: hot functions are claimed under the function and    *)
(* time budgets, handed to the process's single optimizing thread and      *)
(* compiled there (VmWorkerState, BackgroundTieringState and               *)
(* NativeOptimizationScheduler of crates/php_vm/src/vm/mod.rs).            *)
(*                                                                         *)
(* Three locks are involved: those of the tiering state, of the            *)
(* scheduler's state and of the compile cache, which the decision of a     *)
(* request takes inside the first.  Each action is one critical section,   *)
(* or one test of the cache.  The compile cache is the set of keys it      *)
(* contains; NativeCompileCache models it.                                 *)
(***************************************************************************)
EXTENDS Integers, Sequences, FiniteSets, SequencesExt

CONSTANTS Requests,      \* request threads
          Keys,          \* functions at the optimizing tier: NativeCompileCacheKey
          Threshold,     \* function_entry_threshold.max(1)
          MaxHeat,       \* bound on the entry counters
          MaxFunctions,  \* native_max_functions
          MaxUs,         \* native_max_compile_us
          MaxJobUs,      \* bound on the time one job takes
          BatchCapacity, \* NATIVE_OPTIMIZATION_BATCH_CAPACITY
          Panics         \* whether a compilation may panic

ASSUME TieringConstants ==
  /\ IsFiniteSet(Keys) /\ "nokey" \notin Keys
  /\ Threshold \in Nat \ {0} /\ MaxHeat \in Nat \ {0} /\ Threshold <= MaxHeat
  /\ MaxFunctions \in Nat /\ MaxUs \in Nat /\ MaxJobUs \in Nat
  /\ BatchCapacity \in Nat \ {0}
  /\ Panics \in BOOLEAN

NoKey == "nokey"

VARIABLES
  entries,    \* BackgroundTieringState.entries
  scheduled,  \* BackgroundTieringState.scheduled
  failed,     \* BackgroundTieringState.failed
  compiled,   \* stats.native_compiled_functions
  used,       \* stats.native_compile_budget_used_us
  cached,     \* the keys NativeCompileCache contains
  pending,    \* the scheduler's pending jobs: their heat, 0 for none
  running,    \* the scheduler's running keys
  batch,      \* the keys the worker has taken and not released
  stage,      \* where the worker is in the first of them
  req         \* what each request is scheduling

vars == <<entries, scheduled, failed, compiled, used, cached, pending, running, batch, stage, req>>

\* "dead": a job panicked and the thread is gone, and with it the rest of its
\* batch; the keys stay marked as running.
Stages == {"check", "compile", "ok", "error", "release", "dead"}

\* cand: the candidates left to claim, with their heat; at: the one found not
\* to be in the compile cache; work: the claimed ones, to be submitted.
RequestState ==
  [cand : [Keys -> 0 .. MaxHeat], at : Keys \cup {NoKey}, heat : 0 .. MaxHeat,
   work : [Keys -> 0 .. MaxHeat]]

None == [k \in Keys |-> 0]
Idle == [cand |-> None, at |-> NoKey, heat |-> 0, work |-> None]

Init ==
  /\ entries = None
  /\ scheduled = {} /\ failed = {} /\ compiled = 0 /\ used = 0
  /\ cached = {}
  /\ pending = None /\ running = {} /\ batch = <<>> /\ stage = "check"
  /\ req = [r \in Requests |-> Idle]

tiering == <<entries, scheduled, failed, compiled, used>>
scheduler == <<pending, running, batch, stage>>

\* The keys of a heat map.
Hot(h) == {k \in Keys : h[k] > 0}

\* The budget tests of a claim and of a job.
OutOfTime == used >= MaxUs
-----------------------------------------------------------------------------
(***************************************************************************)
(* Faulty variants of the steps below, against which the properties are    *)
(* tried.                                                                  *)
(***************************************************************************)
\* A claim does not count the functions other claims have reserved.
OverBudgetUnreserved == compiled >= MaxFunctions \/ OutOfTime

\* A claim does not ask whether the key has failed.
UnclaimableScheduled(k) == k \in scheduled

\* A claim does not ask whether the key is already scheduled.
UnclaimableFailed(k) == k \in failed

\* A job does not test the time budget again.
JobOverBudgetFunctions == compiled >= MaxFunctions

\* The worker takes a batch without removing it from the pending jobs.
LeftPendingAll(b) == pending

-----------------------------------------------------------------------------
(***************************************************************************)
(* Requests.                                                               *)
(***************************************************************************)
\* background_tiering_decision: under the lock of the tiering state, an entry
\* function that is not compiled is counted; the request runs its generic version and then schedules it.
Decide(r, k) ==
  /\ req[r] = Idle
  /\ k \notin cached
  /\ entries[k] < MaxHeat
  /\ entries' = [entries EXCEPT ![k] = @ + 1]
  /\ req' = [req EXCEPT ![r].cand[k] = entries[k] + 1]
  /\ UNCHANGED <<scheduled, failed, compiled, used, cached, scheduler>>

\* schedule_hot_native_functions: functions whose entry counters, kept by
\* generated code, have reached the threshold.
SelectHot(r, hot) ==
  /\ req[r] = Idle
  /\ Hot(hot) # {} /\ Cardinality(Hot(hot)) <= BatchCapacity
  /\ \A k \in Hot(hot) : hot[k] >= Threshold
  /\ req' = [req EXCEPT ![r].cand = hot]
  /\ UNCHANGED <<tiering, cached, scheduler>>

\* claim_background_optimization up to its lock: a cold or compiled candidate
\* is dropped.
Probe(r, k) ==
  /\ req[r].at = NoKey /\ req[r].cand[k] > 0
  /\ req' = [req EXCEPT ![r] =
       IF req[r].cand[k] < Threshold \/ k \in cached
         THEN [@ EXCEPT !.cand[k] = 0]
         ELSE [@ EXCEPT !.cand[k] = 0, !.at = k, !.heat = req[r].cand[k]]]
  /\ UNCHANGED <<tiering, cached, scheduler>>

Unclaimable(k) == k \in scheduled \/ k \in failed

OverBudget == compiled + Cardinality(scheduled) >= MaxFunctions \/ OutOfTime

\* claim_background_optimization under the lock of the tiering state.
Claim(r) ==
  LET k == req[r].at
      claimed == ~Unclaimable(k) /\ ~OverBudget
  IN /\ k # NoKey
     /\ scheduled' = IF claimed THEN scheduled \cup {k} ELSE scheduled
     /\ req' = [req EXCEPT ![r].at = NoKey, ![r].heat = 0,
                           ![r].work[k] = IF claimed THEN req[r].heat ELSE @]
     /\ UNCHANGED <<entries, failed, compiled, used, cached, scheduler>>

\* What submit leaves pending: a running key is dropped, a pending one keeps
\* the higher heat.
Submitted(k, heat) ==
  IF k \in running THEN pending
  ELSE [pending EXCEPT ![k] = IF @ > heat THEN @ ELSE heat]

\* NativeOptimizationScheduler::submit of the claimed functions, one by one.
Submit(r, k) ==
  /\ req[r].at = NoKey /\ req[r].cand = None
  /\ req[r].work[k] > 0
  /\ pending' = Submitted(k, req[r].work[k])
  /\ req' = [req EXCEPT ![r].work[k] = 0]
  /\ UNCHANGED <<tiering, cached, running, batch, stage>>

RequestStep(r) ==
  \/ \E k \in Keys : Probe(r, k) \/ Submit(r, k)
  \/ Claim(r)
-----------------------------------------------------------------------------
(***************************************************************************)
(* The worker: NativeOptimizationScheduler::run, with                      *)
(* run_background_optimization as its job.                                 *)
(***************************************************************************)
\* The hottest pending jobs, hottest first.
IsBatch(b) ==
  /\ ToSet(b) \subseteq Hot(pending)
  /\ \A i, j \in DOMAIN b : i < j => b[i] # b[j] /\ pending[b[i]] >= pending[b[j]]
  /\ \A i \in DOMAIN b, k \in Keys \ ToSet(b) : pending[k] <= pending[b[i]]

BatchSize == LET n == Cardinality(Hot(pending)) IN IF n < BatchCapacity THEN n ELSE BatchCapacity

LeftPending(b) == [k \in Keys |-> IF k \in ToSet(b) THEN 0 ELSE pending[k]]

TakeBatch ==
  /\ batch = <<>> /\ Hot(pending) # {}
  /\ \E b \in [1 .. BatchSize -> Keys] :
       /\ IsBatch(b)
       /\ batch' = b
       /\ pending' = LeftPending(b)
       /\ running' = running \cup ToSet(b)
  /\ UNCHANGED <<tiering, cached, stage, req>>

JobOverBudget == compiled >= MaxFunctions \/ OutOfTime

\* The job tests its reservation and the budgets under the lock.
StartJob ==
  /\ batch # <<>> /\ stage = "check"
  /\ stage' = IF Head(batch) \in scheduled /\ ~JobOverBudget THEN "compile" ELSE "release"
  /\ scheduled' = IF JobOverBudget THEN scheduled \ {Head(batch)} ELSE scheduled
  /\ UNCHANGED <<entries, failed, compiled, used, cached, pending, running, batch, req>>

\* resolve_native_function_with_priority: compiled into the cache, loaded
\* from the persistent one without passing through it, or refused.
Compile ==
  /\ stage = "compile"
  /\ \/ stage' = "ok" /\ cached' \in {cached, cached \cup {Head(batch)}}
     \/ stage' = "error" /\ UNCHANGED cached
  /\ UNCHANGED <<tiering, pending, running, batch, req>>

\* The job ends under the lock: its reservation becomes a compiled function
\* or a failed key.
FinishJob(us) ==
  /\ stage \in {"ok", "error"}
  /\ stage' = "release"
  /\ scheduled' = scheduled \ {Head(batch)}
  /\ used' = used + us
  /\ compiled' = IF stage = "ok" THEN compiled + 1 ELSE compiled
  /\ failed' = IF stage = "error" THEN failed \cup {Head(batch)} ELSE failed
  /\ UNCHANGED <<entries, cached, pending, running, batch, req>>

RunningAfter(k) == running \ {k}

\* The worker removes the key from the running ones and goes on.
Release ==
  /\ stage = "release"
  /\ stage' = "check"
  /\ running' = RunningAfter(Head(batch))
  /\ batch' = Tail(batch)
  /\ UNCHANGED <<tiering, cached, pending, req>>

\* A panic in the compiler ends the worker thread; nothing restarts it, or runs
\* what is left of the batch and of the pending jobs.
Panic ==
  /\ Panics
  /\ stage = "compile"
  /\ stage' = "dead"
  /\ UNCHANGED <<tiering, cached, pending, running, batch, req>>

Worker == TakeBatch \/ StartJob \/ Compile \/ (\E us \in 0 .. MaxJobUs : FinishJob(us)) \/ Release
-----------------------------------------------------------------------------
(***************************************************************************)
(* The compile cache changes under other work: a request compiles a key,   *)
(* an insertion evicts one.                                                *)
(***************************************************************************)
CacheChanges(k) ==
  /\ cached' = IF k \in cached THEN cached \ {k} ELSE cached \cup {k}
  /\ UNCHANGED <<tiering, scheduler, req>>

Next ==
  \/ \E r \in Requests :
       \/ \E k \in Keys : Decide(r, k)
       \/ \E hot \in [Keys -> 0 .. MaxHeat] : SelectHot(r, hot)
       \/ RequestStep(r)
  \/ Worker \/ Panic
  \/ \E k \in Keys : CacheChanges(k)

Spec == Init /\ [][Next]_vars

\* Requests go on once they are scheduling; the worker thread runs.
Fairness == WF_vars(Worker) /\ \A r \in Requests : WF_vars(RequestStep(r))

FairSpec == Spec /\ Fairness
-----------------------------------------------------------------------------
\* The tiering state, the scheduler and the requests have the types of the
\* Rust fields.
TypeOK ==
  /\ entries \in [Keys -> 0 .. MaxHeat]
  /\ scheduled \subseteq Keys /\ failed \subseteq Keys
  /\ compiled \in Nat /\ used \in Nat
  /\ cached \subseteq Keys
  /\ pending \in [Keys -> 0 .. MaxHeat]
  /\ running \subseteq Keys /\ batch \in Seq(Keys) /\ stage \in Stages
  /\ req \in [Requests -> RequestState]

\* The functions compiled and the ones reserved never exceed
\* native_max_functions, although a claim, a job's second test and its end
\* are three critical sections.
FunctionBudget == compiled + Cardinality(scheduled) <= MaxFunctions

\* The time budget is exceeded by at most the one job that was running when
\* it ran out.
TimeBudget ==
  /\ used < MaxUs + MaxJobUs \/ used = 0
  /\ stage \in {"compile", "ok", "error"} => used < MaxUs

\* The keys with a job that has not ended, each by where the job is.
Submitting(r) == Hot(req[r].work)
Unfinished == IF stage = "release" THEN ToSet(Tail(batch)) ELSE ToSet(batch)

\* A key has at most one job that has not ended, from the claim by a request
\* to the end on the worker, and that job holds its reservation.
OneJobPerKey ==
  /\ \A r \in Requests : Submitting(r) \subseteq scheduled /\ Submitting(r) \cap Hot(pending) = {}
  /\ \A r, q \in Requests : r # q => Submitting(r) \cap Submitting(q) = {}
  /\ Hot(pending) \subseteq scheduled /\ Unfinished \subseteq scheduled
  /\ Hot(pending) \cap Unfinished = {}
  /\ \A r \in Requests : Submitting(r) \cap Unfinished = {}

\* A function whose optimizing compilation failed is never claimed again.
FailuresAreFinal == failed \cap scheduled = {}

\* The running keys are those of the batch the worker holds.
RunningIsBatch == running = ToSet(batch)

\* A pending job is eventually taken up, whatever hotter jobs arrive, unless a
\* panic has ended the optimizing thread.
PendingJobsRun == \A k \in Keys : (pending[k] > 0) ~> (pending[k] = 0 \/ stage = "dead")

\* The keys with a job that may still run: not one that was left with a
\* scheduler whose thread is gone.
Queued == IF stage = "dead" THEN {} ELSE Unfinished \cup Hot(pending)
HasJob(k) == k \in Queued \/ \E r \in Requests : k \in Submitting(r)

\* The reservations without one.
Lost == {k \in scheduled : ~HasJob(k)}

\* "At the configured threshold a named background job requests compiler
\* level 2": a function that is scheduled has a job.
ScheduledHaveJobs == \A k \in scheduled : HasJob(k)

\* A reservation loses its job in three ways only: the compiler panics, which
\* ends the thread with every job it has or is to run; the job is submitted
\* after that; or it is submitted while the worker still marks its key as
\* running, though the job it ran for it has ended.
LossesHaveCause ==
  [][\A k \in Lost' \ Lost :
       \/ Panic
       \/ /\ \E r \in Requests : Submit(r, k)
          /\ stage = "dead" \/ (stage = "release" /\ k = Head(batch))]_vars

\* A lost reservation is never returned: the key is not claimed again and counts
\* against native_max_functions as long as the process lives.
LossesAreForGood == [][Lost \subseteq Lost']_vars
=============================================================================
