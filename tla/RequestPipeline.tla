--------------------------- MODULE RequestPipeline ---------------------------
(***************************************************************************)
(* The life of an HTTP request in crates/php_server: admission by the      *)
(* in_flight semaphore (serve.rs, handle_parts), the body read, the        *)
(* built-in router, the entry-script lookup, the CPU semaphore             *)
(* (php_request.rs, acquire_cpu_execution_permit), the PHP worker pool     *)
(* (WorkerPool) and the request core that runs on a worker                 *)
(* (run_php_request_on_worker).                                            *)
(*                                                                         *)
(* The handler is an async task: it can be dropped at an await, by a       *)
(* client that disconnects or by the shutdown, and then releases what it   *)
(* owns.  The job it gave to a worker owns the CPU permit and runs on.     *)
(*                                                                         *)
(* Headers, bodies, routes, metrics and log records are left out: a stage  *)
(* chooses among its outcomes.                                             *)
(***************************************************************************)
EXTENDS WorkerPool

CONSTANT InFlightLimit   \* config.limits.max_in_flight

\* config.limits.cpu_execution_limit: server.rs starts one worker for each
\* permit of the CPU semaphore.
CpuLimit == NumWorkers

\* config.rs reads both limits with parse_positive_usize.
ASSUME LimitsPositive == InFlightLimit \in Nat \ {0} /\ CpuLimit \in Nat \ {0}

VARIABLES
  stage,      \* where each handler is
  inFlight,   \* permits of concurrency.in_flight not handed out
  cpu,        \* permits of concurrency.cpu_execution not handed out
  phase,      \* where each request's job is in run_php_request_on_worker
  uploads     \* the requests whose uploaded temporary files are on disk

\* pool holds the variables of the worker pool.
vars == <<stage, inFlight, cpu, phase, uploads, pool>>

Queued   == {"router_queued", "cpu_queued"}
Admitted == {"body", "router", "routing", "compile", "cpu", "pool"} \cup Queued
Final    == {"answered", "overloaded", "timed_out", "crashed", "gone"}
Stages   == {"new", "admission"} \cup Admitted \cup Final

\* "queued": the closure given to execute() has not started; "dropped": it
\* never will.
Phases == {"none", "queued", "seed", "php", "final", "returned", "dropped"}

\* The requests that own a permit of the CPU semaphore: the router holds it
\* in the handler, execute()'s closure holds it from the call until the
\* script has run.
CpuHolders ==
  {r \in Requests : stage[r] = "routing" \/ phase[r] \in {"queued", "seed", "php"}}

\* The requests whose handler owns a permit of the in-flight semaphore.
InFlight == {r \in Requests : stage[r] \in Admitted}

\* The requests that are executing PHP code.
Executing == {r \in Requests : stage[r] = "routing" \/ phase[r] = "php"}
-----------------------------------------------------------------------------
\* server.rs: the semaphores are full and the pool is idle.
Init ==
  /\ stage = [r \in Requests |-> "new"]
  /\ inFlight = InFlightLimit
  /\ cpu = CpuLimit
  /\ phase = [r \in Requests |-> "none"]
  /\ uploads = {}
  /\ PoolInit

\* The handler moves from one stage to the next.
Go(r, s) == stage' = [stage EXCEPT ![r] = s]

\* The handler returns or unwinds: its in-flight permit is dropped.
Leave(r, s) == Go(r, s) /\ inFlight' = inFlight + 1
-----------------------------------------------------------------------------
\* handle_parts up to the await on in_flight.
Arrive(r) ==
  /\ stage[r] = "new"
  /\ Go(r, "admission")
  /\ UNCHANGED <<inFlight, cpu, phase, uploads, pool>>

\* The in-flight permit is granted.
Admit(r) ==
  /\ stage[r] = "admission"
  /\ inFlight > 0
  /\ inFlight' = inFlight - 1
  /\ Go(r, "body")
  /\ UNCHANGED <<cpu, phase, uploads, pool>>

\* REQUEST_ADMISSION_TIMEOUT expires: 503.
Overload(r) ==
  /\ stage[r] = "admission"
  /\ Go(r, "overloaded")
  /\ UNCHANGED <<inFlight, cpu, phase, uploads, pool>>

\* Variant: an early answer leaves the in-flight permit behind.
AnswerEarlyKeepingPermit(r) ==
  /\ stage[r] = "body"
  /\ Go(r, "answered")
  /\ UNCHANGED <<inFlight, cpu, phase, uploads, pool>>

\* A route that needs no PHP is answered, and so is a body that is too large
\* or invalid.
AnswerEarly(r) ==
  /\ stage[r] = "body"
  /\ Leave(r, "answered")
  /\ UNCHANGED <<cpu, phase, uploads, pool>>

\* request_timeout expires while the body is read: 408.
BodyTimeout(r) ==
  /\ stage[r] = "body"
  /\ Leave(r, "timed_out")
  /\ UNCHANGED <<cpu, phase, uploads, pool>>

\* The body is complete; the built-in router runs unless there is none or the
\* request names the router script itself.
BodyRead(r) ==
  /\ stage[r] = "body"
  /\ Go(r, "router") \/ Go(r, "compile")
  /\ UNCHANGED <<inFlight, cpu, phase, uploads, pool>>

\* executor_acquisition_stage: the script cache returns the compiled script.
Compiled(r) ==
  /\ stage[r] = "compile"
  /\ Go(r, "cpu")
  /\ UNCHANGED <<inFlight, cpu, phase, uploads, pool>>

\* The script does not compile: its diagnostics are the answer.
CompileError(r) ==
  /\ stage[r] = "compile"
  /\ Leave(r, "answered")
  /\ UNCHANGED <<cpu, phase, uploads, pool>>
-----------------------------------------------------------------------------
(***************************************************************************)
(* acquire_cpu_execution_permit, called for the router and for the script. *)
(***************************************************************************)
\* What the owner of a fresh permit does with it: the router runs in the
\* handler, the script is passed to PhpWorkerPool::execute.
WithPermit(r) ==
  /\ cpu' = cpu - 1
  /\ \/ /\ stage[r] \in {"router", "router_queued"}
        /\ Go(r, "routing")
        /\ UNCHANGED <<phase, pool>>
     \/ /\ stage[r] \in {"cpu", "cpu_queued"}
        /\ Go(r, "pool")
        /\ phase' = [phase EXCEPT ![r] = "queued"]
        /\ Execute(r)
  /\ UNCHANGED <<inFlight, uploads>>

\* try_acquire_owned() succeeds.
TryCpu(r) ==
  /\ stage[r] \in {"router", "cpu"}
  /\ cpu > 0
  /\ WithPermit(r)

\* try_acquire_owned() finds no permit: the handler awaits one.
QueueCpu(r) ==
  /\ stage[r] \in {"router", "cpu"}
  /\ cpu = 0
  /\ Go(r, IF stage[r] = "router" THEN "router_queued" ELSE "cpu_queued")
  /\ UNCHANGED <<inFlight, cpu, phase, uploads, pool>>

\* acquire_owned() returns a permit in time.
CpuGranted(r) ==
  /\ stage[r] \in Queued
  /\ cpu > 0
  /\ WithPermit(r)

\* request_timeout expires in the queue: 503.
CpuTimeout(r) ==
  /\ stage[r] \in Queued
  /\ Leave(r, "timed_out")
  /\ UNCHANGED <<cpu, phase, uploads, pool>>

\* The router script has run, or failed; it answers, or returns false and
\* the request continues with its script.
RouterEnd(r) ==
  /\ stage[r] = "routing"
  /\ cpu' = cpu + 1
  /\ \/ Leave(r, "answered")
     \/ Go(r, "compile") /\ UNCHANGED inFlight
  /\ UNCHANGED <<phase, uploads, pool>>

\* PHP or the compiler panics in the handler's own task.
HandlerPanic(r) ==
  /\ stage[r] \in {"routing", "compile"}
  /\ cpu' = IF stage[r] = "routing" THEN cpu + 1 ELSE cpu
  /\ Leave(r, "crashed")
  /\ UNCHANGED <<phase, uploads, pool>>
-----------------------------------------------------------------------------
(***************************************************************************)
(* PhpWorkerPool::execute for the request's job, and the job itself:       *)
(* run_php_request_on_worker, on a worker or inline.                       *)
(***************************************************************************)
PoolAcquire(r) ==
  /\ Acquire(r)
  /\ UNCHANGED <<stage, inFlight, cpu, phase, uploads>>

PoolDispatch(r) ==
  /\ \E w \in Workers : DispatchTo(r, w)
  /\ UNCHANGED <<stage, inFlight, cpu, phase, uploads>>

\* No idle worker: the job starts in the handler's task.
RunInline(r) ==
  /\ DispatchInline(r)
  /\ phase' = [phase EXCEPT ![r] = "seed"]
  /\ UNCHANGED <<stage, inFlight, cpu, uploads>>

\* The worker receives the job and starts it.
StartJob(w) ==
  /\ Receive(w)
  /\ phase' = [phase EXCEPT ![Head(mailbox[w])] = "seed"]
  /\ UNCHANGED <<stage, inFlight, cpu, uploads>>

\* Globals, multipart parsing (which may write temporary files), the cleanup
\* guard and the session seed.
Seed(r) ==
  /\ phase[r] = "seed"
  /\ phase' = [phase EXCEPT ![r] = "php"]
  /\ uploads' = uploads \/ uploads' = uploads \cup {r}
  /\ UNCHANGED <<stage, inFlight, cpu, pool>>

\* Variant: the early return keeps the CPU permit.
SeedFailsHoldingPermit(r) ==
  /\ phase[r] = "seed"
  /\ phase' = [phase EXCEPT ![r] = "returned"]
  /\ UNCHANGED <<stage, inFlight, cpu, uploads, pool>>

\* The multipart body or the session store fails: an early return, which
\* removes the temporary files and drops the CPU permit.
SeedFails(r) ==
  /\ phase[r] = "seed"
  /\ phase' = [phase EXCEPT ![r] = "returned"]
  /\ cpu' = cpu + 1
  /\ UNCHANGED <<stage, inFlight, uploads, pool>>

\* execution_stage returns; drop(cpu_permit).
ScriptEnds(r) ==
  /\ phase[r] = "php"
  /\ phase' = [phase EXCEPT ![r] = "final"]
  /\ cpu' = cpu + 1
  /\ UNCHANGED <<stage, inFlight, uploads, pool>>

\* RequestCleanup::finalize_output or its Drop, and the response.
Finalize(r) ==
  /\ phase[r] = "final"
  /\ phase' = [phase EXCEPT ![r] = "returned"]
  /\ uploads' = uploads \ {r}
  /\ UNCHANGED <<stage, inFlight, cpu, pool>>

\* Variant: there is no cleanup guard.
UnwindLeavingFiles(r) ==
  /\ phase[r] \in {"seed", "php", "final"}
  /\ phase' = [phase EXCEPT ![r] = "dropped"]
  /\ cpu' = IF phase[r] = "final" THEN cpu ELSE cpu + 1
  /\ UNCHANGED uploads

\* What unwinding the job drops: the cleanup guard and a CPU permit the
\* script has not released yet.
Unwind(r) ==
  /\ phase[r] \in {"seed", "php", "final"}
  /\ phase' = [phase EXCEPT ![r] = "dropped"]
  /\ cpu' = IF phase[r] = "final" THEN cpu ELSE cpu + 1
  /\ uploads' = uploads \ {r}

\* Variant: the worker is free again before the job has returned.
WorkerReturnsEarly(w) ==
  /\ \/ PushIdle(w) /\ phase[job[w]] \in {"final", "returned"}
     \/ DropPermit(w)
     \/ Complete(w)
  /\ UNCHANGED <<stage, inFlight, cpu, phase, uploads>>

\* The rest of the worker's loop.
WorkerReturns(w) ==
  /\ \/ PushIdle(w) /\ phase[job[w]] = "returned"
     \/ DropPermit(w)
     \/ Complete(w)
  /\ UNCHANGED <<stage, inFlight, cpu, phase, uploads>>

WorkerPanic(w) ==
  /\ Panic(w)
  /\ Unwind(job[w])
  /\ UNCHANGED <<stage, inFlight>>

\* run_inline returns the response, or unwinds the handler.
InlineReturns(r) ==
  /\ phase[r] = "returned"
  /\ InlineEnd(r, "done")
  /\ Leave(r, "answered")
  /\ UNCHANGED <<cpu, phase, uploads>>

InlinePanic(r) ==
  /\ InlineEnd(r, "failed")
  /\ Unwind(r)
  /\ Leave(r, "crashed")

\* Variant: a lost reply leaves the in-flight permit behind.
PoolReplyKeepingPermit(r) ==
  /\ stage[r] = "pool"
  /\ \/ caller[r] = "done" /\ Leave(r, "answered")
     \/ caller[r] = "failed" /\ Go(r, "crashed") /\ UNCHANGED inFlight
  /\ UNCHANGED <<cpu, phase, uploads, pool>>

\* reply_receiver.await: the response, or a panic in expect().
PoolReply(r) ==
  /\ stage[r] = "pool"
  /\ \/ caller[r] = "done" /\ Leave(r, "answered")
     \/ caller[r] = "failed" /\ Leave(r, "crashed")
  /\ UNCHANGED <<cpu, phase, uploads, pool>>
-----------------------------------------------------------------------------
\* The handler is dropped at an await before the pool.
Disconnect(r) ==
  /\ \/ stage[r] = "admission" /\ Go(r, "gone") /\ UNCHANGED inFlight
     \/ stage[r] \in {"body"} \cup Queued /\ Leave(r, "gone")
  /\ UNCHANGED <<cpu, phase, uploads, pool>>

\* The handler is dropped inside execute().  While it awaits a worker it
\* still owns the closure, and the CPU permit with it.
DisconnectInPool(r) ==
  /\ stage[r] = "pool"
  /\ Leave(r, "gone")
  /\ \/ /\ caller[r] = "waiting"
        /\ Abandon(r)
        /\ phase' = [phase EXCEPT ![r] = "dropped"]
        /\ cpu' = cpu + 1
     \/ /\ caller[r] = "sent"
        /\ Abandon(r)
        /\ UNCHANGED <<phase, cpu>>
     \/ /\ caller[r] \in {"done", "failed"}
        /\ UNCHANGED <<phase, cpu, pool>>
  /\ UNCHANGED uploads

HandlerStep(r) ==
  \/ Arrive(r) \/ Admit(r) \/ Overload(r)
  \/ AnswerEarly(r) \/ BodyTimeout(r) \/ BodyRead(r)
  \/ Compiled(r) \/ CompileError(r)
  \/ TryCpu(r) \/ QueueCpu(r) \/ CpuGranted(r) \/ CpuTimeout(r)
  \/ RouterEnd(r) \/ HandlerPanic(r)
  \/ PoolAcquire(r) \/ PoolDispatch(r) \/ RunInline(r)
  \/ InlineReturns(r) \/ InlinePanic(r) \/ PoolReply(r)
  \/ Disconnect(r) \/ DisconnectInPool(r)

JobStep(r) == Seed(r) \/ SeedFails(r) \/ ScriptEnds(r) \/ Finalize(r)

WorkerStep(w) == StartJob(w) \/ WorkerReturns(w) \/ WorkerPanic(w)

Next ==
  \/ \E r \in Requests : HandlerStep(r) \/ JobStep(r)
  \/ \E w \in Workers : WorkerStep(w)

Spec == Init /\ [][Next]_vars

(***************************************************************************)
(* Tasks and threads are scheduled, a body arrives or its read times out,  *)
(* scripts end (they return or meet their deadline), and tokio's           *)
(* semaphores serve their waiters in order.  Timeouts of a queue, panics   *)
(* and disconnects need not happen.                                        *)
(***************************************************************************)
Fairness ==
  /\ \A r \in Requests :
       /\ SF_vars(Admit(r) \/ TryCpu(r) \/ CpuGranted(r) \/ PoolAcquire(r))
       /\ WF_vars(\/ AnswerEarly(r) \/ BodyTimeout(r) \/ BodyRead(r)
                  \/ Compiled(r) \/ CompileError(r) \/ QueueCpu(r) \/ RouterEnd(r)
                  \/ PoolDispatch(r) \/ RunInline(r) \/ InlineReturns(r) \/ PoolReply(r))
       /\ WF_vars(JobStep(r))
  /\ \A w \in Workers : WF_vars(StartJob(w) \/ WorkerReturns(w))

FairSpec == Spec /\ Fairness
-----------------------------------------------------------------------------
\* The variables have the types of the Rust fields.
TypeOK ==
  /\ stage \in [Requests -> Stages]
  /\ inFlight \in Nat
  /\ cpu \in Nat
  /\ phase \in [Requests -> Phases]
  /\ uploads \subseteq Requests

\* Every CPU permit is free or owned by exactly one request, whatever panics,
\* times out or disconnects: acquire_cpu_execution_permit never loses one.
CpuPermitsConserved == cpu + Cardinality(CpuHolders) = CpuLimit

\* No more than cpu_execution_limit requests execute PHP at once, counting the
\* built-in router, which runs in the handler, jobs whose client has gone and
\* jobs that run inline because a worker was lost.
PhpBounded == Cardinality(Executing) <= CpuLimit

\* Every in-flight permit is free or owned by a handler that is still there.
InFlightConserved == inFlight + Cardinality(InFlight) = InFlightLimit

\* The temporary files of an upload exist only while the job that wrote them
\* is running: every way out of run_php_request_on_worker removes them.
UploadsOwned == \A r \in uploads : phase[r] \in {"php", "final"}

\* A client gets the response of its job only after the script has ended,
\* its files are removed and its CPU permit is free.
AnswerAfterCleanup ==
  \A r \in Requests :
    stage[r] = "answered" => phase[r] \in {"none", "returned"}

\* A request's job runs at most once: it starts only out of the queue, and once
\* it has returned or was dropped nothing queues or starts it again, although
\* the closure passes from the handler to a channel and a worker, or back to
\* the handler that runs it inline.
JobsRunOnce ==
  [][ \A r \in Requests :
        /\ phase'[r] = "queued" => phase[r] \in {"none", "queued"}
        /\ phase'[r] = "seed" => phase[r] \in {"queued", "seed"}
        /\ phase[r] \in {"returned", "dropped"} => phase'[r] = phase[r] ]_vars

\* A client gets one response: a handler that has answered, timed out, crashed
\* or was dropped takes no further step, whatever its job still does.
AnswersAreFinal ==
  [][ \A r \in Requests : stage[r] \in Final => stage'[r] = stage[r] ]_vars

\* Every request that reaches the server is answered, unless its client goes
\* away or its handler crashes.
EveryRequestEnds == \A r \in Requests : stage[r] = "admission" ~> stage[r] \in Final
=============================================================================
