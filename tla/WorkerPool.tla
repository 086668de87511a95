----------------------------- MODULE WorkerPool -----------------------------
(***************************************************************************)
(* PhpWorkerPool (crates/php_server/src/worker_pool.rs): a fixed set of    *)
(* pinned PHP threads, a LIFO stack of idle workers, a semaphore with one  *)
(* permit per worker, and one job channel per worker.                      *)
(*                                                                         *)
(* A caller acquires a permit, pops an idle worker and sends it the job    *)
(* together with the permit.  The worker runs the task, pushes itself on   *)
(* the idle stack, drops the permit and only then publishes the reply.     *)
(* A task that panics ends its worker thread: unwinding releases the       *)
(* permit and drops the reply channel, and the worker is never idle again. *)
(* The client may disconnect while the caller awaits, which drops the      *)
(* caller's future.                                                        *)
(***************************************************************************)
EXTENDS Integers, Sequences, FiniteSets

CONSTANTS Requests,     \* the requests that call PhpWorkerPool::execute
          NumWorkers    \* the number of pinned threads

ASSUME RequestsFinite == IsFiniteSet(Requests)

\* PhpWorkerPool::new uses workers.max(1).
ASSUME NumWorkersPositive == NumWorkers \in Nat \ {0}

Workers == 0 .. NumWorkers - 1

VARIABLES
  idle,      \* idle_workers: the stack of idle workers, top last
  permits,   \* available_workers: permits not handed out
  caller,    \* where each request is in execute()
  mailbox,   \* the jobs sent to each worker and not yet received
  pc,        \* where each worker thread is in its loop
  job        \* the request whose task the worker has last taken

pool == <<idle, permits, caller, mailbox, pc, job>>

CallerStates ==
  {"new", "waiting", "granted", "sent", "inline", "done", "failed", "gone"}

WorkerStates == {"recv", "running", "pushed", "released", "dead"}

NoJob == "none"

Granted == {r \in Requests : caller[r] = "granted"}
Dead    == {w \in Workers : pc[w] = "dead"}
Pushed  == {w \in Workers : pc[w] = "pushed"}

\* The workers on the idle stack.
IdleSet == {idle[i] : i \in 1 .. Len(idle)}
-----------------------------------------------------------------------------
\* PhpWorkerPool::new: every worker idle, worker 0 on top of the stack.
PoolInit ==
  /\ idle = [i \in 1 .. NumWorkers |-> NumWorkers - i]
  /\ permits = NumWorkers
  /\ caller = [r \in Requests |-> "new"]
  /\ mailbox = [w \in Workers |-> <<>>]
  /\ pc = [w \in Workers |-> "recv"]
  /\ job = [w \in Workers |-> NoJob]

-----------------------------------------------------------------------------
(***************************************************************************)
(* Faulty variants of the steps below, against which the properties are    *)
(* tried.                                                                  *)
(***************************************************************************)
\* The worker does not return to the stack (idle.lock() failed).
PushIdleSkipped(w) ==
  /\ pc[w] = "running"
  /\ pc' = [pc EXCEPT ![w] = "pushed"]
  /\ UNCHANGED <<idle, permits, caller, mailbox, job>>

\* A panicking worker returns itself to the stack while unwinding.
PanicPushesIdle(w) ==
  /\ pc[w] = "running"
  /\ idle' = Append(idle, w)
  /\ permits' = permits + 1
  /\ caller' = [caller EXCEPT ![job[w]] = IF @ = "sent" THEN "failed" ELSE @]
  /\ pc' = [pc EXCEPT ![w] = "dead"]
  /\ job' = [job EXCEPT ![w] = NoJob]
  /\ UNCHANGED mailbox

\* A panicking worker takes its permit with it.
PanicForgetsPermit(w) ==
  /\ pc[w] = "running"
  /\ caller' = [caller EXCEPT ![job[w]] = IF @ = "sent" THEN "failed" ELSE @]
  /\ pc' = [pc EXCEPT ![w] = "dead"]
  /\ job' = [job EXCEPT ![w] = NoJob]
  /\ UNCHANGED <<idle, permits, mailbox>>
-----------------------------------------------------------------------------
\* execute(): the call, up to the await on the semaphore.
Execute(r) ==
  /\ caller[r] = "new"
  /\ caller' = [caller EXCEPT ![r] = "waiting"]
  /\ UNCHANGED <<idle, permits, mailbox, pc, job>>

\* acquire_owned().await returns a permit.
Acquire(r) ==
  /\ caller[r] = "waiting"
  /\ permits > 0
  /\ permits' = permits - 1
  /\ caller' = [caller EXCEPT ![r] = "granted"]
  /\ UNCHANGED <<idle, mailbox, pc, job>>

\* idle.pop() finds a worker, and the job is sent with its permit.  The
\* receiver of a popped worker is alive (IdleWorkersReceive), so send()
\* succeeds: its Err branch is not reachable.
DispatchTo(r, w) ==
  /\ caller[r] = "granted"
  /\ idle # <<>>
  /\ w = idle[Len(idle)]
  /\ idle' = SubSeq(idle, 1, Len(idle) - 1)
  /\ mailbox' = [mailbox EXCEPT ![w] = Append(@, r)]
  /\ caller' = [caller EXCEPT ![r] = "sent"]
  /\ UNCHANGED <<permits, pc, job>>

\* idle.pop() finds no worker: the permit is dropped and the caller's own
\* thread runs the job (run_inline).
DispatchInline(r) ==
  /\ caller[r] = "granted"
  /\ idle = <<>>
  /\ permits' = permits + 1
  /\ caller' = [caller EXCEPT ![r] = "inline"]
  /\ UNCHANGED <<idle, mailbox, pc, job>>

\* run_inline() returns the job's result, or the job panics in the caller.
InlineEnd(r, outcome) ==
  /\ caller[r] = "inline"
  /\ caller' = [caller EXCEPT ![r] = outcome]
  /\ UNCHANGED <<idle, permits, mailbox, pc, job>>

\* The caller's future is dropped at one of its two await points.  A job
\* already sent stays with its worker.
Abandon(r) ==
  /\ caller[r] \in {"waiting", "sent"}
  /\ caller' = [caller EXCEPT ![r] = "gone"]
  /\ UNCHANGED <<idle, permits, mailbox, pc, job>>
-----------------------------------------------------------------------------
\* The worker thread: receiver.recv().
Receive(w) ==
  /\ pc[w] = "recv"
  /\ mailbox[w] # <<>>
  /\ job' = [job EXCEPT ![w] = Head(mailbox[w])]
  /\ mailbox' = [mailbox EXCEPT ![w] = Tail(@)]
  /\ pc' = [pc EXCEPT ![w] = "running"]
  /\ UNCHANGED <<idle, permits, caller>>

\* task() has returned; idle.push(worker).
PushIdle(w) ==
  /\ pc[w] = "running"
  /\ idle' = Append(idle, w)
  /\ pc' = [pc EXCEPT ![w] = "pushed"]
  /\ UNCHANGED <<permits, caller, mailbox, job>>

\* drop(permit).
DropPermit(w) ==
  /\ pc[w] = "pushed"
  /\ permits' = permits + 1
  /\ pc' = [pc EXCEPT ![w] = "released"]
  /\ UNCHANGED <<idle, caller, mailbox, job>>

\* The reply reaches a caller that still awaits it.
Answered(r, outcome) ==
  [caller EXCEPT ![r] = IF @ = "sent" THEN outcome ELSE @]

\* completion(): send the reply, then loop.
Complete(w) ==
  /\ pc[w] = "released"
  /\ caller' = Answered(job[w], "done")
  /\ pc' = [pc EXCEPT ![w] = "recv"]
  /\ job' = [job EXCEPT ![w] = NoJob]
  /\ UNCHANGED <<idle, permits, mailbox>>

\* task() panics: the thread unwinds, releasing the permit and dropping the
\* reply sender, on which the caller's expect() fails.
Panic(w) ==
  /\ pc[w] = "running"
  /\ permits' = permits + 1
  /\ caller' = Answered(job[w], "failed")
  /\ pc' = [pc EXCEPT ![w] = "dead"]
  /\ job' = [job EXCEPT ![w] = NoJob]
  /\ UNCHANGED <<idle, mailbox>>

CallerStep(r) ==
  \/ Execute(r)
  \/ Acquire(r)
  \/ \E w \in Workers : DispatchTo(r, w)
  \/ DispatchInline(r)
  \/ \E outcome \in {"done", "failed"} : InlineEnd(r, outcome)
  \/ Abandon(r)

WorkerLoop(w) ==
  \/ Receive(w)
  \/ PushIdle(w)
  \/ DropPermit(w)
  \/ Complete(w)
  \/ Panic(w)

PoolNext == (\E r \in Requests : CallerStep(r)) \/ (\E w \in Workers : WorkerLoop(w))

PoolSpec == PoolInit /\ [][PoolNext]_pool

(***************************************************************************)
(* Worker threads and request tasks are scheduled, PHP jobs end (by        *)
(* returning or by panicking), and tokio's semaphore serves its waiters in *)
(* order, so a waiter to whom a permit is available again and again gets   *)
(* one.  Nothing makes a client call or disconnect, or a task panic.       *)
(***************************************************************************)
PoolFairness ==
  /\ \A r \in Requests :
       /\ SF_pool(Acquire(r))
       /\ WF_pool((\E w \in Workers : DispatchTo(r, w)) \/ DispatchInline(r))
       /\ WF_pool(InlineEnd(r, "done"))
  /\ \A w \in Workers :
       WF_pool(Receive(w) \/ PushIdle(w) \/ DropPermit(w) \/ Complete(w))

PoolFairSpec == PoolSpec /\ PoolFairness
-----------------------------------------------------------------------------
\* The variables have the types of the Rust fields.
PoolTypeOK ==
  /\ idle \in Seq(Workers)
  /\ permits \in Nat
  /\ caller \in [Requests -> CallerStates]
  /\ mailbox \in [Workers -> Seq(Requests)]
  /\ pc \in [Workers -> WorkerStates]
  /\ job \in [Workers -> Requests \cup {NoJob}]

\* No worker is on the idle stack twice.
IdleDistinct ==
  \A i, j \in 1 .. Len(idle) : idle[i] = idle[j] => i = j

\* A worker found on the idle stack will receive what it is sent: its thread
\* is alive and no other job is queued for it.  The Err branch of send() in
\* execute(), which forgets a permit, is therefore never taken.
IdleWorkersReceive ==
  \A w \in IdleSet : pc[w] \notin {"running", "dead"} /\ mailbox[w] = <<>>

\* A worker that is not idle has exactly one job, queued or running, so no
\* two requests ever share a worker and none waits behind another.
OneJobPerBusyWorker ==
  \A w \in Workers \ IdleSet :
    IF pc[w] \in {"running", "dead"} THEN mailbox[w] = <<>>
                                     ELSE Len(mailbox[w]) = 1

\* The stack and the semaphore agree: an idle or lost worker stands for each
\* permit that is free, that a caller holds before its pop, or that a worker
\* holds after its push.
PermitsMatchWorkers ==
  Len(idle) + Cardinality(Dead) =
    permits + Cardinality(Granted) + Cardinality(Pushed)

\* A request runs outside the pool only when a worker has been lost: the
\* fallback of execute() is never taken by a healthy pool, however callers,
\* workers and disconnects interleave.
InlineOnlyWhenDegraded ==
  Dead = {} => \A r \in Requests : caller[r] # "inline"

\* No reply is lost: while a caller awaits one, its job is in the channel of a
\* live worker or that worker is at it, and completion() or the unwinding of a
\* panic answers it.
RepliesAreOwed ==
  \A r \in Requests :
    caller[r] = "sent" =>
      \E w \in Workers :
        \/ pc[w] # "dead" /\ \E i \in 1 .. Len(mailbox[w]) : mailbox[w][i] = r
        \/ pc[w] \in {"running", "pushed", "released"} /\ job[w] = r

\* Every request that calls execute() gets an answer or goes away.
EveryCallReturns ==
  \A r \in Requests :
    caller[r] = "waiting" ~> caller[r] \in {"done", "failed", "gone"}
=============================================================================
