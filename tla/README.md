# A TLA+ verification of phrust's server core

phrust is a PHP engine in Rust: a front end, a native (Cranelift) back end, a
runtime library and an HTTP server. These modules model the parts of it that
several threads, requests or processes share, as the code under `crates/` implements them.
TLC checks them on small instances; TLAPS proves the main properties for every
number of requests, workers, keys and every limit. `PROJECT.json` maps each
definition to its source lines and lists runs, mutants, hazards and theorems.

## The system and its parts

A request is **admitted** (a semaphore), its body is read, an optional built-in
router runs, the entry script is looked up in the **compiled-script cache**, a
**CPU permit** is taken, and the request core runs on a pinned thread of the
**PHP worker pool**: it seeds the **session** from the cookie, runs the native
code and finalizes the session into the store. Files the script includes come
from the **include cache**. Native code comes from a **compile-record cache**
behind a process-wide **compile limiter**, or from the **persistent native
cache** that processes share on disk. Functions that are entered often are handed
to the **background optimizing thread**. The **code manager** owns compiled code,
evicts it, and publishes addresses in the cells that generated calls read.

| part | shared state | operations | what makes it hard | properties |
|---|---|---|---|---|
| worker pool | idle stack, semaphore, one channel per worker | execute, the worker loop | panics lose a worker, callers are dropped | every permit stands for a worker; no healthy pool runs inline |
| request pipeline | in-flight and CPU semaphores, upload files | admit, read, route, queue, dispatch, finalize | timeouts, panics and disconnects at each await | permits conserved, PHP bounded, files removed |
| script cache | shard, compile guards, counter | lookups, compile, insert, clear | files change between the steps of a lookup | the cache is invisible |
| compile cache, limiter | flights, LRU, failures, queue counters | get_or_compile, acquire, release | condition variable with two classes of sleepers | single flight, exact counters, no lost wakeup |
| tiering | counters, reservations, pending and running jobs | count, claim, submit, run | a claim and its job are several critical sections of three locks | both budgets, one job per function |
| code manager | claims, generations of code, function cells | claim, compile, publish, fail, evict | cells hold raw addresses of code that eviction frees | an address always leads to live code |
| persistent native cache | artifact, lock and temporary files | load, lock, compile, rename, clear | processes and the host crash between any two file operations | an artifact is whole or absent; locks of the dead are reaped |
| include cache | resolutions, entries, lookup index, compile permits | resolve, lookup, validate, compile, insert, invalidate, clear | five maps with a lock each; a unit depends on several files | the cache is invisible, one compilation for callers that meet |
| sessions | bounded store | start, write, close, abort, destroy, finalize | calls in any order, requests in parallel | sessions do not mix |

The other parts (runtime values, library, front end, tools) are listed with
their reasons in `PROJECT.json`. The core modelled here is a small share of the
repository's lines: most of the code is a compiler and a library of PHP
functions, whose correctness is that of a translation or of single functions.

## Modules

Each component has a module and an `MC` module for TLC. Seven modules hold the
proofs: the worker pool's are with the request pipeline's, which is built on it,
and those of the persistent cache with the script cache's. An eighth,
RecencyLists, holds lemmas that three of them share. Every component's module contains, before the step each alters, a few faulty variants of its steps,
against which the properties are tested.

**WorkerPool** (`worker_pool.rs`). `idle`, `permits`, `mailbox` are the stack,
the semaphore and the channels; `caller` and `pc` are the positions in `execute`
and in the worker's loop. Push, drop of the permit and reply are three actions.
`Panic` ends a worker: the permit returns, the worker does not.

**RequestPipeline** (`serve.rs`, `php_request.rs`, `request_pipeline.rs`)
extends WorkerPool and takes its steps together with those of the handlers. The
server makes one worker per CPU permit, so `CpuLimit` is `NumWorkers`. `stage` is
the handler, `phase` the job; a handler that is dropped releases what it owns and
its job runs on. The pool alone is `PoolSpec`.

**ScriptCache** (`php_executor/src/cache.rs`). One shard. A file's version
stands for its metadata and its source; a request reads them in two steps, so an
entry's key may hold two versions. The compile guard, eviction, the check
interval (`Expire`) and `clear()` in its two halves are actions. **FreshScripts**
is the promise: a request gets a version its file had while the request ran.

**NativeCompileCache** (`native_compile_cache.rs`). Each action is one critical
section of the cache or the limiter. `notified` is the set of sleepers that were
woken and have not looked yet.

**NativeTiering** (`vm/mod.rs`). Each action is one critical section of the
tiering state or the scheduler, or one test of the compile cache, whose content
is abstracted to a set of keys that may change at any time. A decision tests it
inside the lock of the tiering state (`Decide`), a claim before it (`Probe`,
`Claim`). `Panic` ends the thread: the rest of its batch is dropped by the
unwinding, the pending jobs stay where they are, and neither runs.

**CodeManager** (`php_jit/src/code_manager.rs` and the cells of
`native_linkage.rs`). Each action is one critical section of the manager's mutex,
or what a thread does between two. A call claims its key, awaits the compiler
permit, compiles into its generation, and publishes or fails; eviction and the
replacement of a full generation happen inside those sections. An address is
abstracted to its generation, so an address of freed code is visible.

**NativeDiskCache** (`php_jit/src/native_cache.rs`). The files of one artifact;
each action is one file operation of one process. `Crash` ends a process wherever
it is, `HostCrash` all of them and may lose or damage the artifact (the file is
not synced), `Age` lets a lock without an owner record grow a second old, `Clear`
removes files one by one. Reads fail (`Find`, `LockFails`: an artifact or a lock
that cannot be opened, read or mapped) and writes fail (`Compile`, `WriteTemp`,
`RecordFails`: a lock file without its record, which stays). Inside a process one load runs at a time, under the
write lock of `LoadedNativeUnitRegistry`, so a process is one actor.

**IncludeCache** (`php_vm/src/include/`). `resolution` and `negative` are the
resolution cache, `entries` and `index` the two maps of the compiled cache,
`permit` the compile coordinator. A call resolves the path, looks for an entry in
its window, reads the file (or trusts an immutable root), looks the entry up,
checks its dependency, and else compiles under the permit. Every lock and every
file access is an action of its own, except that `Resolve` and `Negative` compare
the copy of an entry with the file in one step and `Probe` installs what it found;
in the code the copy is taken, or the entry installed, a moment apart from the look
at the file.

**WebSessions** (`sessions.rs`, `session_store.rs`, `session.rs`, the session
handlers of `exact_call_dispatch.rs`). A payload is the id under which it was
written, so a payload in the wrong session is visible. Handlers that return
`ABI_MISMATCH` end the script, and so does a start that cannot load its session
(`StartFails`); it has refreshed the entry by then. A payload that cannot be
serialized is not saved (`FinalizeFails`).

**RecencyLists** has the lemmas about lists ordered by last use, which three of
the components keep.

## Runs

| run | instance | shows |
|---|---|---|
| worker_pool | 4 requests, 2 workers | more callers than workers, both workers can be lost; every call returns |
| request_pipeline | 3 requests, 2 in flight, 2 CPU permits | permits are conserved over the composed pool, uploads removed, every request ends |
| native_compile_cache | 4 threads, one in the background, 4 keys, 1 permit, queue of 2, 2 records | full queues, eviction, joins, panics |
| native_compile_cache_live | 3 threads, 3 keys, no panics | calls drain, no deadlock |
| web_sessions | 3 requests, 1 client id, 2 generated ids, store of 2 | the third session evicts; a request that starts no session at most refreshes the one it loaded |
| native_tiering | 2 requests, 2 functions, 2 compilations, time budget of 1 with jobs of up to 2, batches of 1 | budgets run out during jobs, panics; no pending job starves |
| script_cache | 2 requests, 2 files, 2 versions, a shard of one entry, check interval, clears | every answer outside the interval is one FreshScripts allows; eviction and clears race lookups; every request ends |
| code_manager | 3 threads, 4 calls, 3 pieces of code of one function, a limit two of them reach, generations of one, queue of 1 | no cell holds an address of freed code; refusals, failures and panics leave nobody waiting |
| native_disk_cache | 3 processes with a call each, every fault | no partly written file has the artifact's name; without faults one compilation; every call ends without its timeout, unless a live process left its record behind |
| include_cache | 3 calls of 2 workers, 1 change of a file, 1 clear; checked files, one or both immutable, or an interval | units are made of current files; one compilation; every call ends |

Larger batches, thresholds and time budgets of the tiering are covered by its
theorems, which hold for every value. In `include_cache` the run with an interval
has no clear, to stay small; an interval excuses stale units but not a false
"missing". Immutable files change only while no call runs and are followed by a
clear, which is what the operator promises. In `native_disk_cache` a new process
is another member of `Processes`, and a process identifier is not reused. A record
is written or not; one with some digits of a process identifier is left out. A
process that wrote its record and then failed to write the newline returns an
error and leaves a lock that names it: while it lives, the others wait for
`LOCK_TIMEOUT`, the exception of `CallsEnd`.

The bounds let each limit be reached and exceeded by one: a second owner, a
third session, a full queue, an edit between any two reads. Symmetry is used
only by `native_compile_cache` and `web_sessions`, which check no liveness. Deadlock is not checked where requests are finite and the system
stops when they are done; `native_compile_cache_live` checks it.

### Runs that find a disagreement

These two runs end in a counterexample; `PROJECT.json` quotes the lines.

- `session_write_close_doc`: a session closed by the script is not saved.
- `scheduled_jobs_doc`: a function can stay scheduled with no job: it is claimed
  after its job ended and before the worker released its key.

More disagreements show in the actions of the models and have no run:

- `CpuTimeout`: the request timeout also ends the wait for a CPU permit
  (`php_request.rs:1046`), while `docs/server-functionality.md:110` says it "only
  bounds request body reads".
- `RouterEnd`: the built-in router executes PHP in the handler
  (`php_request.rs:949`), while the comment at line 1089 says that callers are
  worker threads or the pool's inline path.
- `StartActive`, `DestroyInactive`, `ReplaceId`, `RegenerateId`: in a web request
  these session calls end the script (`exact_call_dispatch.rs:2706` and
  neighbours); `docs/phpt/modules/session.md:57,76,86-87` describes notices,
  warnings and support.
- `Stat` of NativeDiskCache: a process that sees a lock without an owner record,
  which is gone when `fs::metadata` looks at it (`native_cache.rs:2070`), fails
  with an I/O error instead of trying again, and its caller reports
  `E_NATIVE_CACHE_ARTIFACT`. No fault is needed for this: an owner that takes the
  lock and is done before the other looks again is enough.
  `docs/runtime/cache-architecture.md:148-149` says "Programs must run correctly when the cache is disabled, empty, corrupt, or
  stale."
- `StartFails`: `save` puts no limit on a payload, `load` decodes at most 1,048,576
  bytes (`session_store.rs:159`). A larger session is stored, and every later
  `session_start()` of its client ends the script with a runtime error.
- `SessionDestroy` followed by `SessionStart`: the start clears the mark, so
  finalization (`sessions.rs:46`) deletes nothing and the destroyed session stays
  in the store.
- `FreshHit`: the server's default check interval is two seconds
  (`php_server/src/config.rs:28`), and a hit inside it may be stale, the one
  exception of ServesFreshScripts, while
  `docs/server-functionality.md:163-164` says that by default metadata is checked
  on every lookup.
- `Window` and `Resolve` of IncludeCache: the server's include cache serves hits
  without a look at the file for two seconds by default
  (`php_server/src/server.rs:364-366`), and trusts the files under an immutable
  root as long as their path leads to them, while
  `docs/performance/include-path-cache.md:30-34` says that mutable deployments
  validate and hash the bytes "before every compiled hit" and that immutable ones
  use metadata-only hits "only while deployment-root, parent-directory, and
  reliable file-generation guards remain current".
- `TakePublished`: an optimizing lookup falls back to tier "baseline"
  (`code_manager.rs:1212`), which no key carries: the tiers are "generic" and
  "optimizing". The comment of `published_function_exact` (line 1227) speaks of a
  fallback to "a baseline publication"; it finds none.
- `ResetCount`: `clear()` stores 0 after it has released the shards
  (`php_executor/src/cache.rs:337`); an entry inserted in between is not counted
  and its removal takes the counter below zero.

## Fairness

Weak fairness for threads and tasks that can go on: the operating system and the
async runtime schedule them. Scripts and compilations are assumed to end. Strong
fairness only for taking a permit, since tokio's semaphores serve waiters in
order. No fairness for arrivals, panics, disconnects, timeouts of a queue or a
lock, crashes, edits, clears or spurious wakeups. In NativeDiskCache time passes
(`Age`). In IncludeCache the calls are finite: a waiter is not served in order,
and endless calls whose compilations fail could overtake it. `native_compile_cache_live` leaves panics
out, since a panic leaves the waiters of its key behind; `PendingJobsRun` makes an
exception for a panic, which ends the only optimizing thread.

## Proofs

The assumptions are those in the modules: finite sets of requests, threads,
functions or keys where something is counted, limits at least one where the code ensures
it, and special names that are no members of the sets.

- **RequestPipelineProofs**: each step moves at most one owner of a semaphore
  (`Moves`). Where the owner is depends on the job, so `Local` records where a
  closure can be: with its caller, in one channel, or started. The second half is
  about the pool alone, `PoolSpec`: `PoolInv` adds to the properties that a worker
  is idle, busy with one job, or lost, and the count of idle and lost workers
  against permits shows that a permit without an idle worker means a lost one.
  `NoReplyIsLost` adds that a caller's job is with a live worker. `ServerRunsPool`
  is the refinement `Spec => PoolSpec`: each step of the server is one of the pool
  or leaves it alone, so the pool's properties hold inside the server
  (`ServerKeepsPoolPromises`). Two action properties say what a step never does:
  a job that has started, returned or was dropped is not started again
  (`JobsRunOnce`), and a handler that has ended stays so (`AnswersAreFinal`).
- **NativeCompileCacheProofs**: `SingleFlight` needs `FlightOwner`: the thread
  that compiles is the one `in_flight` names. The counters are counted like the
  semaphores; `WakeupPending` is inductive with them. `ForegroundFirst` is an
  action property: a background thread is granted a permit only when the counter
  of queued foreground threads is zero, and the counter is exact.
  `WaitersHaveOwner` holds of the specification without panics, from the same
  invariant and from what a waiter's flight may be doing.
- **WebSessionsProofs**: `Clean` and `Announced` say what a session may hold
  before it is finalized, from which the store's properties follow. What a request
  does to the store before a start has succeeded is an action property: it stores and
  removes nothing, and may refresh only the entry its cookie names, because until
  then the session has kept that id (`StartedFirst`).
  `GeneratedIdsArePrivate`: a generated id has one user until a response announces
  it, from which no other request can read or overwrite its payload; it needs that
  the ids in use were generated or can be made up by a client (`IdInv`).
- **NativeTieringProofs**: a job that ends turns its reservation into a compiled
  function; it still has one because of `OneJobPerKey`. `scheduled_jobs_doc` shows
  that a reservation can lose its job; two theorems say how bad that is. It
  happens only when the compiler panics, which takes with it all that is in the
  batch or pending, when a job is submitted after that, or when a key is submitted
  while the worker still marks it as running though its job has ended
  (`LossesHaveCause`), and it is never undone (`LossesAreForGood`), because a
  function is claimed only if it is not scheduled.
- **ScriptCacheProofs**: what a request has read is no older than its start, and
  its source no older than its metadata (`RequestInv`). With `EntriesAreNotStale`
  every answer is a step of FreshScripts, if there is no check interval.
  `ShardIsBounded` needs that ticks tell entries apart (`TicksDiffer`): eviction
  of the least recently used entries then leaves room for exactly one. Along with
  it, the counter of entries is exact while nobody clears (`CountIsExact`).
  The last part is about the persistent cache of native code, `DiskSpec`.
  `ArtifactsAreWhole` needs only that a file about to be renamed is not half
  written (`FilesOK`), which every fault keeps. `CompiledOnce` needs `Serial`:
  while nothing has gone wrong, the lock file belongs to the one process between
  `acquire_lock` and its rename until there is an artifact (`Unpublished`), and
  nobody compiles afterwards (`Published`). What goes wrong includes a read that
  fails on a valid artifact, which is then quarantined and compiled again. That the
  lock may then be taken from its holder by a late `Drop` does no harm, because the holder looks for the
  artifact before it compiles. `LocksHaveOwner` is an action property: a process
  that goes on leaves its lock file behind only by failing to write its record, for
  which there is no guard yet; every other lock file's owner will drop it or is dead,
  and then the lock is reaped.
- **CodeManagerProofs**: `ManagerInv` ties each address in a cell to the
  publication of the same function and tier (`LinkOK`), whose generation is owned.
  A cell in use by a call stays in the map (`OwnOK`), and the keys being compiled
  are those of distinct calls (`CallOK`). `LinkOK` survives eviction of any set of
  generations, so the proof need not know how many are taken. `CodeIsBounded`
  needs `BoundOK`: bytes are counted when a compilation ends, long after its claim
  was tested, so the invariant adds to the bytes that are live the code of every
  key that was admitted and is not compiled yet. A step that adds no owner, code or
  claim keeps it; an accepted claim restores it from the test, because the
  generation it takes is active and therefore listed and not evicted
  (`ActiveOK`); a compilation moves its size from one sum to the other, because
  no two calls compile one key. What a sum does when a member comes or goes is
  proved by induction over the size of the set. The library's induction theorems
  cannot be used, so `NumbersInduction` takes a set of numbers in place of a
  predicate and follows from the least member of its complement.
- **IncludeCacheProofs** has two invariants. For `IncludesCompileOnce`, `OnceInv`
  says that while no file has changed every call works on the same key, and that a
  compilation, once counted, is on its way into `entries` with its permit held or
  is there (`Still`). For `ServesCurrentFiles`, `CurrentInv` bounds from below what
  a call has read by what its files were when it began (`CallOK`), and says what
  the shared maps may hold for files that are checked, immutable, or changed and
  not yet cleared (`SharedOK`). An immutable root is trusted without reading, so
  there the entries themselves must be current. `PermitHolderRuns`
  follows from the first.

The persistent cache is proved for any set of process names without the name
`"none"`, which stands for no owner. Each proof module also proves the types it
needs, so the runs leave `TypeOK` out.

Every safety property of a run has a theorem. Liveness, which the prover does not
handle, is checked by TLC only:
`EveryCallReturns`, `EveryRequestEnds`, `CallsDrain`, `PendingJobsRun`,
`RequestsEnd`, `CallsReturn`, `CallsEnd` and `IncludesEnd`.
What could keep a call waiting for ever is proved where it is a safety property,
namely that whatever it waits for is held by someone who can still release it
(or, for a key of the code manager, by a call that panicked, the exception
`CallsReturn` makes too):

| waits for | liveness (TLC) | no one waits in vain (theorem) |
|---|---|---|
| the reply of a worker | `EveryCallReturns` | `RepliesAreOwed` |
| a CPU or in-flight permit | `EveryRequestEnds` | `CpuPermitsConserved`, `InFlightConserved` |
| a compilation in flight | `CallsDrain` | `WaitersHaveOwner`, `WakeupPending` |
| a claimed key of the code manager | `CallsReturn` | `ClaimsHaveOwner` |
| the lock file | `CallsEnd` | `LocksHaveOwner` |
| the include permit | `IncludesEnd` | `PermitHolderRuns` |

The properties that a theorem states and no run lists (`RepliesAreOwed`,
`JobsRunOnce`, `AnswersAreFinal`, `ClaimsHaveOwner`, `PermitHolderRuns`,
`ShardIsBounded`, `CountIsExact`, `LocksHaveOwner`, `LossesHaveCause`,
`LossesAreForGood`, `GeneratedIdsArePrivate`) are definitions of the component
modules; a cfg of the same component can name them.

## Not modelled

- Contents of headers, bodies, routes, metrics and logs; the encoding of session
  payloads, artifacts and keys; the store's ttl, which the server does not set;
  the failure of adding the Set-Cookie header after the session is saved.
- Edits that keep a file's length and modification time (script cache); symbolic
  links that change during a lookup; Composer's metadata files, which are read to
  fingerprint a deployment; a file that changes during three reads in a row; phar
  archives.
- The byte count of the persistent cache's directory: a reservation may be
  refused at any time, and a count that drifts shows only as more refusals.
- `LoadedNativeUnitRegistry` and `ResolvedNativeEntryCache`, lookup tables under
  one lock; the publication cells of optimized entries, single atomic words; the
  exit of the process under running jobs.
- `DynamicCodeCompileOnce`, which only its own tests use.
- What is sequential within a request: values, arrays, objects, fibers,
  generators, output buffers, inline caches. There is no second actor and no
  fault between their steps, and the repository compares them with PHP.
- Lexer, parser, semantics, IR, optimizer and the Cranelift lowering:
  translations, whose correctness is a statement about all programs.
