---------------------------- MODULE CodeManager ----------------------------
(***************************************************************************)
(* CraneliftCodeManager (crates/php_jit/src/code_manager.rs) and the       *)
(* indirection cells of crates/php_jit/src/cranelift_lowering/             *)
(* native_linkage.rs.                                                      *)
(*                                                                         *)
(* Machine code lives in generations.  A generation's memory is freed when *)
(* nothing refers to it: not the manager's list, a cached handle, a        *)
(* publication, a call in progress or a handle some caller kept.  Each PHP *)
(* function has a cell with the raw address of its generic and of its      *)
(* optimized code; the address keeps nothing alive, so eviction has to     *)
(* clear it before the generation goes.                                    *)
(*                                                                         *)
(* Each action is one critical section of the manager's mutex, or what a   *)
(* thread does between two of them.  An address is abstracted to its       *)
(* generation (0: null).  The compiler permit admits one thread, whatever  *)
(* its cost tokens, which only count beside another active compilation.    *)
(***************************************************************************)
EXTENDS Integers, Sequences, FiniteSets, FiniteSetsExt

CONSTANTS Threads,
          Functions,        \* NativeFunctionCellIdentity
          Keys,             \* CraneliftCodeKey: one specialization
          Root,             \* the function a key's caller asks for
          Entries,          \* the functions whose entries its code contains
          Tier,             \* its compiler_tier
          Mode,             \* its regalloc_mode_for_admission
          Size,             \* the bytes of its code
          CodeLimit,        \* code_limit
          GenerationLimit,  \* generation_limit
          MaxQueue,         \* DEFAULT_MAX_COMPILE_QUEUE
          MaxCalls          \* bound: calls made in a behaviour

Tiers == {"generic", "optimizing"}
Modes == {"fast", "quality"}

\* Optimizing work is allocated for quality, request-critical work by its
\* size; new() uses max(1).
ASSUME KeysAssumption ==
  /\ "none" \notin Keys
  /\ Root \in [Keys -> Functions]
  /\ Entries \in [Keys -> SUBSET Functions]
  /\ Tier \in [Keys -> Tiers]
  /\ Mode \in [Keys -> Modes]
  /\ Size \in [Keys -> Nat]
  /\ \A k \in Keys : Tier[k] = "optimizing" => Mode[k] = "quality"

\* A process runs a finite program.
ASSUME KeysAreFinite == IsFiniteSet(Keys)

ASSUME LimitsAssumption ==
  /\ CodeLimit \in Nat \ {0}
  /\ GenerationLimit \in 1 .. CodeLimit
  /\ MaxQueue \in Nat \ {0}
  /\ MaxCalls \in Nat

VARIABLES
  pc,           \* where each thread is in compile_once_with_scratch_admission
  key,          \* the key of its call (NoKey: none)
  gen,          \* the generation its call holds (0: none)
  own,          \* whether the cell its call holds is still in function_cells
  held,         \* the generations whose handles some caller keeps
  calls,        \* calls made so far
  bytes,        \* the code in each generation; its length is the last id
  generations,  \* ManagerState.generations, in the order of their ids
  active,       \* active_fast and active_quality
  cache,        \* cache: the generation of each key's handle
  pub,          \* function_publications, by function and tier
  cell,         \* function_cells
  compiling,    \* compiling
  failures,     \* compile_failures
  poisoned      \* generations whose compiler mutex is poisoned

code == <<bytes, generations, active, cache, pub, poisoned>>
vars == <<pc, key, gen, own, held, calls, code, cell, compiling, failures>>

NoKey == "none"
NoCell == [state |-> "none", target |-> [r \in Tiers |-> 0]]

CellStates == {"none", "declared", "queued", "compiling", "published", "failed", "retired"}

\* A call is at "lookup" also while it waits on state_changed for another
\* thread that compiles its key: whoever removes a key from compiling notifies
\* every waiter under the same lock.
Places == {"idle", "lookup", "admit", "queued", "compiling", "publish",
           "mark", "clear", "dead"}

Init ==
  /\ pc = [t \in Threads |-> "idle"]
  /\ key = [t \in Threads |-> NoKey]
  /\ gen = [t \in Threads |-> 0]
  /\ own = [t \in Threads |-> FALSE]
  /\ held = {}
  /\ calls = 0
  /\ bytes = <<0, 0>>
  /\ generations = {1, 2}
  /\ active = [m \in Modes |-> IF m = "fast" THEN 1 ELSE 2]
  /\ cache = [k \in Keys |-> 0]
  /\ pub = [f \in Functions |-> [r \in Tiers |-> 0]]
  /\ cell = [f \in Functions |-> NoCell]
  /\ compiling = {}
  /\ failures = {}
  /\ poisoned = {}
-----------------------------------------------------------------------------
\* Every generation some Arc still owns, for given maps of the manager.
Owned(list, handles, pubs) ==
  (list \cup {handles[k] : k \in Keys}
     \cup {pubs[f][r] : f \in Functions, r \in Tiers}
     \cup {gen[t] : t \in Threads} \cup held) \ {0}

\* The counts w of the members of S together.
SumOf(w, S) == MapThenSumSet(LAMBDA x : w[x], S)

\* bytes_live: what Drop for CodeGeneration has not subtracted.  A generation
\* that is just being created has no code yet.
BytesLive(list, handles, pubs) ==
  SumOf(bytes, Owned(list, handles, pubs) \cap DOMAIN bytes)

\* cache.retain and the removals from function_publications.
Without(handles, E) == [k \in Keys |-> IF handles[k] \in E THEN 0 ELSE handles[k]]
WithoutPubs(pubs, E) ==
  [f \in Functions |-> [r \in Tiers |-> IF pubs[f][r] \in E THEN 0 ELSE pubs[f][r]]]

\* The retired generations that evict_retired_generations removes: the oldest
\* ones, until enough memory is really free or none is left.
Evicted(list, act, handles, pubs) ==
  LET idle == {g \in list : \A m \in Modes : act[m] # g}
      UpTo(n) == {g \in idle : g <= n}
      Enough(n) ==
        \/ UpTo(n) = idle
        \/ BytesLive(list \ UpTo(n), Without(handles, UpTo(n)),
                     WithoutPubs(pubs, UpTo(n))) < CodeLimit
  IN UpTo(Min({n \in {0} \cup idle : Enough(n)}))

\* Variant: only the state changes and the address stays in the cell.
RetireStates(c, R) == [c EXCEPT !.state = "retired"]

\* retire_tier for the tiers of one cell that are evicted.
RetireTiers(c, R) ==
  LET left == [r \in Tiers |-> IF r \in R THEN 0 ELSE c.target[r]]
  IN [state |-> IF \A r \in Tiers : left[r] = 0 THEN "retired" ELSE c.state,
      target |-> left]

\* Variant: the cell goes with the first publication of its function.
EvictWholeCells(cells, pubs, E) ==
  [f \in Functions |->
     IF \E r \in Tiers : pubs[f][r] \in E THEN NoCell ELSE cells[f]]

\* What eviction does to the cells: evicted tiers are cleared, and a cell with
\* no publication left is removed and retired.
EvictCells(cells, pubs, E) ==
  [f \in Functions |->
     LET R == {r \in Tiers : pubs[f][r] \in E}
     IN IF R = {} THEN cells[f]
        ELSE IF \A r \in Tiers \ R : pubs[f][r] = 0 THEN NoCell
        ELSE RetireTiers(cells[f], R)]

\* A call whose cell was removed keeps an object nobody else can find.
StillOwn(cells) == [t \in Threads |-> own[t] /\ cells[Root[key[t]]] # NoCell]

\* function_cells.entry().or_insert_with().
Cell(f) == IF cell[f] = NoCell THEN [NoCell EXCEPT !.state = "declared"] ELSE cell[f]
-----------------------------------------------------------------------------
\* declare_function_cells.
Declare(f) ==
  /\ cell[f] = NoCell
  /\ cell' = [cell EXCEPT ![f] = Cell(f)]
  /\ UNCHANGED <<pc, key, gen, own, held, calls, code, compiling, failures>>

Call(t, k) ==
  /\ pc[t] = "idle"
  /\ calls < MaxCalls
  /\ calls' = calls + 1
  /\ pc' = [pc EXCEPT ![t] = "lookup"]
  /\ key' = [key EXCEPT ![t] = k]
  /\ UNCHANGED <<gen, own, held, code, cell, compiling, failures>>

\* The call ends, its Arcs are dropped and the caller gets handles of H.
Return(t, H) ==
  /\ pc' = [pc EXCEPT ![t] = "idle"]
  /\ key' = [key EXCEPT ![t] = NoKey]
  /\ gen' = [gen EXCEPT ![t] = 0]
  /\ held' = held \cup H
  /\ UNCHANGED calls

Disown(t) == own' = [own EXCEPT ![t] = FALSE]

Hit(t) ==
  /\ pc[t] = "lookup"
  /\ cache[key[t]] # 0
  /\ Return(t, {cache[key[t]]})
  /\ UNCHANGED <<own, code, cell, compiling, failures>>

FailedBefore(t) ==
  /\ pc[t] = "lookup"
  /\ cache[key[t]] = 0
  /\ key[t] \in failures
  /\ Return(t, {})
  /\ UNCHANGED <<own, code, cell, compiling, failures>>

\* Variant: the limit is tested against the code of each generation.
OverLimitPerGeneration(list, handles, pubs) ==
  \E g \in list : bytes[g] >= CodeLimit

\* live >= self.code_limit.
OverLimit(list, handles, pubs) == BytesLive(list, handles, pubs) >= CodeLimit

\* A miss: the key is claimed, its cell queued and old generations evicted.
\* If that frees too little the claim is undone (CodeLimit).
Claim(t) ==
  /\ pc[t] = "lookup"
  /\ cache[key[t]] = 0
  /\ key[t] \notin failures \cup compiling
  /\ LET f == Root[key[t]]
         E == Evicted(generations, active, cache, pub)
         queued == [cell EXCEPT ![f] = [Cell(f) EXCEPT !.state = "queued"]]
         left == EvictCells(queued, pub, E)
     IN /\ generations' = generations \ E
        /\ cache' = Without(cache, E)
        /\ pub' = WithoutPubs(pub, E)
        /\ IF OverLimit(generations \ E, Without(cache, E), WithoutPubs(pub, E))
             THEN /\ cell' = IF left[f] = NoCell THEN left
                             ELSE [left EXCEPT ![f].state = "declared"]
                  /\ own' = StillOwn(left)
                  /\ Return(t, {})
                  /\ UNCHANGED compiling
             ELSE /\ cell' = left
                  /\ own' = [StillOwn(left) EXCEPT ![t] = left[f] # NoCell]
                  /\ gen' = [gen EXCEPT ![t] = active[Mode[key[t]]]]
                  /\ compiling' = compiling \cup {key[t]}
                  /\ pc' = [pc EXCEPT ![t] = "admit"]
                  /\ UNCHANGED <<key, held, calls>>
  /\ UNCHANGED <<bytes, active, poisoned, failures>>
-----------------------------------------------------------------------------
\* acquire_compiler: NativeCompilePriority orders the waiting calls; a new
\* call takes a free permit at once.
Busy == \E t \in Threads : pc[t] = "compiling"
Queued == {t \in Threads : pc[t] = "queued"}
Critical(t) == Tier[key[t]] = "generic"

\* A store of the thread's own cell outside the manager's lock.
Mark(t, state) ==
  cell' = IF own[t] THEN [cell EXCEPT ![Root[key[t]]].state = state] ELSE cell

Acquire(t) ==
  /\ pc[t] = "admit"
  /\ ~Busy
  /\ pc' = [pc EXCEPT ![t] = "compiling"]
  /\ Mark(t, "compiling")
  /\ UNCHANGED <<key, gen, own, held, calls, code, compiling, failures>>

Enqueue(t) ==
  /\ pc[t] = "admit"
  /\ Busy
  /\ Cardinality(Queued) < MaxQueue
  /\ pc' = [pc EXCEPT ![t] = "queued"]
  /\ UNCHANGED <<key, gen, own, held, calls, code, cell, compiling, failures>>

\* Variant: CompileQueueFull returns and leaves the key claimed.
QueueFullClaimed(t) ==
  /\ pc[t] = "admit"
  /\ Busy
  /\ Cardinality(Queued) >= MaxQueue
  /\ Mark(t, "declared")
  /\ Return(t, {}) /\ Disown(t)
  /\ UNCHANGED <<code, compiling, failures>>

\* CompileQueueFull: the cell is declared again and the claim undone.
QueueFull(t) ==
  /\ pc[t] = "admit"
  /\ Busy
  /\ Cardinality(Queued) >= MaxQueue
  /\ Mark(t, "declared")
  /\ compiling' = compiling \ {key[t]}
  /\ Return(t, {}) /\ Disown(t)
  /\ UNCHANGED <<code, failures>>

LeaveQueue(t) ==
  /\ pc[t] = "queued"
  /\ ~Busy
  /\ Critical(t) \/ \A u \in Queued : ~Critical(u)
  /\ pc' = [pc EXCEPT ![t] = "compiling"]
  /\ Mark(t, "compiling")
  /\ UNCHANGED <<key, gen, own, held, calls, code, compiling, failures>>
-----------------------------------------------------------------------------
\* compile() succeeds: the permit is dropped and the bytes are counted.
CompileSucceeds(t) ==
  /\ pc[t] = "compiling"
  /\ gen[t] \notin poisoned
  /\ bytes' = [bytes EXCEPT ![gen[t]] = @ + Size[key[t]]]
  /\ pc' = [pc EXCEPT ![t] = "publish"]
  /\ UNCHANGED <<key, gen, own, held, calls, generations, active, cache, pub, poisoned,
                 cell, compiling, failures>>

\* compile() is refused, or the generation's mutex is poisoned: the permit is
\* dropped and the failure recorded under the lock.  Nobody tells these two
\* apart: other calls for the key wait until the second.
CompileFails(t) ==
  /\ pc[t] = "compiling"
  /\ compiling' = compiling \ {key[t]}
  /\ failures' = failures \cup {key[t]}
  /\ pc' = [pc EXCEPT ![t] = "mark"]
  /\ UNCHANGED <<key, gen, own, held, calls, code, cell>>

\* compile() panics: permit and Arcs are dropped by the unwinding, the mutex is
\* poisoned, and the key stays in compiling.
CompilePanics(t) ==
  /\ pc[t] = "compiling"
  /\ gen[t] \notin poisoned
  /\ poisoned' = poisoned \cup {gen[t]}
  /\ pc' = [pc EXCEPT ![t] = "dead"]
  /\ gen' = [gen EXCEPT ![t] = 0]
  /\ Disown(t)
  /\ UNCHANGED <<key, held, calls, bytes, generations, active, cache, pub, cell, compiling, failures>>

\* After it mark_failed stores the state and then the targets.
MarkFailed(t) ==
  /\ pc[t] = "mark"
  /\ Mark(t, "failed")
  /\ pc' = [pc EXCEPT ![t] = "clear"]
  /\ UNCHANGED <<key, gen, own, held, calls, code, compiling, failures>>

ClearTargets(t) ==
  /\ pc[t] = "clear"
  /\ cell' = IF own[t] THEN [cell EXCEPT ![Root[key[t]]].target = [r \in Tiers |-> 0]]
                       ELSE cell
  /\ Return(t, {}) /\ Disown(t)
  /\ UNCHANGED <<code, compiling, failures>>

\* publish_function_entries: the cell of every entry gets its address.
PublishCells(k, g) ==
  [f \in Functions |->
     IF f \in Entries[k]
       THEN [state |-> "published", target |-> [cell[f].target EXCEPT ![Tier[k]] = g]]
       ELSE cell[f]]

PublishPubs(k, g) ==
  [f \in Functions |-> IF f \in Entries[k] THEN [pub[f] EXCEPT ![Tier[k]] = g] ELSE pub[f]]

\* The result is published, a full active generation is replaced by a new one
\* (which may fail to get its arena), old ones are evicted, and the caller gets
\* the handle.
Publish(t) ==
  /\ pc[t] = "publish"
  /\ LET k == key[t]
         g == gen[t]
         handles == [cache EXCEPT ![k] = g]
         pubs == PublishPubs(k, g)
         cells == PublishCells(k, g)
         full == active[Mode[k]] = g /\ bytes[g] >= GenerationLimit
     IN /\ compiling' = compiling \ {k}
        /\ failures' = failures \ {k}
        /\ Return(t, {g})
        /\ \/ /\ full
              /\ LET list == generations \cup {Len(bytes) + 1}
                     act == [active EXCEPT ![Mode[k]] = Len(bytes) + 1]
                     E == Evicted(list, act, handles, pubs)
                 IN /\ bytes' = Append(bytes, 0)
                    /\ active' = act
                    /\ generations' = list \ E
                    /\ cache' = Without(handles, E)
                    /\ pub' = WithoutPubs(pubs, E)
                    /\ cell' = EvictCells(cells, pubs, E)
                    /\ own' = [StillOwn(cell') EXCEPT ![t] = FALSE]
           \/ /\ cache' = handles
              /\ pub' = pubs
              /\ cell' = cells
              /\ own' = [own EXCEPT ![t] = FALSE]
              /\ UNCHANGED <<bytes, active, generations>>
  /\ UNCHANGED poisoned
-----------------------------------------------------------------------------
\* published_function, for a caller that uses the handle if the cell resolves:
\* the handle of the tier it asks for.  (For an optimizing lookup the code falls
\* back to tier "baseline", which no key carries.)
TakePublished(f) ==
  /\ cell[f].state = "published"
  /\ \E r \in Tiers : cell[f].target[r] # 0
  /\ \E r \in Tiers : pub[f][r] # 0 /\ held' = held \cup {pub[f][r]}
  /\ UNCHANGED <<pc, key, gen, own, calls, code, cell, compiling, failures>>

\* The last handle of a generation is dropped.
DropHandle(g) ==
  /\ held' = held \ {g}
  /\ UNCHANGED <<pc, key, gen, own, calls, code, cell, compiling, failures>>

CallStep(t) ==
  \/ Hit(t) \/ FailedBefore(t) \/ Claim(t)
  \/ Acquire(t) \/ Enqueue(t) \/ QueueFull(t) \/ LeaveQueue(t)
  \/ CompileSucceeds(t) \/ CompileFails(t)
  \/ MarkFailed(t) \/ ClearTargets(t) \/ Publish(t)

Next ==
  \/ \E t \in Threads : CallStep(t) \/ CompilePanics(t) \/ \E k \in Keys : Call(t, k)
  \/ \E f \in Functions : Declare(f) \/ TakePublished(f)
  \/ \E g \in held : DropHandle(g)

Spec == Init /\ [][Next]_vars

\* Threads are scheduled and compilations end: a call that can take a CallStep
\* takes one, and each of them moves its pc.
CanStep(t) ==
  \/ pc[t] = "lookup" /\ (cache[key[t]] # 0 \/ key[t] \in failures \/ key[t] \notin compiling)
  \/ pc[t] = "queued" /\ ~Busy /\ (Critical(t) \/ \A u \in Queued : ~Critical(u))
  \/ pc[t] \in {"admit", "compiling", "publish", "mark", "clear"}

Moves(t) == CanStep(t) /\ \E place \in Places \ {pc[t]} : pc' = [pc EXCEPT ![t] = place]

FairSpec == Spec /\ \A t \in Threads : WF_pc(Moves(t))
-----------------------------------------------------------------------------
\* The fields have the types of the Rust structures.
TypeOK ==
  /\ pc \in [Threads -> Places]
  /\ key \in [Threads -> Keys \cup {NoKey}]
  /\ gen \in [Threads -> Nat]
  /\ own \in [Threads -> BOOLEAN]
  /\ held \subseteq Nat
  /\ calls \in Nat
  /\ bytes \in Seq(Nat)
  /\ generations \subseteq Nat
  /\ active \in [Modes -> Nat]
  /\ cache \in [Keys -> Nat]
  /\ pub \in [Functions -> [Tiers -> Nat]]
  /\ cell \in [Functions -> [state : CellStates, target : [Tiers -> Nat]]]
  /\ compiling \subseteq Keys
  /\ failures \subseteq Keys
  /\ poisoned \subseteq Nat

\* "Clears live addresses before the owning code generation can retire": the
\* memory behind every address in a cell is still allocated, whatever is
\* evicted, fails or is compiled for the other tier meanwhile.
TargetsAreLive ==
  \A f \in Functions, r \in Tiers :
    cell[f].target[r] # 0 => cell[f].target[r] \in Owned(generations, cache, pub)

\* A function whose code the manager publishes has a cell, so that
\* published_function finds it although the other tier's code was evicted.
PublicationsHaveCells ==
  \A f \in Functions, r \in Tiers : pub[f][r] # 0 => cell[f] # NoCell

\* Two calls never compile one key at a time (compile_once_with_scratch_admission
\* "Compiles and publishes exactly once for `key`").
Compilers == {t \in Threads : pc[t] \in {"admit", "queued", "compiling", "publish"}}
OneCompilePerKey ==
  \A t, u \in Compilers : key[t] = key[u] => t = u

\* A key is in compiling exactly while a call compiles it or after that call
\* panicked: no early return leaves a claim behind, so that who waits on
\* state_changed waits for a call that will end, or for one that panicked.
Claimants == Compilers \cup {t \in Threads : pc[t] = "dead"}
ClaimsHaveOwner ==
  /\ compiling = {key[t] : t \in Claimants}
  /\ \A t, u \in Claimants : key[t] = key[u] => t = u

\* Executable memory is bounded: whatever handles callers keep, the code beyond
\* the limit is at most that of calls which passed the test together, and those
\* compile different keys.
CodeIsBounded ==
  BytesLive(generations, cache, pub) < CodeLimit + SumOf(Size, Keys)

\* Every call ends, unless the compilation of its key, or its own, panicked.
CallsReturn ==
  \A t \in Threads :
    pc[t] = "lookup" ~>
      \/ pc[t] \in {"idle", "dead"}
      \/ \E u \in Threads : pc[u] = "dead" /\ key[u] = key[t]
=============================================================================
