---------------------------- MODULE ScriptCache ----------------------------
(***************************************************************************)
(* The server's compiled-script cache: CompiledScriptCache of              *)
(* crates/php_executor/src/cache.rs.  One shard; paths are canonical, and  *)
(* all requests compile at the server's one optimization level.            *)
(*                                                                         *)
(* A file's version stands both for its metadata (length and modification  *)
(* time) and for its source: an edit changes both.  An entry's key holds   *)
(* the metadata and the source its request read, which may be of different *)
(* versions.  The passing of check_interval is the action Expire.          *)
(***************************************************************************)
EXTENDS Integers, FiniteSets, Functions

CONSTANTS Requests,    \* requests, each for one script
          Paths,       \* script files of the shard
          MaxVersion,  \* bound on the edits of a file
          MaxEntries,  \* max_entries_per_shard
          Windowed,    \* check_interval > 0
          CounterSpan, \* stats.entries counts modulo this (2^64)
          Clears       \* whether the cache-clear endpoint is enabled

ASSUME ScriptCacheConstants ==
  /\ MaxVersion \in Nat
  /\ MaxEntries \in Nat \ {0}
  /\ Windowed \in BOOLEAN /\ Clears \in BOOLEAN
  /\ CounterSpan \in Nat /\ CounterSpan > MaxEntries
  /\ "noscript" \notin Paths

VARIABLES
  last, file,     \* as in FreshScripts
  since, script,
  answer,
  pc,             \* where the request is in get_or_compile_script_with
  meta,           \* the version whose metadata it read
  src,            \* the version whose source it read
  shard,          \* the entries: a map from keys to their access_tick
  fresh,          \* the keys checked less than check_interval ago
  clock,          \* access_clock
  count,          \* stats.entries
  inProgress,     \* CompileLockShard.in_progress
  clearing        \* clear() has emptied the shard and not reset the counter

files == <<last, file>>
cache == <<shard, fresh, clock, count, inProgress, clearing>>
vars == <<last, file, since, script, answer, pc, meta, src, shard, fresh, clock, count,
          inProgress, clearing>>

NoScript == "noscript"
Failed == -1
Versions == 0 .. MaxVersion
EntryKeys == [path : Paths, meta : Versions, src : Versions]
Empty == [k \in {} |-> 0]

Init ==
  /\ last = [p \in Paths |-> 0] /\ file = [p \in Paths |-> 0]
  /\ since = [r \in Requests |-> 0]
  /\ script = [r \in Requests |-> NoScript]
  /\ answer = [r \in Requests |-> 0]
  /\ pc = [r \in Requests |-> "idle"]
  /\ meta = [r \in Requests |-> 0] /\ src = [r \in Requests |-> 0]
  /\ shard = Empty /\ fresh = {} /\ clock = 0 /\ count = 0
  /\ inProgress = {} /\ clearing = FALSE

Entries == DOMAIN shard
Go(r, step) == pc' = [pc EXCEPT ![r] = step]
Reply(r, v) == answer' = [answer EXCEPT ![r] = v]
-----------------------------------------------------------------------------
(***************************************************************************)
(* Faulty variants of the steps below, against which the properties are    *)
(* tried.                                                                  *)
(***************************************************************************)
\* The key takes the file's metadata as it is now, not as it was read.
KeyNow(r) == [path |-> script[r], meta |-> file[script[r]], src |-> src[r]]

\* A lookup accepts an entry with older metadata.
MatchesOlder(k, r) == k.path = script[r] /\ k.meta <= meta[r]

\* A request does not ask whether another compiles the script.
MayCompileAlways(r) == TRUE

\* A dropped permit leaves the guard when the compilation failed.
GuardsKept(r) == IF answer[r] = Failed THEN inProgress ELSE inProgress \ {script[r]}

-----------------------------------------------------------------------------
(***************************************************************************)
(* The shard.                                                              *)
(***************************************************************************)
Key(r) == [path |-> script[r], meta |-> meta[r], src |-> src[r]]

\* key.matches_metadata.
Matches(k, r) == k.path = script[r] /\ k.meta = meta[r]

\* remove_stale_path_entries.
Stale(r) == {k \in Entries : k.path = script[r] /\ k # Key(r)}

\* The entries insert_compiled keeps when it evicts the least recently used
\* ones until there is room for one more.
Room ==
  {k \in Entries : Cardinality({j \in Entries : shard[j] > shard[k]}) < MaxEntries - 1}

\* stats.entries when the entries of a set are gone, and with one more.
Dropped(gone) == (count - Cardinality(gone)) % CounterSpan
Added(n) == (n + 1) % CounterSpan

\* The shard has the entries of a set, and k with a new tick.
Used(keys, k) ==
  /\ shard' = [j \in keys \cup {k} |-> IF j = k THEN clock + 1 ELSE shard[j]]
  /\ clock' = clock + 1
Kept(keys) == shard' = Restrict(shard, keys) /\ UNCHANGED clock
-----------------------------------------------------------------------------
(***************************************************************************)
(* A request: get_or_compile_script_with.                                  *)
(***************************************************************************)
Ask(r, p) ==
  /\ pc[r] = "idle"
  /\ Go(r, "probe")
  /\ script' = [script EXCEPT ![r] = p]
  /\ since' = [since EXCEPT ![r] = IF file[p] = 0 THEN last[p] + 1 ELSE file[p]]
  /\ UNCHANGED <<files, answer, meta, src, cache>>

\* lookup_fresh_by_path: an entry inside its check interval is served without
\* a look at the file.
Unchecked(r) == {k \in fresh : Windowed /\ k.path = script[r]}

FreshHit(r) ==
  /\ pc[r] \in {"probe", "loop"}
  /\ \E k \in Unchecked(r) : Used(Entries, k) /\ Reply(r, k.src)
  /\ Go(r, "done")
  /\ UNCHANGED <<files, since, script, meta, src, fresh, count, inProgress, clearing>>

FreshMiss(r) ==
  /\ pc[r] \in {"probe", "loop"} /\ Unchecked(r) = {}
  /\ Go(r, IF pc[r] = "probe" THEN "canonicalize" ELSE "stat")
  /\ UNCHANGED <<files, since, script, answer, meta, src, cache>>

\* canonicalize, read_script_metadata and read_script_source fail for a file
\* that is missing.
Missing(r) ==
  /\ pc[r] \in {"canonicalize", "stat", "source"} /\ file[script[r]] = 0
  /\ Reply(r, Failed) /\ Go(r, "done")
  /\ UNCHANGED <<files, since, script, meta, src, cache>>

Canonicalize(r) ==
  /\ pc[r] = "canonicalize" /\ file[script[r]] # 0
  /\ Go(r, "loop")
  /\ UNCHANGED <<files, since, script, answer, meta, src, cache>>

ReadMetadata(r) ==
  /\ pc[r] = "stat" /\ file[script[r]] # 0
  /\ meta' = [meta EXCEPT ![r] = file[script[r]]]
  /\ Go(r, "bymeta")
  /\ UNCHANGED <<files, since, script, answer, src, cache>>

\* lookup_by_metadata: entries of the path with other metadata are dropped.
LookupByMetadata(r) ==
  LET gone == {k \in Entries : k.path = script[r] /\ ~Matches(k, r)}
      kept == Entries \ gone
  IN /\ pc[r] = "bymeta"
     /\ count' = Dropped(gone)
     /\ \/ \E k \in kept :
             /\ Matches(k, r)
             /\ Used(kept, k) /\ fresh' = (fresh \ gone) \cup {k}
             /\ Reply(r, k.src) /\ Go(r, "done")
        \/ /\ \A k \in kept : ~Matches(k, r)
           /\ Kept(kept) /\ fresh' = fresh \ gone
           /\ Go(r, "source") /\ UNCHANGED answer
     /\ UNCHANGED <<files, since, script, meta, src, inProgress, clearing>>

ReadSource(r) ==
  /\ pc[r] = "source" /\ file[script[r]] # 0
  /\ src' = [src EXCEPT ![r] = file[script[r]]]
  /\ Go(r, "exact")
  /\ UNCHANGED <<files, since, script, answer, meta, cache>>

\* lookup_exact, before the guard is taken and again under it: the other
\* entries of the path are dropped.
ExactHit(r) ==
  /\ pc[r] \in {"exact", "guarded"} /\ Key(r) \in Entries
  /\ count' = Dropped(Stale(r))
  /\ Used(Entries \ Stale(r), Key(r))
  /\ fresh' = (fresh \ Stale(r)) \cup {Key(r)}
  /\ Reply(r, src[r])
  /\ Go(r, IF pc[r] = "exact" THEN "done" ELSE "release")
  /\ UNCHANGED <<files, since, script, meta, src, inProgress, clearing>>

ExactMiss(r) ==
  /\ pc[r] \in {"exact", "guarded"} /\ Key(r) \notin Entries
  /\ count' = Dropped(Stale(r))
  /\ Kept(Entries \ Stale(r)) /\ fresh' = fresh \ Stale(r)
  /\ Go(r, IF pc[r] = "exact" THEN "begin" ELSE "compile")
  /\ UNCHANGED <<files, since, script, answer, meta, src, inProgress, clearing>>

\* try_begin_compile takes the path's guard.
MayCompile(r) == script[r] \notin inProgress

BeginCompile(r) ==
  /\ pc[r] = "begin" /\ MayCompile(r)
  /\ inProgress' = inProgress \cup {script[r]}
  /\ Go(r, "guarded")
  /\ UNCHANGED <<files, since, script, answer, meta, src, shard, fresh, clock, count, clearing>>

\* It is refused, and the request sleeps in wait_for_compile.
CompileRefused(r) ==
  /\ pc[r] = "begin" /\ ~MayCompile(r)
  /\ Go(r, "wait")
  /\ UNCHANGED <<files, since, script, answer, meta, src, cache>>

\* The guard is free again: the request starts over.
StartOver(r) ==
  /\ pc[r] = "wait" /\ MayCompile(r)
  /\ Go(r, "loop")
  /\ UNCHANGED <<files, since, script, answer, meta, src, cache>>

\* The compiler accepts the source; or it refuses it or panics.
Compiled(r) ==
  /\ pc[r] = "compile"
  /\ Go(r, "insert")
  /\ UNCHANGED <<files, since, script, answer, meta, src, cache>>

CompileFailed(r) ==
  /\ pc[r] = "compile"
  /\ Reply(r, Failed) /\ Go(r, "release")
  /\ UNCHANGED <<files, since, script, meta, src, cache>>

InsertCompiled(r) ==
  /\ pc[r] = "insert"
  /\ IF Key(r) \in Entries
       THEN Used(Entries, Key(r)) /\ fresh' = fresh \cup {Key(r)} /\ UNCHANGED count
       ELSE /\ Used(Room, Key(r))
            /\ fresh' = (fresh \cap Room) \cup {Key(r)}
            /\ count' = Added(Dropped(Entries \ Room))
  /\ Reply(r, src[r]) /\ Go(r, "release")
  /\ UNCHANGED <<files, since, script, meta, src, inProgress, clearing>>

\* The guards left by CompilePermit::drop.
Guards(r) == inProgress \ {script[r]}

DropPermit(r) ==
  /\ pc[r] = "release"
  /\ inProgress' = Guards(r)
  /\ Go(r, "done")
  /\ UNCHANGED <<files, since, script, answer, meta, src, shard, fresh, clock, count, clearing>>
-----------------------------------------------------------------------------
(***************************************************************************)
(* The file system, the clock and the cache-clear endpoint.                *)
(***************************************************************************)
Edit(p) ==
  /\ last[p] < MaxVersion
  /\ last' = [last EXCEPT ![p] = @ + 1]
  /\ file' = [file EXCEPT ![p] = last[p] + 1]
  /\ UNCHANGED <<since, script, answer, pc, meta, src, cache>>

Delete(p) ==
  /\ file[p] # 0
  /\ file' = [file EXCEPT ![p] = 0]
  /\ UNCHANGED <<last, since, script, answer, pc, meta, src, cache>>

\* check_interval has passed since an entry was checked.
Expire(k) ==
  /\ Windowed /\ k \in fresh
  /\ fresh' = fresh \ {k}
  /\ UNCHANGED <<files, since, script, answer, pc, meta, src, shard, clock, count, inProgress,
                 clearing>>

\* clear() empties the shards and then resets the counter.
ClearShard ==
  /\ Clears /\ ~clearing
  /\ shard' = Empty /\ fresh' = {} /\ clearing' = TRUE
  /\ UNCHANGED <<files, since, script, answer, pc, meta, src, clock, count, inProgress>>

ResetCount ==
  /\ clearing
  /\ count' = 0 /\ clearing' = FALSE
  /\ UNCHANGED <<files, since, script, answer, pc, meta, src, shard, fresh, clock, inProgress>>

RequestStep(r) ==
  \/ FreshHit(r) \/ FreshMiss(r) \/ Missing(r) \/ Canonicalize(r) \/ ReadMetadata(r)
  \/ LookupByMetadata(r) \/ ReadSource(r) \/ ExactHit(r) \/ ExactMiss(r)
  \/ BeginCompile(r) \/ CompileRefused(r) \/ StartOver(r)
  \/ Compiled(r) \/ CompileFailed(r) \/ InsertCompiled(r) \/ DropPermit(r)

Next ==
  \/ \E r \in Requests : RequestStep(r) \/ \E p \in Paths : Ask(r, p)
  \/ \E p \in Paths : Edit(p) \/ Delete(p)
  \/ \E k \in fresh : Expire(k)
  \/ ClearShard \/ ResetCount

Spec == Init /\ [][Next]_vars

\* A request thread goes on.
Fairness == \A r \in Requests : WF_vars(RequestStep(r))
FairSpec == Spec /\ Fairness
-----------------------------------------------------------------------------
PcSteps == {"idle", "probe", "canonicalize", "loop", "stat", "bymeta", "source", "exact",
            "begin", "wait", "guarded", "compile", "insert", "release", "done"}
Compiling(r) == pc[r] \in {"guarded", "compile", "insert", "release"}

\* The shard, the guards, the counter and the lookups have the types of the
\* Rust fields.
TypeOK ==
  /\ last \in [Paths -> Versions] /\ file \in [Paths -> Versions]
  /\ since \in [Requests -> 0 .. MaxVersion + 1]
  /\ script \in [Requests -> Paths \cup {NoScript}]
  /\ answer \in [Requests -> Versions \cup {Failed}]
  /\ pc \in [Requests -> PcSteps]
  /\ meta \in [Requests -> Versions] /\ src \in [Requests -> Versions]
  /\ Entries \subseteq EntryKeys /\ shard \in [Entries -> 1 .. clock] /\ clock \in Nat
  /\ fresh \subseteq Entries
  /\ count \in 0 .. CounterSpan - 1
  /\ inProgress \subseteq Paths /\ clearing \in BOOLEAN

\* Only one request at a time compiles a script, and the guard is held by
\* exactly the scripts being compiled: none is left behind by a compile error,
\* a panic or a hit under the guard.
OneCompilePerPath ==
  /\ \A r, q \in Requests : Compiling(r) /\ Compiling(q) /\ script[r] = script[q] => r = q
  /\ inProgress = {script[r] : r \in {q \in Requests : Compiling(q)}}

\* The cache never holds two versions of one script, although lookups,
\* evictions and clears run between the last look under the guard and the
\* insertion.
OneEntryPerPath == \A k, j \in Entries : k.path = j.path => k = j

\* An entry's source is never older than the metadata it is validated by: a
\* file that is edited while it is being read does not leave an entry that
\* serves the old source under the new metadata.
EntriesAreNotStale == \A k \in Entries : k.meta <= k.src /\ k.src <= last[k.path]

\* The shard stays within max_entries, although an insertion finds it changed
\* since the lookup under the guard.
ShardIsBounded == Cardinality(Entries) <= MaxEntries

\* Without clear() the counter of stats() is the number of entries.
CountIsExact == Clears \/ count = Cardinality(Entries)

\* What the cache promises, over the same files and requests.
Fresh == INSTANCE FreshScripts

\* The cache is invisible: every request gets a version its file had while the
\* request ran ("the cache checks file metadata on every lookup so local
\* development sees edits immediately"), except where the entry was checked less
\* than check_interval ago and the file is not looked at.  Without a check
\* interval there is no exception.
ServesFreshScripts ==
  /\ Fresh!Init
  /\ [][Fresh!Next \/ \E r \in Requests : FreshHit(r)]_<<last, file, since, script, answer>>

\* A request that has started gets its script or an error, however many
\* others compile, fail and edit.
RequestsEnd == \A r \in Requests : (pc[r] # "idle") ~> (pc[r] = "done")
=============================================================================
