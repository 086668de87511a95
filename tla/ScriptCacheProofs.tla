------------------------- MODULE ScriptCacheProofs -------------------------
(***************************************************************************)
(* ScriptCache: one compilation per script at a time, entries that are     *)
(* never older than the metadata they are validated by, one entry per      *)
(* script, the refinement of FreshScripts outside the check interval, and  *)
(* the size of a shard, for which the ticks of its entries have to differ. *)
(* The last part is about NativeDiskCache, the code that processes keep on *)
(* disk.                                                                   *)
(***************************************************************************)
EXTENDS ScriptCache, NativeDiskCache, FiniteSetTheorems, TLAPS

\* Types, and that only an idle request has no script.
Typed ==
  /\ TypeOK
  /\ IsFiniteSet(Entries)
  /\ \A r \in Requests : pc[r] = "idle" <=> script[r] = NoScript

\* The oldest version a lookup that starts now may see.
Oldest(p) == IF file[p] = 0 THEN last[p] + 1 ELSE file[p]

FileInv == \A p \in Paths : file[p] <= last[p]

\* What a request has read is not older than its start, and its source is not
\* older than its metadata.
ReadSteps == {"bymeta", "source", "exact", "begin", "wait", "guarded", "compile", "insert"}
SourceSteps == {"exact", "begin", "wait", "guarded", "compile", "insert"}

RequestInv(r) ==
  /\ pc[r] \notin {"release", "done"} => answer[r] = 0
  /\ pc[r] # "idle" => 1 <= since[r] /\ since[r] <= Oldest(script[r])
  /\ pc[r] \in ReadSteps => since[r] <= meta[r] /\ meta[r] <= Oldest(script[r])
  /\ pc[r] \in SourceSteps => meta[r] <= src[r] /\ src[r] <= last[script[r]]

ScriptInv ==
  /\ Typed
  /\ FileInv
  /\ \A r \in Requests : RequestInv(r)
  /\ EntriesAreNotStale
  /\ OneCompilePerPath
-----------------------------------------------------------------------------
\* A counter modulo its span stays below it.
LEMMA Wraps == ASSUME NEW n \in Int PROVE n % CounterSpan \in 0 .. CounterSpan - 1
<1>1. CounterSpan \in Nat /\ CounterSpan > 0
  BY ScriptCacheConstants
<1>2. ASSUME NEW s \in Nat, s > 0 PROVE n % s \in 0 .. s - 1
  BY <1>2
<1> QED
  BY <1>1, <1>2, Zenon

\* stats.entries stays a counter when entries are dropped and added.
LEMMA Counts ==
  ASSUME TypeOK, IsFiniteSet(Entries), NEW gone, gone \subseteq Entries
  PROVE  /\ Dropped(gone) \in 0 .. CounterSpan - 1
         /\ Added(Dropped(gone)) \in 0 .. CounterSpan - 1
<1>1. Cardinality(gone) \in Nat
  BY FS_Subset, FS_CardinalityType
<1>2. count \in Int
  BY DEF TypeOK
<1>3. count - Cardinality(gone) \in Int
  BY <1>1, <1>2
<1>4. Dropped(gone) \in 0 .. CounterSpan - 1
  BY <1>3, Wraps, Zenon DEF Dropped
<1>5. Dropped(gone) + 1 \in Int
  BY <1>4, ScriptCacheConstants
<1> QED
  BY <1>4, <1>5, Wraps, Zenon DEF Added

\* The entries after a hit or an insertion, and after entries were dropped.
LEMMA UsedEntries ==
  ASSUME TypeOK, IsFiniteSet(Entries), NEW keys, keys \subseteq Entries, NEW k \in EntryKeys,
         Used(keys, k)
  PROVE  /\ Entries' = keys \cup {k} /\ Entries' \subseteq EntryKeys /\ IsFiniteSet(Entries')
         /\ clock' \in Nat /\ shard' \in [Entries' -> 1 .. clock']
<1>1. Entries' = keys \cup {k}
  BY DEF Used, Entries
<1>2. IsFiniteSet(keys \cup {k})
  BY FS_Subset, FS_AddElement, Zenon
<1>3. clock' = clock + 1 /\ clock \in Nat /\ Entries \subseteq EntryKeys
  BY DEF Used, TypeOK
<1>4. \A j \in Entries : shard[j] \in 1 .. clock
  BY DEF TypeOK
<1>5. shard' = [j \in keys \cup {k} |-> IF j = k THEN clock + 1 ELSE shard[j]]
  BY DEF Used
<1>6. \A j \in keys \cup {k} : (IF j = k THEN clock + 1 ELSE shard[j]) \in 1 .. clock + 1
  <2> TAKE j \in keys \cup {k}
  <2>1. CASE j = k
    BY <2>1, <1>3
  <2>2. CASE j # k
    <3>1. shard[j] \in 1 .. clock
      BY <2>2, <1>4
    <3> QED
      BY <2>2, <3>1, <1>3
  <2> QED
    BY <2>1, <2>2
<1>7. shard' \in [keys \cup {k} -> 1 .. clock + 1]
  BY <1>5, <1>6
<1> QED
  BY <1>1, <1>2, <1>3, <1>7

\* Keeping some of the entries, as an eviction or invalidation does, gives a
\* shard of typed entries.
LEMMA KeptEntries ==
  ASSUME TypeOK, IsFiniteSet(Entries), NEW keys, keys \subseteq Entries, Kept(keys)
  PROVE  /\ Entries' = keys /\ Entries' \subseteq EntryKeys /\ IsFiniteSet(Entries')
         /\ clock' \in Nat /\ shard' \in [Entries' -> 1 .. clock']
<1>1. Entries' = keys
  BY DEF Kept, Entries, Restrict
<1>2. IsFiniteSet(keys)
  BY FS_Subset
<1>3. clock' = clock /\ clock \in Nat /\ Entries \subseteq EntryKeys
  BY DEF Kept, TypeOK
<1>4. \A j \in Entries : shard[j] \in 1 .. clock
  BY DEF TypeOK
<1>5. shard' = [j \in keys |-> shard[j]]
  BY DEF Kept, Restrict
<1> QED
  BY <1>1, <1>2, <1>3, <1>4, <1>5, Zenon
-----------------------------------------------------------------------------
\* The steps of a request.
RequestVars == <<since, script, answer, pc, meta, src>>
RequestTyped ==
  /\ since \in [Requests -> 0 .. MaxVersion + 1]
  /\ script \in [Requests -> Paths \cup {NoScript}]
  /\ answer \in [Requests -> Versions \cup {Failed}]
  /\ pc \in [Requests -> PcSteps]
  /\ meta \in [Requests -> Versions] /\ src \in [Requests -> Versions]
  /\ \A r \in Requests : pc[r] = "idle" <=> script[r] = NoScript

FilesTyped == last \in [Paths -> Versions] /\ file \in [Paths -> Versions]

CacheTyped ==
  /\ Entries \subseteq EntryKeys /\ shard \in [Entries -> 1 .. clock] /\ clock \in Nat
  /\ fresh \subseteq Entries
  /\ count \in 0 .. CounterSpan - 1
  /\ inProgress \subseteq Paths /\ clearing \in BOOLEAN
  /\ IsFiniteSet(Entries)

\* Typed, by the parts of the state.
LEMMA Parts ==
  /\ Typed <=> (FilesTyped /\ RequestTyped /\ CacheTyped)
  /\ Typed' <=> (FilesTyped' /\ RequestTyped' /\ CacheTyped')
BY Zenon DEF Typed, TypeOK, FilesTyped, RequestTyped, CacheTyped

\* A request that runs has a script, and what it read makes a key.
LEMMA Running ==
  ASSUME Typed, NEW r \in Requests, pc[r] # "idle"
  PROVE  script[r] \in Paths /\ Key(r) \in EntryKeys
BY DEF Typed, TypeOK, Key, EntryKeys

\* An empty cache is well typed.
LEMMA TypedInit == Init => Typed
<1> SUFFICES ASSUME Init PROVE Typed
  OBVIOUS
<1>1. Entries = {} /\ IsFiniteSet(Entries)
  BY FS_EmptySet, Zenon DEF Init, Empty, Entries
<1>2. 0 \in Versions /\ 0 \in 0 .. MaxVersion + 1 /\ 0 \in 0 .. CounterSpan - 1
  BY ScriptCacheConstants DEF Versions
<1>3. FilesTyped /\ RequestTyped
  BY <1>2, Zenon DEF Init, FilesTyped, RequestTyped, PcSteps
<1>4. CacheTyped
  BY <1>1, <1>2, Zenon DEF Init, CacheTyped, Empty
<1> QED
  BY <1>3, <1>4, Parts, Zenon

\* A step that leaves the cache and the files alone.
LEMMA TypedQuiet ==
  ASSUME Typed, NEW r \in Requests,
         \/ \E p \in Paths : Ask(r, p)
         \/ FreshMiss(r) \/ Missing(r) \/ Canonicalize(r) \/ ReadMetadata(r) \/ ReadSource(r)
         \/ CompileRefused(r) \/ StartOver(r) \/ Compiled(r) \/ CompileFailed(r)
  PROVE  Typed'
<1>1. UNCHANGED <<files, cache>>
  BY Zenon DEF Ask, FreshMiss, Missing, Canonicalize, ReadMetadata, ReadSource, CompileRefused,
         StartOver, Compiled, CompileFailed
<1>2. FilesTyped' /\ CacheTyped'
  BY <1>1, Parts, Zenon DEF files, cache, FilesTyped, CacheTyped, Entries
<1>3. RequestTyped /\ FilesTyped
  BY Parts
<1>4. ASSUME NEW p \in Paths, Ask(r, p) PROVE RequestTyped'
  <2>1. file[p] \in 0 .. MaxVersion /\ last[p] \in 0 .. MaxVersion /\ MaxVersion \in Nat
    BY <1>3, ScriptCacheConstants DEF FilesTyped, Versions
  <2>2. (IF file[p] = 0 THEN last[p] + 1 ELSE file[p]) \in 0 .. MaxVersion + 1
    BY <2>1
  <2>3. p # NoScript
    BY ScriptCacheConstants DEF NoScript
  <2> QED
    BY <1>3, <1>4, <2>2, <2>3, Zenon DEF Ask, Go, RequestTyped, PcSteps
<1>5. ASSUME FreshMiss(r) \/ Canonicalize(r) \/ CompileRefused(r) \/ StartOver(r) \/ Compiled(r)
      PROVE  RequestTyped'
  BY <1>3, <1>5, Zenon DEF FreshMiss, Canonicalize, CompileRefused, StartOver, Compiled, Go,
                    RequestTyped, PcSteps
<1>6. ASSUME Missing(r) \/ CompileFailed(r) PROVE RequestTyped'
  BY <1>3, <1>6, Zenon DEF Missing, CompileFailed, Go, Reply, RequestTyped, PcSteps
<1>7. ASSUME ReadMetadata(r) \/ ReadSource(r) PROVE RequestTyped'
  <2>1. pc[r] # "idle"
    BY <1>7, Zenon DEF ReadMetadata, ReadSource
  <2>2. file[script[r]] \in Versions
    BY <1>3, <2>1, Running, Zenon DEF FilesTyped
  <2> QED
    BY <1>3, <1>7, <2>2, Zenon DEF ReadMetadata, ReadSource, Go, RequestTyped, PcSteps
<1> QED
  BY <1>2, <1>4, <1>5, <1>6, <1>7, Parts, Zenon

\* A step that serves, stores or drops entries.
LEMMA TypedCache ==
  ASSUME Typed, NEW r \in Requests,
         \/ FreshHit(r) \/ LookupByMetadata(r) \/ ExactHit(r) \/ ExactMiss(r)
         \/ InsertCompiled(r) \/ BeginCompile(r) \/ DropPermit(r)
  PROVE  Typed'
<1> USE Parts
<1>1. pc[r] # "idle"
  BY Zenon DEF FreshHit, LookupByMetadata, ExactHit, ExactMiss, InsertCompiled, BeginCompile, DropPermit
<1>2. script[r] \in Paths /\ Key(r) \in EntryKeys
  BY <1>1, Running
<1>3. UNCHANGED files /\ FilesTyped'
  BY Zenon DEF FreshHit, LookupByMetadata, ExactHit, ExactMiss, InsertCompiled, BeginCompile,
         DropPermit, files, FilesTyped
<1>4. TypeOK /\ IsFiniteSet(Entries) /\ fresh \subseteq Entries /\ Entries \subseteq EntryKeys
  BY Zenon DEF Typed, TypeOK
<1>5. ASSUME FreshHit(r) PROVE Typed'
  <2>1. PICK k \in Unchecked(r) : Used(Entries, k) /\ Reply(r, k.src)
    BY <1>5 DEF FreshHit
  <2>2. k \in Entries /\ k \in EntryKeys /\ k.src \in Versions
    BY <2>1, <1>4, Zenon DEF Unchecked, EntryKeys
  <2>3. /\ Entries' = Entries \cup {k} /\ Entries' \subseteq EntryKeys /\ IsFiniteSet(Entries')
        /\ clock' \in Nat /\ shard' \in [Entries' -> 1 .. clock']
    BY <1>4, <2>1, <2>2, UsedEntries, Zenon
  <2>4. CacheTyped'
    BY <1>5, <2>3, Zenon DEF FreshHit, CacheTyped
  <2>5. RequestTyped'
    BY <1>1, <1>5, <2>1, <2>2, Zenon DEF FreshHit, Go, Reply, RequestTyped, PcSteps
  <2> QED
    BY <1>3, <2>4, <2>5, Zenon
<1>6. ASSUME LookupByMetadata(r) PROVE Typed'
  <2> DEFINE gone == {k \in Entries : k.path = script[r] /\ ~Matches(k, r)}
             kept == Entries \ gone
  <2>1. count' = Dropped(gone) /\ gone \subseteq Entries /\ kept \subseteq Entries
    BY <1>6, Zenon DEF LookupByMetadata
  <2>2. count' \in 0 .. CounterSpan - 1
    BY <1>4, <2>1, Counts, Zenon
  <2>3. UNCHANGED <<since, script, meta, src, inProgress, clearing>>
    BY <1>6, Zenon DEF LookupByMetadata
  <2>4. ASSUME NEW k \in kept, Used(kept, k), fresh' = (fresh \ gone) \cup {k},
               Reply(r, k.src), Go(r, "done")
        PROVE  Typed'
    <3>1. k \in EntryKeys /\ k.src \in Versions
      BY <1>4 DEF EntryKeys
    <3>2. /\ Entries' = kept \cup {k} /\ Entries' \subseteq EntryKeys /\ IsFiniteSet(Entries')
          /\ clock' \in Nat /\ shard' \in [Entries' -> 1 .. clock']
      BY <1>4, <2>1, <2>4, <3>1, UsedEntries, Zenon
    <3>3. CacheTyped'
      BY <1>4, <2>2, <2>3, <2>4, <3>2, Zenon DEF CacheTyped
    <3>4. RequestTyped'
      BY <1>1, <2>3, <2>4, <3>1, Zenon DEF Go, Reply, RequestTyped, PcSteps
    <3> QED
      BY <1>3, <3>3, <3>4, Zenon
  <2>5. ASSUME Kept(kept), fresh' = fresh \ gone, Go(r, "source"), UNCHANGED answer
        PROVE  Typed'
    <3>2. /\ Entries' = kept /\ Entries' \subseteq EntryKeys /\ IsFiniteSet(Entries')
          /\ clock' \in Nat /\ shard' \in [Entries' -> 1 .. clock']
      BY <1>4, <2>1, <2>5, KeptEntries, Zenon
    <3>3. CacheTyped'
      BY <1>4, <2>2, <2>3, <2>5, <3>2, Zenon DEF CacheTyped
    <3>4. RequestTyped'
      BY <1>1, <2>3, <2>5, Zenon DEF Go, RequestTyped, PcSteps
    <3> QED
      BY <1>3, <3>3, <3>4, Zenon
  <2> QED
    BY <1>6, <2>4, <2>5, Zenon DEF LookupByMetadata
<1>7. ASSUME ExactHit(r) PROVE Typed'
  <2>1. Stale(r) \subseteq Entries /\ Entries \ Stale(r) \subseteq Entries
    BY Zenon DEF Stale
  <2>2. /\ Entries' = (Entries \ Stale(r)) \cup {Key(r)} /\ Entries' \subseteq EntryKeys
        /\ IsFiniteSet(Entries') /\ clock' \in Nat /\ shard' \in [Entries' -> 1 .. clock']
    BY <1>2, <1>4, <1>7, <2>1, UsedEntries, Zenon DEF ExactHit
  <2>3. count' \in 0 .. CounterSpan - 1
    BY <1>4, <1>7, <2>1, Counts, Zenon DEF ExactHit
  <2>4. CacheTyped'
    BY <1>4, <1>7, <2>2, <2>3, Zenon DEF ExactHit, CacheTyped
  <2>5. RequestTyped'
    BY <1>1, <1>7, Zenon DEF ExactHit, Go, Reply, RequestTyped, PcSteps
  <2> QED
    BY <1>3, <2>4, <2>5, Zenon
<1>8. ASSUME ExactMiss(r) PROVE Typed'
  <2>1. Stale(r) \subseteq Entries /\ Entries \ Stale(r) \subseteq Entries
    BY Zenon DEF Stale
  <2>2. /\ Entries' = Entries \ Stale(r) /\ Entries' \subseteq EntryKeys
        /\ IsFiniteSet(Entries') /\ clock' \in Nat /\ shard' \in [Entries' -> 1 .. clock']
    BY <1>4, <1>8, <2>1, KeptEntries, Zenon DEF ExactMiss
  <2>3. count' \in 0 .. CounterSpan - 1
    BY <1>4, <1>8, <2>1, Counts, Zenon DEF ExactMiss
  <2>4. CacheTyped'
    BY <1>4, <1>8, <2>2, <2>3, Zenon DEF ExactMiss, CacheTyped
  <2>5. RequestTyped'
    BY <1>1, <1>8, Zenon DEF ExactMiss, Go, RequestTyped, PcSteps
  <2> QED
    BY <1>3, <2>4, <2>5, Zenon
<1>9. ASSUME InsertCompiled(r) PROVE Typed'
  <2>1. RequestTyped'
    BY <1>1, <1>9, Zenon DEF InsertCompiled, Go, Reply, RequestTyped, PcSteps
  <2>2. Room \subseteq Entries /\ Entries \ Room \subseteq Entries
    BY Zenon DEF Room
  <2>3. CASE Key(r) \in Entries
    <3>1. Used(Entries, Key(r)) /\ fresh' = fresh \cup {Key(r)} /\ UNCHANGED count
      BY <1>9, <2>3, Zenon DEF InsertCompiled
    <3>2. /\ Entries' = Entries \cup {Key(r)} /\ Entries' \subseteq EntryKeys
          /\ IsFiniteSet(Entries') /\ clock' \in Nat /\ shard' \in [Entries' -> 1 .. clock']
      BY <1>2, <1>4, <3>1, UsedEntries, Zenon
    <3>3. CacheTyped'
      BY <1>4, <1>9, <3>1, <3>2, Zenon DEF InsertCompiled, CacheTyped
    <3> QED
      BY <1>3, <2>1, <3>3, Zenon
  <2>4. CASE Key(r) \notin Entries
    <3>1. /\ Used(Room, Key(r)) /\ fresh' = (fresh \cap Room) \cup {Key(r)}
          /\ count' = Added(Dropped(Entries \ Room))
      BY <1>9, <2>4, Zenon DEF InsertCompiled
    <3>2. /\ Entries' = Room \cup {Key(r)} /\ Entries' \subseteq EntryKeys
          /\ IsFiniteSet(Entries') /\ clock' \in Nat /\ shard' \in [Entries' -> 1 .. clock']
      BY <1>2, <1>4, <2>2, <3>1, UsedEntries, Zenon
    <3>3. count' \in 0 .. CounterSpan - 1
      BY <1>4, <2>2, <3>1, Counts, Zenon
    <3>4. CacheTyped'
      BY <1>4, <1>9, <3>1, <3>2, <3>3, Zenon DEF InsertCompiled, CacheTyped
    <3> QED
      BY <1>3, <2>1, <3>4, Zenon
  <2> QED
    BY <2>3, <2>4, Zenon
<1>10. ASSUME BeginCompile(r) \/ DropPermit(r) PROVE Typed'
  <2>1. RequestTyped'
    BY <1>1, <1>10, Zenon DEF BeginCompile, DropPermit, Go, RequestTyped, PcSteps
  <2>2. CacheTyped'
    BY <1>2, <1>10, Zenon DEF BeginCompile, DropPermit, Guards, CacheTyped, Entries
  <2> QED
    BY <1>3, <2>1, <2>2, Zenon
<1> QED
  BY <1>5, <1>6, <1>7, <1>8, <1>9, <1>10, Zenon

\* Edits, the clock and cache clears.
LEMMA TypedAround ==
  ASSUME Typed,
         \/ \E p \in Paths : Edit(p) \/ Delete(p)
         \/ \E k \in fresh : Expire(k)
         \/ ClearShard \/ ResetCount
  PROVE  Typed'
<1>1. UNCHANGED RequestVars /\ RequestTyped'
  BY Parts, Zenon DEF Edit, Delete, Expire, ClearShard, ResetCount, RequestVars, RequestTyped
<1>2. ASSUME NEW p \in Paths, Edit(p) \/ Delete(p) PROVE Typed'
  <2>1. CacheTyped'
    BY <1>2, Parts, Zenon DEF Edit, Delete, cache, CacheTyped, Entries
  <2>2. last[p] \in 0 .. MaxVersion /\ MaxVersion \in Nat
    BY Parts, ScriptCacheConstants DEF FilesTyped, Versions
  <2>3. last[p] < MaxVersion => last[p] + 1 \in Versions
    BY <2>2 DEF Versions
  <2>4. 0 \in Versions
    BY <2>2 DEF Versions
  <2>5. FilesTyped'
    BY <1>2, <2>3, <2>4, Parts, Zenon DEF Edit, Delete, FilesTyped
  <2> QED
    BY <1>1, <2>1, <2>5, Parts, Zenon
<1>3. ASSUME NEW k \in fresh, Expire(k) PROVE Typed'
  BY <1>1, <1>3, Parts, Zenon DEF Expire, files, FilesTyped, CacheTyped, Entries
<1>4. ASSUME ClearShard PROVE Typed'
  <2>1. Entries' = {} /\ IsFiniteSet(Entries')
    BY <1>4, FS_EmptySet, Zenon DEF ClearShard, Empty, Entries
  <2>2. CacheTyped'
    BY <1>4, <2>1, Parts, Zenon DEF ClearShard, Empty, CacheTyped
  <2>3. FilesTyped'
    BY <1>4, Parts, Zenon DEF ClearShard, files, FilesTyped
  <2> QED
    BY <1>1, <2>2, <2>3, Parts, Zenon
<1>5. ASSUME ResetCount PROVE Typed'
  <2>1. 0 \in 0 .. CounterSpan - 1
    BY ScriptCacheConstants
  <2> QED
    BY <1>1, <1>5, <2>1, Parts, Zenon DEF ResetCount, files, FilesTyped, CacheTyped, Entries
<1> QED
  BY <1>2, <1>3, <1>4, <1>5, Zenon

\* Every step of a request, the files or clear() preserves the types.
LEMMA TypedStep == Typed /\ [Next]_vars => Typed'
<1> SUFFICES ASSUME Typed, [Next]_vars PROVE Typed'
  OBVIOUS
<1>1. CASE UNCHANGED vars
  BY <1>1, Zenon DEF vars, Typed, TypeOK, Entries
<1>2. CASE \E r \in Requests : RequestStep(r) \/ \E p \in Paths : Ask(r, p)
  BY <1>2, TypedQuiet, TypedCache, Zenon DEF RequestStep
<1>3. CASE \/ \E p \in Paths : Edit(p) \/ Delete(p)
           \/ \E k \in fresh : Expire(k)
           \/ ClearShard \/ ResetCount
  BY <1>3, TypedAround
<1> QED
  BY <1>1, <1>2, <1>3, Zenon DEF Next
-----------------------------------------------------------------------------
\* The guard of a script is held by the one request that compiles it.
LEMMA CompileStep == Typed /\ OneCompilePerPath /\ [Next]_vars => OneCompilePerPath'
<1> SUFFICES ASSUME Typed, OneCompilePerPath, [Next]_vars PROVE OneCompilePerPath'
  OBVIOUS
<1>1. script \in [Requests -> Paths \cup {NoScript}] /\ pc \in [Requests -> PcSteps]
  BY DEF Typed, TypeOK
<1>2. CASE UNCHANGED <<pc, script, inProgress>>
  BY <1>2 DEF OneCompilePerPath, Compiling
<1>3. ASSUME NEW r \in Requests, UNCHANGED inProgress, \A q \in Requests \ {r} :
               pc'[q] = pc[q] /\ script'[q] = script[q],
             Compiling(r)' <=> Compiling(r), Compiling(r) => script'[r] = script[r]
      PROVE  OneCompilePerPath'
  <2>1. \A q \in Requests : Compiling(q)' <=> Compiling(q)
    BY <1>3 DEF Compiling
  <2>2. \A q \in Requests : Compiling(q) => script'[q] = script[q]
    BY <1>3
  <2> QED
    BY <1>3, <2>1, <2>2 DEF OneCompilePerPath
<1>4. ASSUME NEW r \in Requests, BeginCompile(r) PROVE OneCompilePerPath'
  <2>1. /\ ~Compiling(r) /\ Compiling(r)' /\ script' = script
        /\ \A q \in Requests \ {r} : Compiling(q)' <=> Compiling(q)
    BY <1>1, <1>4 DEF BeginCompile, Go, Compiling
  <2>2. \A q \in Requests : Compiling(q) => script[q] # script[r]
    BY <1>4 DEF BeginCompile, MayCompile, OneCompilePerPath
  <2>3. inProgress' = inProgress \cup {script[r]}
    BY <1>4 DEF BeginCompile
  <2> QED
    BY <2>1, <2>2, <2>3, Zenon DEF OneCompilePerPath
<1>5. ASSUME NEW r \in Requests, DropPermit(r) PROVE OneCompilePerPath'
  <2>1. /\ Compiling(r) /\ ~Compiling(r)' /\ script' = script
        /\ \A q \in Requests \ {r} : Compiling(q)' <=> Compiling(q)
    BY <1>1, <1>5, Zenon DEF DropPermit, Go, Compiling
  <2>2. inProgress' = inProgress \ {script[r]}
    BY <1>5 DEF DropPermit, Guards
  <2> QED
    BY <2>1, <2>2 DEF OneCompilePerPath
<1>6. ASSUME NEW r \in Requests, RequestStep(r), ~BeginCompile(r), ~DropPermit(r)
      PROVE  OneCompilePerPath'
  <2>1. /\ UNCHANGED <<inProgress, script>>
        /\ \E s \in PcSteps :
             /\ pc' = [pc EXCEPT ![r] = s]
             /\ s \in {"guarded", "compile", "insert", "release"} <=> Compiling(r)
    <3>1. CASE FreshHit(r) \/ FreshMiss(r) \/ Missing(r) \/ Canonicalize(r) \/ ReadMetadata(r)
      BY <3>1, Zenon DEF FreshHit, FreshMiss, Missing, Canonicalize, ReadMetadata, Go, cache, PcSteps,
                  Compiling
    <3>2. CASE LookupByMetadata(r) \/ ReadSource(r)
      BY <3>2, Zenon DEF LookupByMetadata, ReadSource, Go, cache, PcSteps, Compiling
    <3>3. CASE ExactHit(r) \/ ExactMiss(r)
      BY <3>3, Zenon DEF ExactHit, ExactMiss, Go, PcSteps, Compiling
    <3>4. CASE \/ CompileRefused(r) \/ StartOver(r) \/ Compiled(r) \/ CompileFailed(r)
               \/ InsertCompiled(r)
      BY <3>4, Zenon DEF CompileRefused, StartOver, Compiled, CompileFailed, InsertCompiled, Go, cache,
                  PcSteps, Compiling
    <3> QED
      BY <1>6, <3>1, <3>2, <3>3, <3>4, Zenon DEF RequestStep
  <2> QED
    BY <1>1, <1>3, <2>1, Zenon DEF Compiling
<1>7. ASSUME NEW r \in Requests, NEW p \in Paths, Ask(r, p) PROVE OneCompilePerPath'
  BY <1>1, <1>3, <1>7, Zenon DEF Ask, Go, cache, Compiling
<1>8. ASSUME \/ \E p \in Paths : Edit(p) \/ Delete(p)
             \/ \E k \in fresh : Expire(k)
             \/ ClearShard \/ ResetCount
      PROVE  UNCHANGED <<pc, script, inProgress>>
  BY <1>8, Zenon DEF Edit, Delete, Expire, ClearShard, ResetCount, cache
<1>9. CASE UNCHANGED vars
  BY <1>2, <1>9 DEF vars
<1> QED
  BY <1>2, <1>4, <1>5, <1>6, <1>7, <1>8, <1>9, Zenon DEF Next
-----------------------------------------------------------------------------
Reads ==
  /\ FileInv
  /\ \A r \in Requests : RequestInv(r)
  /\ EntriesAreNotStale

\* A step of a request that leaves the files alone and adds at most the entry
\* of what it read.
LEMMA OwnStep ==
  ASSUME Typed, Reads, NEW r \in Requests, UNCHANGED files,
         \A q \in Requests \ {r} : /\ pc'[q] = pc[q] /\ script'[q] = script[q]
                                   /\ since'[q] = since[q] /\ answer'[q] = answer[q]
                                   /\ meta'[q] = meta[q] /\ src'[q] = src[q],
         RequestInv(r)',
         Entries' \subseteq Entries \cup (IF pc[r] \in SourceSteps THEN {Key(r)} ELSE {})
  PROVE  Reads'
<1>1. last' = last /\ file' = file
  BY DEF files
<1>2. FileInv'
  BY <1>1 DEF Reads, FileInv
<1>3. ASSUME NEW q \in Requests \ {r} PROVE RequestInv(q)'
  <2>1. /\ pc'[q] = pc[q] /\ script'[q] = script[q] /\ since'[q] = since[q]
        /\ answer'[q] = answer[q] /\ meta'[q] = meta[q] /\ src'[q] = src[q]
    BY Zenon
  <2>2. Oldest(script[q])' = Oldest(script[q])
    BY <1>1, <2>1, Zenon DEF Oldest
  <2>3. RequestInv(q)
    BY DEF Reads
  <2> QED
    BY <1>1, <2>1, <2>2, <2>3, Zenon DEF RequestInv
<1>4. EntriesAreNotStale'
  <2>1. ASSUME NEW k \in Entries' PROVE k.meta <= k.src /\ k.src <= last'[k.path]
    <3>1. CASE k \in Entries
      BY <1>1, <3>1, Zenon DEF Reads, EntriesAreNotStale
    <3>2. CASE pc[r] \in SourceSteps /\ k = Key(r)
      BY <1>1, <3>2, Zenon DEF Reads, RequestInv, Key
    <3> QED
      BY <2>1, <3>1, <3>2, Zenon
  <2> QED
    BY <2>1 DEF EntriesAreNotStale
<1> QED
  BY <1>2, <1>3, <1>4, Zenon DEF Reads

\* Every step of a request.
LEMMA ReadsRequest ==
  ASSUME Typed, Reads, NEW r \in Requests, RequestStep(r)
  PROVE  Reads'
<1>1. /\ since \in [Requests -> 0 .. MaxVersion + 1]
      /\ script \in [Requests -> Paths \cup {NoScript}]
      /\ answer \in [Requests -> Versions \cup {Failed}]
      /\ pc \in [Requests -> PcSteps]
      /\ meta \in [Requests -> Versions] /\ src \in [Requests -> Versions]
  BY DEF Typed, TypeOK
<1>2. TypeOK /\ IsFiniteSet(Entries) /\ fresh \subseteq Entries /\ Entries \subseteq EntryKeys
  BY DEF Typed, TypeOK
<1>3. RequestInv(r)
  BY DEF Reads
<1>4. pc[r] # "idle"
  BY Zenon DEF RequestStep, FreshHit, FreshMiss, Missing, Canonicalize, ReadMetadata, LookupByMetadata,
         ReadSource, ExactHit, ExactMiss, BeginCompile, CompileRefused, StartOver, Compiled,
         CompileFailed, InsertCompiled, DropPermit
<1>5. script[r] \in Paths /\ Key(r) \in EntryKeys
  BY <1>4, Running
<1> USE DEF files
<1>6. ASSUME FreshHit(r) PROVE Reads'
  <2>1. PICK k \in Unchecked(r) : Used(Entries, k) /\ Reply(r, k.src)
    BY <1>6 DEF FreshHit
  <2>2. k \in Entries /\ k \in EntryKeys
    BY <2>1, <1>2 DEF Unchecked
  <2>3. Entries' \subseteq Entries
    BY <1>2, <2>1, <2>2, UsedEntries
  <2>4. RequestInv(r)'
    BY <1>1, <1>3, <1>4, <1>6, Zenon DEF FreshHit, Go, RequestInv, Oldest, ReadSteps, SourceSteps
  <2> QED
    BY <1>1, <1>6, <2>1, <2>3, <2>4, OwnStep, Zenon DEF FreshHit, Go, Reply
<1>7. ASSUME \/ FreshMiss(r) \/ Missing(r) \/ Canonicalize(r) \/ CompileRefused(r)
             \/ StartOver(r) \/ Compiled(r) \/ CompileFailed(r) \/ DropPermit(r)
             \/ BeginCompile(r)
      PROVE Reads'
  <2>1. Entries' = Entries
    BY <1>7, Zenon DEF FreshMiss, Missing, Canonicalize, CompileRefused, StartOver, Compiled,
                CompileFailed, DropPermit, BeginCompile, cache, Entries
  <2>2. RequestInv(r)'
    BY <1>1, <1>3, <1>7, Zenon DEF FreshMiss, Missing, Canonicalize, CompileRefused, StartOver, Compiled,
         CompileFailed, DropPermit, BeginCompile, Go, Reply, RequestInv, Oldest, ReadSteps,
         SourceSteps
  <2> QED
    BY <1>1, <1>7, <2>1, <2>2, OwnStep, Zenon
       DEF FreshMiss, Missing, Canonicalize, CompileRefused, StartOver, Compiled, CompileFailed,
           DropPermit, BeginCompile, Go, Reply
<1>8. ASSUME ReadMetadata(r) PROVE Reads'
  <2>1. since[r] <= file[script[r]] /\ file[script[r]] <= last[script[r]]
    BY <1>3, <1>4, <1>5, <1>8, Zenon DEF ReadMetadata, RequestInv, Oldest, Reads, FileInv
  <2>2. file[script[r]] \in Nat
    BY <1>5, ScriptCacheConstants DEF Typed, TypeOK, Versions
  <2>3. /\ pc'[r] = "bymeta" /\ meta'[r] = file[script[r]]
        /\ UNCHANGED <<since, script, answer, file, last>> /\ file[script[r]] # 0
    BY <1>1, <1>8, Zenon DEF ReadMetadata, Go
  <2>4. Oldest(script[r])' = file[script[r]] /\ Oldest(script[r]) = file[script[r]]
    BY <2>3 DEF Oldest
  <2>5. RequestInv(r)'
    BY <1>3, <1>4, <1>8, <2>1, <2>2, <2>3, <2>4
       DEF ReadMetadata, RequestInv, ReadSteps, SourceSteps
  <2> QED
    BY <1>1, <1>8, <2>5, OwnStep, Zenon DEF ReadMetadata, Go, cache, Entries
<1>9. ASSUME ReadSource(r) PROVE Reads'
  <2>1. file[script[r]] <= last[script[r]]
    BY <1>5 DEF Reads, FileInv
  <2>2. meta[r] <= file[script[r]]
    BY <1>3, <1>9, Zenon DEF ReadSource, RequestInv, ReadSteps, Oldest
  <2>3. RequestInv(r)'
    BY <1>1, <1>3, <1>9, <2>1, <2>2, Zenon
       DEF ReadSource, Go, RequestInv, Oldest, ReadSteps, SourceSteps
  <2> QED
    BY <1>1, <1>9, <2>3, OwnStep, Zenon DEF ReadSource, Go, cache, Entries
<1>10. ASSUME LookupByMetadata(r) PROVE Reads'
  <2> DEFINE gone == {k \in Entries : k.path = script[r] /\ ~Matches(k, r)}
             kept == Entries \ gone
  <2>1. Entries' \subseteq Entries
    <3>1. ASSUME NEW k \in kept, Used(kept, k) PROVE Entries' \subseteq Entries
      BY <1>2, <3>1, UsedEntries
    <3>2. ASSUME Kept(kept) PROVE Entries' \subseteq Entries
      BY <1>2, <3>2, KeptEntries
    <3> QED
      BY <1>10, <3>1, <3>2, Zenon DEF LookupByMetadata
  <2>2. RequestInv(r)'
    BY <1>1, <1>3, <1>10, Zenon
       DEF LookupByMetadata, Go, Reply, RequestInv, Oldest, ReadSteps, SourceSteps
  <2> QED
    BY <1>1, <1>10, <2>1, <2>2, OwnStep, Zenon DEF LookupByMetadata, Go, Reply
<1>11. ASSUME ExactHit(r) \/ ExactMiss(r) \/ InsertCompiled(r) PROVE Reads'
  <2>1. Entries' \subseteq Entries \cup {Key(r)}
    <3>1. ASSUME ExactHit(r) PROVE Entries' \subseteq Entries \cup {Key(r)}
      <4>1. Used(Entries \ Stale(r), Key(r)) /\ Entries \ Stale(r) \subseteq Entries
        BY <3>1, Zenon DEF ExactHit
      <4>2. Entries' = (Entries \ Stale(r)) \cup {Key(r)}
        BY <1>2, <1>5, <4>1, UsedEntries, Zenon
      <4> QED
        BY <4>2
    <3>2. ASSUME ExactMiss(r) PROVE Entries' \subseteq Entries \cup {Key(r)}
      BY <1>2, <3>2, KeptEntries DEF ExactMiss
    <3>3. ASSUME InsertCompiled(r) PROVE Entries' \subseteq Entries \cup {Key(r)}
      <4>1. Used(Entries, Key(r)) \/ Used(Room, Key(r))
        BY <3>3 DEF InsertCompiled
      <4>2. Room \subseteq Entries
        BY DEF Room
      <4> QED
        BY <1>2, <1>5, <4>1, <4>2, UsedEntries
    <3> QED
      BY <1>11, <3>1, <3>2, <3>3
  <2>2. pc[r] \in SourceSteps
    BY <1>11, Zenon DEF ExactHit, ExactMiss, InsertCompiled, SourceSteps
  <2>3. RequestInv(r)'
    BY <1>1, <1>3, <1>11, Zenon
       DEF ExactHit, ExactMiss, InsertCompiled, Go, Reply, RequestInv, Oldest, ReadSteps,
           SourceSteps
  <2> QED
    BY <1>1, <1>11, <2>1, <2>2, <2>3, OwnStep, Zenon DEF ExactHit, ExactMiss, InsertCompiled, Go, Reply
<1> QED
  BY <1>6, <1>7, <1>8, <1>9, <1>10, <1>11, Zenon DEF RequestStep

\* A lookup sees a first version or a later one.
LEMMA OldestIsVersion ==
  ASSUME NEW f \in Nat, NEW n \in Nat, NEW p, file[p] = f, last[p] = n
  PROVE  Oldest(p) \in Nat /\ 1 <= Oldest(p)
<1>1. CASE f = 0
  <2>1. Oldest(p) = n + 1
    BY <1>1, Zenon DEF Oldest
  <2> QED
    BY <2>1
<1>2. CASE f # 0
  <2>1. Oldest(p) = f
    BY <1>2, Zenon DEF Oldest
  <2> QED
    BY <1>2, <2>1
<1> QED
  BY <1>1, <1>2, Zenon

\* Edits, the clock, cache clears and new requests.
LEMMA ReadsAround ==
  ASSUME Typed, Reads,
         \/ \E r \in Requests, p \in Paths : Ask(r, p)
         \/ \E p \in Paths : Edit(p) \/ Delete(p)
         \/ \E k \in fresh : Expire(k)
         \/ ClearShard \/ ResetCount
  PROVE  Reads'
<1>1. /\ since \in [Requests -> 0 .. MaxVersion + 1]
      /\ script \in [Requests -> Paths \cup {NoScript}]
      /\ pc \in [Requests -> PcSteps]
      /\ meta \in [Requests -> Versions] /\ src \in [Requests -> Versions]
      /\ last \in [Paths -> Versions] /\ file \in [Paths -> Versions]
      /\ Versions \subseteq Nat /\ Entries \subseteq EntryKeys
      /\ 0 .. MaxVersion + 1 \subseteq Nat
  BY ScriptCacheConstants DEF Typed, TypeOK, Versions
<1>2. \A r \in Requests : pc[r] # "idle" => script[r] \in Paths
  BY Running
<1>3. ASSUME NEW r \in Requests, NEW p \in Paths, Ask(r, p) PROVE Reads'
  <2>1. file[p] \in Nat /\ last[p] \in Nat
    BY <1>1, Zenon
  <2>2. 1 <= Oldest(p)
    BY <2>1, OldestIsVersion, Zenon
  <2>3. since'[r] = Oldest(p) /\ script'[r] = p /\ pc'[r] = "probe" /\ Oldest(p)' = Oldest(p)
    BY <1>1, <1>3, Zenon DEF Ask, Go, Oldest, files
  <2>4. answer'[r] = 0
    BY <1>3, Zenon DEF Ask, Reads, RequestInv
  <2>5. Oldest(p) \in Nat
    BY <2>1, OldestIsVersion
  <2>6. RequestInv(r)'
    <3>1. Oldest(script[r])' = Oldest(p)
      BY <1>3, <2>3 DEF Ask, files, Oldest
    <3> QED
      BY <2>2, <2>3, <2>4, <2>5, <3>1 DEF RequestInv, ReadSteps, SourceSteps
  <2> QED
    BY <1>1, <1>3, <2>6, OwnStep, Zenon DEF Ask, Go, cache, Entries
<1>4. ASSUME NEW p \in Paths, Edit(p) \/ Delete(p) PROVE Reads'
  <2>1. UNCHANGED <<since, script, answer, pc, meta, src, shard>>
    BY <1>4, Zenon DEF Edit, Delete, cache
  <2>2. FileInv /\ \A q \in Paths : file[q] \in Nat /\ last[q] \in Nat
    BY <1>1, Zenon DEF Reads
  <2>3. \A q \in Paths : last[q] <= last'[q] /\ file'[q] <= last'[q] /\ last'[q] \in Nat
    BY <1>1, <1>4, <2>2 DEF Edit, Delete, FileInv
  <2>4. \A q \in Paths : Oldest(q) <= Oldest(q)' /\ Oldest(q) \in Nat /\ Oldest(q)' \in Nat
    BY <1>1, <1>4, <2>2 DEF Edit, Delete, FileInv, Oldest
  <2>5. ASSUME NEW r \in Requests PROVE RequestInv(r)'
    <3>1. RequestInv(r) /\ since[r] \in Nat /\ meta[r] \in Nat /\ src[r] \in Nat
      BY <1>1, Zenon DEF Reads
    <3>2. CASE pc[r] = "idle"
      BY <2>1, <3>1, <3>2, Zenon DEF RequestInv, ReadSteps, SourceSteps
    <3>3. CASE pc[r] # "idle"
      <4>0. PICK s \in Paths : s = script[r]
        BY <1>2, <3>3
      <4>1. s = script[r] /\ s \in Paths /\ Oldest(script[r])' = Oldest(s)'
        BY <2>1, <4>0 DEF Oldest
      <4>2. Oldest(s) <= Oldest(s)' /\ Oldest(s) \in Nat /\ Oldest(s)' \in Nat
        BY <2>4, <4>1, Zenon
      <4>3. last[s] <= last'[s] /\ last[s] \in Nat /\ last'[s] \in Nat
        BY <2>2, <2>3, <4>1, Zenon
      <4> QED
        BY <2>1, <3>1, <3>3, <4>1, <4>2, <4>3 DEF RequestInv
    <3> QED
      BY <3>2, <3>3, Zenon
  <2>6. EntriesAreNotStale'
    <3>1. ASSUME NEW k \in Entries PROVE k.meta <= k.src /\ k.src <= last'[k.path]
      <4>1. k.path \in Paths /\ k.src \in Nat
        BY <1>1, Zenon DEF EntryKeys
      <4>2. k.meta <= k.src /\ k.src <= last[k.path]
        BY DEF Reads, EntriesAreNotStale
      <4> QED
        BY <2>2, <2>3, <4>1, <4>2
    <3> QED
      BY <2>1, <3>1 DEF EntriesAreNotStale, Entries
  <2> QED
    BY <2>3, <2>5, <2>6 DEF Reads, FileInv
<1>5. ASSUME (\E k \in fresh : Expire(k)) \/ ClearShard \/ ResetCount PROVE Reads'
  <2>1. UNCHANGED <<last, file, since, script, answer, pc, meta, src>> /\ Entries' \subseteq Entries
    BY <1>5, Zenon DEF Expire, ClearShard, ResetCount, files, Entries, Empty
  <2> QED
    BY <2>1, Zenon DEF Reads, FileInv, RequestInv, Oldest, EntriesAreNotStale
<1> QED
  BY <1>3, <1>4, <1>5, Zenon

\* The inductive invariant.
LEMMA ScriptInitial == Init => ScriptInv
<1> SUFFICES ASSUME Init PROVE ScriptInv
  OBVIOUS
<1>1. Typed
  BY TypedInit
<1>2. FileInv /\ \A r \in Requests : RequestInv(r)
  BY DEF Init, FileInv, RequestInv, ReadSteps, SourceSteps
<1>3. EntriesAreNotStale /\ OneCompilePerPath
  BY DEF Init, Empty, Entries, EntriesAreNotStale, OneCompilePerPath, Compiling
<1> QED
  BY <1>1, <1>2, <1>3, Zenon DEF ScriptInv

\* Every step preserves the invariant.
LEMMA ScriptStep == ScriptInv /\ [Next]_vars => ScriptInv'
<1> SUFFICES ASSUME ScriptInv, [Next]_vars PROVE ScriptInv'
  OBVIOUS
<1>1. Typed /\ Reads /\ OneCompilePerPath
  BY DEF ScriptInv, Reads
<1>2. Typed' /\ OneCompilePerPath'
  BY <1>1, TypedStep, CompileStep, Zenon
<1>3. Reads'
  <2>1. CASE UNCHANGED vars
    BY <1>1, <2>1, Zenon DEF vars, Reads, FileInv, RequestInv, Oldest, EntriesAreNotStale, Entries
  <2>2. CASE Next
    BY <1>1, <2>2, ReadsRequest, ReadsAround, Zenon DEF Next
  <2> QED
    BY <2>1, <2>2
<1> QED
  BY <1>2, <1>3 DEF ScriptInv, Reads

\* ScriptInv holds always.
THEOREM ScriptInvariant == Spec => []ScriptInv
BY ScriptInitial, ScriptStep, PTL DEF Spec

\* The cache's state is well typed: no request is at an unknown step, no entry
\* is marked fresh that is not there, and stats.entries stays a counter.
THEOREM ScriptsTypeCorrect == Spec => []TypeOK
<1>1. ScriptInv => TypeOK
  BY Zenon DEF ScriptInv, Typed
<1> QED
  BY <1>1, ScriptInvariant, PTL

\* At most one request compiles a script, and the guards are those of the
\* scripts being compiled, whatever is edited, cleared or fails meanwhile.
THEOREM CompilesAreSingle == Spec => []OneCompilePerPath
<1>1. ScriptInv => OneCompilePerPath
  BY DEF ScriptInv
<1> QED
  BY <1>1, ScriptInvariant, PTL

\* No entry serves a source older than the metadata that validates it.
THEOREM EntriesStayFresh == Spec => []EntriesAreNotStale
<1>1. ScriptInv => EntriesAreNotStale
  BY DEF ScriptInv
<1> QED
  BY <1>1, ScriptInvariant, PTL
-----------------------------------------------------------------------------
\* A script that is being compiled has no entry: the last lookup under the
\* guard dropped them, and only the guard's holder inserts one.
Alone ==
  \A r \in Requests :
    pc[r] \in {"compile", "insert"} => \A k \in Entries : k.path # script[r]

\* Steps that add no entry, and send no request to compile.
LEMMA AloneKept ==
  ASSUME OneEntryPerPath, Alone, Entries' \subseteq Entries,
         \A q \in Requests : pc'[q] \in {"compile", "insert"} =>
           pc[q] \in {"compile", "insert"} /\ script'[q] = script[q]
  PROVE  (OneEntryPerPath /\ Alone)'
<1>1. OneEntryPerPath'
  BY DEF OneEntryPerPath
<1>2. Alone'
  BY DEF Alone
<1> QED
  BY <1>1, <1>2, Zenon

\* One step keeps at most one entry per script.
LEMMA EntryStep ==
  ASSUME Typed, OneCompilePerPath, OneEntryPerPath, Alone, [Next]_vars
  PROVE  (OneEntryPerPath /\ Alone)'
<1>1. /\ TypeOK /\ IsFiniteSet(Entries)
      /\ pc \in [Requests -> PcSteps] /\ script \in [Requests -> Paths \cup {NoScript}]
  BY DEF Typed, TypeOK
<1>2. ASSUME NEW r \in Requests, NEW s \in PcSteps \ {"compile", "insert"}, Go(r, s),
             UNCHANGED script
      PROVE  \A q \in Requests : pc'[q] \in {"compile", "insert"} =>
               pc[q] \in {"compile", "insert"} /\ script'[q] = script[q]
  BY <1>1, <1>2, Zenon DEF Go
<1>3. ASSUME NEW r \in Requests, RequestStep(r) PROVE (OneEntryPerPath /\ Alone)'
  <2>1. CASE \/ FreshMiss(r) \/ Missing(r) \/ Canonicalize(r) \/ ReadMetadata(r) \/ ReadSource(r)
             \/ BeginCompile(r) \/ CompileRefused(r) \/ StartOver(r) \/ CompileFailed(r)
             \/ DropPermit(r)
    <3>1. UNCHANGED shard /\ UNCHANGED script
      BY <2>1, Zenon DEF FreshMiss, Missing, Canonicalize, ReadMetadata, ReadSource, BeginCompile,
                  CompileRefused, StartOver, CompileFailed, DropPermit, cache
    <3>2. \E s \in PcSteps \ {"compile", "insert"} : Go(r, s)
      BY <2>1, Zenon DEF FreshMiss, Missing, Canonicalize, ReadMetadata, ReadSource, BeginCompile,
                  CompileRefused, StartOver, CompileFailed, DropPermit, PcSteps
    <3>3. Entries' = Entries
      BY <3>1 DEF Entries
    <3> QED
      BY <1>2, <3>1, <3>2, <3>3, AloneKept, Zenon
  <2>2. CASE FreshHit(r)
    <3>1. PICK k \in Unchecked(r) : Used(Entries, k)
      BY <2>2 DEF FreshHit
    <3>2. k \in Entries
      BY <1>1, <3>1 DEF Unchecked, TypeOK
    <3>3. Entries' = Entries
      BY <3>1, <3>2 DEF Used, Entries
    <3>4. Go(r, "done") /\ UNCHANGED script
      BY <2>2 DEF FreshHit
    <3> QED
      BY <1>2, <3>3, <3>4, AloneKept, Zenon DEF PcSteps
  <2>3. CASE LookupByMetadata(r)
    <3>1. \E s \in {"done", "source"} : Go(r, s)
      BY <2>3, Zenon DEF LookupByMetadata
    <3>2. UNCHANGED script
      BY <2>3 DEF LookupByMetadata
    <3>3. \E kept \in SUBSET Entries : Kept(kept) \/ \E k \in kept : Used(kept, k)
      BY <2>3, Zenon DEF LookupByMetadata
    <3>4. PICK kept \in SUBSET Entries : Kept(kept) \/ \E k \in kept : Used(kept, k)
      BY <3>3
    <3>5. Kept(kept) => Entries' = kept
      BY <3>4, Zenon DEF Kept, Restrict, Entries
    <3>6. (\E k \in kept : Used(kept, k)) => Entries' = kept
      BY <3>4 DEF Used, Entries
    <3> QED
      BY <1>2, <3>1, <3>2, <3>4, <3>5, <3>6, AloneKept, Zenon DEF PcSteps
  <2>4. CASE ExactHit(r)
    <3>1. Key(r) \in Entries /\ Used(Entries \ Stale(r), Key(r)) /\ UNCHANGED script
      BY <2>4 DEF ExactHit
    <3>2. Entries' \subseteq Entries
      BY <3>1 DEF Used, Entries
    <3>3. \E s \in {"done", "release"} : Go(r, s)
      BY <2>4 DEF ExactHit
    <3> QED
      BY <1>2, <3>1, <3>2, <3>3, AloneKept, Zenon DEF PcSteps
  <2>5. CASE ExactMiss(r)
    <3>1. /\ Key(r) \notin Entries /\ Kept(Entries \ Stale(r)) /\ UNCHANGED script
          /\ \E s \in {"begin", "compile"} : Go(r, s)
      BY <2>5 DEF ExactMiss
    <3>2. Entries' = Entries \ Stale(r)
      BY <3>1, Zenon DEF Kept, Restrict, Entries, Stale
    <3>3. \A k \in Entries' : k.path # script[r]
      BY <3>1, <3>2 DEF Stale
    <3>4. \A q \in Requests : q # r => pc'[q] = pc[q]
      BY <1>1, <3>1 DEF Go
    <3>5. OneEntryPerPath'
      BY <3>2 DEF OneEntryPerPath
    <3>6. Alone'
      BY <3>1, <3>2, <3>3, <3>4, Zenon DEF Alone
    <3> QED
      BY <3>5, <3>6
  <2>6. CASE Compiled(r)
    <3>1. pc[r] = "compile" /\ Go(r, "insert") /\ UNCHANGED <<script, shard>>
      BY <2>6 DEF Compiled, cache
    <3>2. Entries' = Entries
      BY <3>1 DEF Entries
    <3>3. \A q \in Requests : pc'[q] \in {"compile", "insert"} =>
            pc[q] \in {"compile", "insert"} /\ script'[q] = script[q]
      BY <1>1, <3>1 DEF Go
    <3> QED
      BY <3>2, <3>3, AloneKept, Zenon
  <2>7. CASE InsertCompiled(r)
    <3>1. pc[r] = "insert" /\ Go(r, "release") /\ UNCHANGED script
      BY <2>7 DEF InsertCompiled
    <3>2. Key(r).path = script[r]
      BY DEF Key
    <3>3. \A k \in Entries : k.path # script[r]
      BY <3>1 DEF Alone
    <3>4. Key(r) \notin Entries
      BY <3>2, <3>3
    <3>5. Used(Room, Key(r))
      BY <2>7, <3>4 DEF InsertCompiled
    <3>6. Entries' = Room \cup {Key(r)} /\ Room \subseteq Entries
      BY <3>5 DEF Used, Entries, Room
    <3>7. OneEntryPerPath'
      BY <3>2, <3>3, <3>6, Zenon DEF OneEntryPerPath
    <3>8. ASSUME NEW q \in Requests, pc'[q] \in {"compile", "insert"}
          PROVE  q # r /\ pc[q] \in {"compile", "insert"} /\ script[q] # script[r]
      <4>1. q # r /\ pc[q] \in {"compile", "insert"}
        BY <1>1, <3>1, <3>8, Zenon DEF Go
      <4>2. Compiling(q) /\ Compiling(r)
        BY <3>1, <4>1 DEF Compiling
      <4> QED
        BY <4>1, <4>2 DEF OneCompilePerPath
    <3>9. Alone'
      BY <3>1, <3>2, <3>6, <3>8 DEF Alone
    <3> QED
      BY <3>7, <3>9
  <2> QED
    BY <1>3, <2>1, <2>2, <2>3, <2>4, <2>5, <2>6, <2>7, Zenon DEF RequestStep
<1>4. ASSUME NEW r \in Requests, NEW p \in Paths, Ask(r, p) PROVE (OneEntryPerPath /\ Alone)'
  <2>1. pc' = [pc EXCEPT ![r] = "probe"] /\ script' = [script EXCEPT ![r] = p] /\ Entries' = Entries
    BY <1>4 DEF Ask, Go, cache, Entries
  <2>2. \A q \in Requests : pc'[q] \in {"compile", "insert"} =>
          pc[q] \in {"compile", "insert"} /\ script'[q] = script[q]
    BY <1>1, <2>1
  <2> QED
    BY <2>1, <2>2, AloneKept
<1>5. ASSUME \/ \E p \in Paths : Edit(p) \/ Delete(p)
             \/ \E k \in fresh : Expire(k)
             \/ ClearShard \/ ResetCount \/ UNCHANGED vars
      PROVE  (OneEntryPerPath /\ Alone)'
  <2>1. UNCHANGED <<pc, script>> /\ (shard' = shard \/ shard' = Empty)
    BY <1>5, Zenon DEF Edit, Delete, Expire, ClearShard, ResetCount, vars, cache
  <2>2. Entries' \subseteq Entries
    BY <2>1 DEF Entries, Empty
  <2> QED
    BY <2>1, <2>2, AloneKept
<1> QED
  BY <1>3, <1>4, <1>5 DEF Next

\* The cache never holds two versions of one script.
THEOREM EntriesAreUnique == Spec => []OneEntryPerPath
<1>1. Init => OneEntryPerPath /\ Alone
  BY DEF Init, OneEntryPerPath, Alone, Entries, Empty
<1>2. ScriptInv /\ OneEntryPerPath /\ Alone /\ [Next]_vars => (OneEntryPerPath /\ Alone)'
  BY EntryStep DEF ScriptInv
<1> QED
  BY <1>1, <1>2, ScriptInvariant, PTL DEF Spec
-----------------------------------------------------------------------------
(***************************************************************************)
(* How many entries there are.  Ticks tell entries apart, so that the      *)
(* eviction of the least recently used ones leaves room for one more.      *)
(***************************************************************************)
TicksDiffer == \A j, k \in Entries : shard[j] = shard[k] => j = k

\* One of several entries was used least recently.
LEMMA LeastRecent ==
  ASSUME TypeOK, NEW some, some \subseteq Entries, some # {}
  PROVE  \E k \in some : \A j \in some : shard[k] <= shard[j]
<1> DEFINE ticks == {shard[k] : k \in some}
           R == OpToRel(<, Nat)
<1>1. \A k \in some : shard[k] \in Nat
  BY DEF TypeOK
<1>2. ticks \subseteq Nat /\ ticks # {}
  BY <1>1
<1>3. IsWellFoundedOn(R, Nat)
  BY NatLessThanWellFounded, Zenon
<1>4. \A x, y \in Nat : y < x => <<y, x>> \in R
  BY DEF OpToRel
<1> HIDE DEF R, ticks
<1>5. PICK x \in ticks : \A y \in ticks : ~(<<y, x>> \in R)
  BY <1>2, <1>3, WFMin, Zenon
<1>6. PICK k \in some : x = shard[k]
  BY <1>5 DEF ticks
<1>7. ASSUME NEW j \in some PROVE shard[k] <= shard[j]
  <2>1. shard[j] \in ticks
    BY Zenon DEF ticks
  <2>2. ~(shard[j] < shard[k])
    BY <1>1, <1>4, <1>5, <1>6, <2>1, Zenon
  <2> QED
    BY <1>1, <2>2
<1> QED
  BY <1>7, Zenon

\* What insert_compiled keeps leaves room for the new entry.
LEMMA RoomForOne ==
  ASSUME TypeOK, IsFiniteSet(Entries), TicksDiffer
  PROVE  /\ Room \subseteq Entries /\ IsFiniteSet(Room)
         /\ Cardinality(Room) \in Nat /\ Cardinality(Room) + 1 <= MaxEntries
<1>1. Room \subseteq Entries
  BY Zenon DEF Room
<1>2. IsFiniteSet(Room) /\ Cardinality(Room) \in Nat
  BY <1>1, FS_Subset, FS_CardinalityType, Zenon
<1>3. CASE Room = {}
  BY <1>1, <1>2, <1>3, FS_EmptySet, ScriptCacheConstants
<1>4. CASE Room # {}
  <2>1. PICK k \in Room : \A j \in Room : shard[k] <= shard[j]
    BY <1>1, <1>4, LeastRecent, Zenon
  <2> DEFINE later == {j \in Entries : shard[j] > shard[k]}
  <2>2. Room \ {k} \subseteq later
    <3> SUFFICES ASSUME NEW j \in Room \ {k} PROVE j \in later
      OBVIOUS
    <3>1. shard[j] # shard[k] /\ shard[k] <= shard[j] /\ j \in Entries
      BY <1>1, <2>1 DEF TicksDiffer
    <3>2. shard[j] \in Nat /\ shard[k] \in Nat
      BY <1>1, <2>1, <3>1 DEF TypeOK
    <3> QED
      BY <3>1, <3>2
  <2>3. Cardinality(later) < MaxEntries - 1
    BY <2>1, Zenon DEF Room
  <2>4. IsFiniteSet(later) /\ Cardinality(later) \in Nat
    BY FS_Subset, FS_CardinalityType, Zenon
  <2>5. Cardinality(Room \ {k}) \in Nat /\ Cardinality(Room \ {k}) <= Cardinality(later)
    BY <2>2, <2>4, FS_Subset, FS_CardinalityType, Zenon
  <2>6. Cardinality(Room \ {k}) = Cardinality(Room) - 1
    BY <1>2, <2>1, FS_RemoveElement, Zenon
  <2> HIDE DEF later
  <2> QED
    BY <1>1, <1>2, <2>3, <2>4, <2>5, <2>6, ScriptCacheConstants
<1> QED
  BY <1>3, <1>4

\* What a step does to the shard and to its counter.
LEMMA ShardMoves ==
  ASSUME Typed, [Next]_vars
  PROVE  \/ UNCHANGED <<shard, count>>
         \/ \E k \in Entries : Used(Entries, k) /\ UNCHANGED count
         \/ \E gone \in SUBSET Entries :
              /\ count' = Dropped(gone)
              /\ Kept(Entries \ gone) \/ \E k \in Entries \ gone : Used(Entries \ gone, k)
         \/ \E k \in EntryKeys \ Entries :
              Used(Room, k) /\ count' = Added(Dropped(Entries \ Room))
         \/ Clears /\ shard' = Empty
         \/ clearing /\ UNCHANGED shard
<1>0. fresh \subseteq Entries
  BY Zenon DEF Typed, TypeOK
<1>1. ASSUME NEW r \in Requests, RequestStep(r)
      PROVE  \/ UNCHANGED <<shard, count>>
             \/ \E k \in Entries : Used(Entries, k) /\ UNCHANGED count
             \/ \E gone \in SUBSET Entries :
                  /\ count' = Dropped(gone)
                  /\ Kept(Entries \ gone) \/ \E k \in Entries \ gone : Used(Entries \ gone, k)
             \/ \E k \in EntryKeys \ Entries :
                  Used(Room, k) /\ count' = Added(Dropped(Entries \ Room))
  <2>1. CASE \/ FreshMiss(r) \/ Missing(r) \/ Canonicalize(r) \/ ReadMetadata(r) \/ ReadSource(r)
             \/ BeginCompile(r) \/ CompileRefused(r) \/ StartOver(r) \/ Compiled(r)
             \/ CompileFailed(r) \/ DropPermit(r)
    BY <2>1, Zenon DEF FreshMiss, Missing, Canonicalize, ReadMetadata, ReadSource, BeginCompile,
       CompileRefused, StartOver, Compiled, CompileFailed, DropPermit, cache
  <2>2. CASE FreshHit(r)
    <3>1. PICK k \in Unchecked(r) : Used(Entries, k)
      BY <2>2, Zenon DEF FreshHit
    <3>2. k \in Entries /\ UNCHANGED count
      BY <1>0, <2>2, <3>1, Zenon DEF FreshHit, Unchecked
    <3> QED
      BY <3>1, <3>2, Zenon
  <2>3. CASE LookupByMetadata(r)
    <3> DEFINE gone == {k \in Entries : k.path = script[r] /\ ~Matches(k, r)}
    <3>1. /\ count' = Dropped(gone) /\ gone \in SUBSET Entries
          /\ Kept(Entries \ gone) \/ \E k \in Entries \ gone : Used(Entries \ gone, k)
      BY <2>3, Zenon DEF LookupByMetadata
    <3> HIDE DEF gone
    <3> QED
      BY <3>1, Zenon
  <2>4. CASE ExactHit(r)
    <3>1. Stale(r) \in SUBSET Entries /\ (Key(r) \in Entries => Key(r) \in Entries \ Stale(r))
      BY Zenon DEF Stale
    <3> QED
      BY <2>4, <3>1, Zenon DEF ExactHit
  <2>5. CASE ExactMiss(r)
    <3>1. Stale(r) \in SUBSET Entries
      BY Zenon DEF Stale
    <3> QED
      BY <2>5, <3>1, Zenon DEF ExactMiss
  <2>6. CASE InsertCompiled(r)
    <3>1. pc[r] = "insert"
      BY <2>6, Zenon DEF InsertCompiled
    <3>2. Key(r) \in EntryKeys
      BY <3>1, Running
    <3> QED
      BY <2>6, <3>2, Zenon DEF InsertCompiled
  <2> QED
    BY <1>1, <2>1, <2>2, <2>3, <2>4, <2>5, <2>6, Zenon DEF RequestStep
<1>2. ASSUME \/ \E r \in Requests, p \in Paths : Ask(r, p)
             \/ \E p \in Paths : Edit(p) \/ Delete(p)
             \/ \E k \in fresh : Expire(k)
             \/ UNCHANGED vars
      PROVE  UNCHANGED <<shard, count>>
  BY <1>2, Zenon DEF Ask, Edit, Delete, Expire, vars, cache
<1>3. ClearShard => Clears /\ shard' = Empty
  BY Zenon DEF ClearShard
<1>4. ResetCount => clearing /\ UNCHANGED shard
  BY Zenon DEF ResetCount
<1> QED
  BY <1>1, <1>2, <1>3, <1>4, Zenon DEF Next

\* Entries that are used or kept have different ticks.
LEMMA TicksStep == ASSUME Typed, TicksDiffer, [Next]_vars PROVE TicksDiffer'
<1>0. TypeOK /\ IsFiniteSet(Entries) /\ Room \subseteq Entries
  BY Zenon DEF Typed, Room
<1>1. ASSUME NEW keys, keys \subseteq Entries, NEW k, Used(keys, k) PROVE TicksDiffer'
  <2>1. \A j \in keys : shard[j] \in Nat /\ shard[j] < clock + 1
    BY <1>0, <1>1 DEF TypeOK
  <2>2. /\ Entries' = keys \cup {k}
        /\ \A j \in keys \cup {k} : shard'[j] = IF j = k THEN clock + 1 ELSE shard[j]
    BY <1>1 DEF Used, Entries
  <2> SUFFICES ASSUME NEW i \in Entries', NEW j \in Entries', shard'[i] = shard'[j]
               PROVE  i = j
    BY Zenon DEF TicksDiffer
  <2>3. CASE i = k \/ j = k
    BY <2>1, <2>2, <2>3
  <2>4. CASE i # k /\ j # k
    <3>1. i \in Entries /\ j \in Entries /\ shard[i] = shard[j]
      BY <1>1, <2>2, <2>4, Zenon
    <3> QED
      BY <3>1, Zenon DEF TicksDiffer
  <2> QED
    BY <2>3, <2>4
<1>2. ASSUME NEW keys, keys \subseteq Entries, Kept(keys) PROVE TicksDiffer'
  <2>1. Entries' = keys /\ \A j \in keys : shard'[j] = shard[j]
    BY <1>2 DEF Kept, Restrict, Entries
  <2> SUFFICES ASSUME NEW i \in Entries', NEW j \in Entries', shard'[i] = shard'[j]
               PROVE  i = j
    BY Zenon DEF TicksDiffer
  <2>2. i \in Entries /\ j \in Entries
    BY <1>2, <2>1
  <2>3. shard[i] = shard[j]
    BY <2>1
  <2> QED
    BY <2>2, <2>3, Zenon DEF TicksDiffer
<1>3. ASSUME UNCHANGED shard PROVE TicksDiffer'
  BY <1>3, Zenon DEF TicksDiffer, Entries
<1>4. ASSUME shard' = Empty PROVE TicksDiffer'
  BY <1>4 DEF TicksDiffer, Entries, Empty
<1>5. \A gone : Entries \ gone \subseteq Entries
  OBVIOUS
<1> QED
  BY <1>0, <1>1, <1>2, <1>3, <1>4, <1>5, ShardMoves, Zenon

\* A number below the span of the counter is what the counter shows.
LEMMA NoWrap == ASSUME NEW n \in Nat, n < CounterSpan PROVE n % CounterSpan = n
<1>1. CounterSpan \in Nat
  BY ScriptCacheConstants
<1>2. ASSUME NEW s \in Nat, n < s PROVE n % s = n
  BY <1>2
<1> QED
  BY <1>1, <1>2, Zenon

SizeInv == ShardIsBounded /\ CountIsExact /\ (clearing => Clears)

\* Every step keeps the shard within its bound, and the counter with it.
LEMMA SizeStep == ASSUME Typed, TicksDiffer, SizeInv, [Next]_vars PROVE SizeInv'
<1>0. /\ TypeOK /\ IsFiniteSet(Entries) /\ Cardinality(Entries) \in Nat
      /\ Cardinality(Entries) <= MaxEntries
  BY FS_CardinalityType DEF Typed, SizeInv, ShardIsBounded
<1>1. clearing' => Clears
  BY Zenon DEF SizeInv, Next, RequestStep, FreshHit, FreshMiss, Missing, Canonicalize, ReadMetadata,
     LookupByMetadata, ReadSource, ExactHit, ExactMiss, BeginCompile, CompileRefused, StartOver,
     Compiled, CompileFailed, InsertCompiled, DropPermit, Ask, Edit, Delete, Expire, ClearShard,
     ResetCount, vars, cache
<1>2. ASSUME Entries' = Entries, count' = count \/ Clears PROVE ShardIsBounded' /\ CountIsExact'
  BY <1>2, Zenon DEF SizeInv, ShardIsBounded, CountIsExact
\* Entries are dropped.
<1>3. ASSUME NEW gone \in SUBSET Entries
      PROVE  /\ IsFiniteSet(gone) /\ Cardinality(gone) \in Nat
             /\ Cardinality(Entries \ gone) = Cardinality(Entries) - Cardinality(gone)
             /\ Cardinality(Entries \ gone) \in Nat
             /\ count = Cardinality(Entries) => Dropped(gone) = Cardinality(Entries \ gone)
  <2>1. IsFiniteSet(gone) /\ Cardinality(gone) \in Nat
    BY <1>0, FS_Subset, FS_CardinalityType, Zenon
  <2>2. Entries \cap gone = gone
    OBVIOUS
  <2>3. /\ IsFiniteSet(Entries \ gone) /\ Cardinality(Entries \ gone) \in Nat
        /\ Cardinality(Entries \ gone) = Cardinality(Entries) - Cardinality(gone)
    BY <1>0, <2>2, FS_Difference, FS_CardinalityType, Zenon
  <2>4. Cardinality(Entries \ gone) < CounterSpan
    BY <1>0, <2>1, <2>3, ScriptCacheConstants
  <2>5. Cardinality(Entries \ gone) % CounterSpan = Cardinality(Entries \ gone)
    BY <2>3, <2>4, NoWrap
  <2> QED
    BY <2>1, <2>3, <2>5, Zenon DEF Dropped
<1>4. ASSUME NEW gone \in SUBSET Entries, Entries' = Entries \ gone,
             count' = Dropped(gone) \/ Clears
      PROVE  ShardIsBounded' /\ CountIsExact'
  <2>1. ShardIsBounded'
    <3>1. /\ Cardinality(gone) \in Nat
          /\ Cardinality(Entries \ gone) = Cardinality(Entries) - Cardinality(gone)
      BY <1>3, Zenon
    <3>2. Cardinality(Entries \ gone) <= MaxEntries
      BY <1>0, <3>1, ScriptCacheConstants
    <3> QED
      BY <1>4, <3>2, Zenon DEF ShardIsBounded
  <2>2. CountIsExact'
    BY <1>3, <1>4, Zenon DEF SizeInv, CountIsExact
  <2> QED
    BY <2>1, <2>2
\* An entry takes the room that is made for it.
<1>5. ASSUME NEW k \in EntryKeys \ Entries, Used(Room, k),
             count' = Added(Dropped(Entries \ Room))
      PROVE  ShardIsBounded' /\ CountIsExact'
  <2>1. /\ Room \subseteq Entries /\ IsFiniteSet(Room)
        /\ Cardinality(Room) \in Nat /\ Cardinality(Room) + 1 <= MaxEntries
    BY <1>0, RoomForOne
  <2>2. Entries' = Room \cup {k} /\ k \notin Room
    BY <1>5, <2>1 DEF Used, Entries
  <2>3. Cardinality(Entries') = Cardinality(Room) + 1
    BY <2>1, <2>2, FS_AddElement
  <2>4. ShardIsBounded'
    BY <2>1, <2>3 DEF ShardIsBounded
  <2>5. Entries \ Room \in SUBSET Entries /\ Entries \ (Entries \ Room) = Room
    BY <2>1
  <2>6. count = Cardinality(Entries) => Dropped(Entries \ Room) = Cardinality(Room)
    BY <1>3, <2>5, Zenon
  <2>7. (Cardinality(Room) + 1) % CounterSpan = Cardinality(Room) + 1
    BY <2>1, NoWrap, ScriptCacheConstants
  <2>8. CountIsExact'
    BY <1>5, <2>3, <2>6, <2>7, Zenon DEF SizeInv, CountIsExact, Added
  <2> QED
    BY <2>4, <2>8
<1>6. ASSUME Clears, shard' = Empty PROVE ShardIsBounded' /\ CountIsExact'
  <2>1. Entries' = Entries \ Entries
    BY <1>6 DEF Entries, Empty
  <2> QED
    BY <1>4, <1>6, <2>1
<1>7. ASSUME NEW gone \in SUBSET Entries,
             Kept(Entries \ gone) \/ \E k \in Entries \ gone : Used(Entries \ gone, k)
      PROVE  Entries' = Entries \ gone
  <2>1. Kept(Entries \ gone) => Entries' = Entries \ gone
    BY Zenon DEF Kept, Restrict, Entries
  <2>2. ASSUME NEW k \in Entries \ gone, Used(Entries \ gone, k) PROVE Entries' = Entries \ gone
    BY <2>2 DEF Used, Entries
  <2> QED
    BY <1>7, <2>1, <2>2, Zenon
<1>8. \A k \in Entries : Used(Entries, k) => Entries' = Entries
  BY DEF Used, Entries
<1>9. UNCHANGED shard => Entries' = Entries
  BY Zenon DEF Entries
<1>10. ShardIsBounded' /\ CountIsExact'
  BY <1>2, <1>4, <1>5, <1>6, <1>7, <1>8, <1>9, ShardMoves, Zenon DEF SizeInv
<1> QED
  BY <1>1, <1>10, Zenon DEF SizeInv

\* An empty shard.
LEMMA SizeInit == Init => TicksDiffer /\ SizeInv
<1> SUFFICES ASSUME Init PROVE TicksDiffer /\ SizeInv
  OBVIOUS
<1>1. Entries = {} /\ count = 0 /\ clearing = FALSE
  BY DEF Init, Entries, Empty
<1> QED
  BY <1>1, FS_EmptySet, ScriptCacheConstants
     DEF TicksDiffer, SizeInv, ShardIsBounded, CountIsExact

\* How many entries there are, in every reachable state.
THEOREM SizeInvariant == Spec => [](TicksDiffer /\ SizeInv)
<1>1. ScriptInv /\ TicksDiffer /\ SizeInv /\ [Next]_vars => (TicksDiffer /\ SizeInv)'
  BY TicksStep, SizeStep, Zenon DEF ScriptInv
<1> QED
  BY <1>1, SizeInit, ScriptInvariant, PTL DEF Spec

\* insert_compiled never leaves a shard with more than max_entries, whatever
\* lookups, evictions and clears it met on its way.
THEOREM ShardStaysBounded == Spec => []ShardIsBounded
<1>1. SizeInv => ShardIsBounded
  BY DEF SizeInv
<1> QED
  BY <1>1, SizeInvariant, PTL

\* stats().entries counts the entries exactly in a server that never clears the
\* cache: it neither drifts nor passes zero.
THEOREM EntriesAreCounted == Spec => []CountIsExact
<1>1. SizeInv => CountIsExact
  BY DEF SizeInv
<1> QED
  BY <1>1, SizeInvariant, PTL
-----------------------------------------------------------------------------
FreshVars == <<last, file, since, script, answer>>

WindowHit == \E r \in Requests : FreshHit(r)

\* A step of the cache is a step of FreshScripts, changes nothing a caller sees,
\* or serves an entry inside its check interval.
LEMMA FreshStep ==
  ASSUME ScriptInv, [Next]_vars
  PROVE  [Fresh!Next \/ WindowHit]_FreshVars
<1>1. /\ Typed /\ Reads
      /\ since \in [Requests -> 0 .. MaxVersion + 1]
      /\ answer \in [Requests -> Versions \cup {Failed}]
      /\ pc \in [Requests -> PcSteps] /\ src \in [Requests -> Versions]
      /\ last \in [Paths -> Versions]
      /\ Entries \subseteq EntryKeys /\ MaxVersion \in Nat /\ Versions = 0 .. MaxVersion
  BY ScriptCacheConstants, Zenon DEF ScriptInv, Reads, Typed, TypeOK, Versions
<1>2. \A r \in Requests : pc[r] # "idle" => script[r] \in Paths /\ script[r] # NoScript
  BY <1>1, Running DEF Typed
<1>3. ASSUME NEW r \in Requests, NEW v \in Versions \cup {Failed},
             pc[r] \notin {"idle", "release", "done"},
             v = Failed \/ (since[r] <= v /\ v <= last[script[r]]),
             Reply(r, v), UNCHANGED <<last, file, since, script>>
      PROVE  Fresh!Next
  <2>1. script[r] \in Paths /\ script[r] # NoScript /\ answer[r] = 0 /\ 1 <= since[r]
    BY <1>1, <1>2, <1>3, Zenon DEF Reads, RequestInv
  <2>2. last[script[r]] \in 0 .. MaxVersion /\ since[r] \in Nat
    BY <1>1, <2>1
  <2>3. v \in (1 .. MaxVersion) \cup {Failed} /\ (v = Failed \/ v \in since[r] .. last[script[r]])
    BY <1>1, <1>3, <2>1, <2>2
  <2>4. Fresh!Answer(r, v)
    BY <1>3, <2>1, <2>3, Zenon DEF Fresh!Answer, Fresh!NoScript, Fresh!Failed, NoScript, Failed, Reply
  <2> QED
    BY <2>3, <2>4, Zenon DEF Fresh!Next, Fresh!Failed, Failed
<1>4. ASSUME NEW r \in Requests, NEW p \in Paths, Ask(r, p) PROVE Fresh!Next
  <2>1. script[r] = NoScript
    BY <1>1, <1>4, Zenon DEF Ask, Typed
  <2>2. Fresh!Ask(r, p)
    BY <1>4, <2>1, Zenon DEF Ask, files, Fresh!Ask, Fresh!Oldest, Fresh!NoScript, NoScript
  <2> QED
    BY <2>2, Zenon DEF Fresh!Next
<1>5. ASSUME NEW p \in Paths, Edit(p) \/ Delete(p) PROVE Fresh!Next
  BY <1>5, Zenon DEF Edit, Delete, Fresh!Next, Fresh!Edit, Fresh!Delete
<1>6. ASSUME \/ \E k \in fresh : Expire(k)
             \/ ClearShard \/ ResetCount \/ UNCHANGED vars
      PROVE  UNCHANGED FreshVars
  BY <1>6, Zenon DEF Expire, ClearShard, ResetCount, vars, files, FreshVars
<1>7. ASSUME NEW r \in Requests, RequestStep(r) PROVE Fresh!Next \/ WindowHit \/ UNCHANGED FreshVars
  <2>1. CASE FreshHit(r)
    BY <2>1 DEF WindowHit
  <2>2. CASE \/ FreshMiss(r) \/ Canonicalize(r) \/ ReadMetadata(r) \/ ReadSource(r) \/ ExactMiss(r)
             \/ BeginCompile(r) \/ CompileRefused(r) \/ StartOver(r) \/ Compiled(r) \/ DropPermit(r)
    BY <2>2, Zenon DEF FreshMiss, Canonicalize, ReadMetadata, ReadSource, ExactMiss, BeginCompile,
                CompileRefused, StartOver, Compiled, DropPermit, files, FreshVars
  <2>3. CASE Missing(r) \/ CompileFailed(r)
    BY <1>3, <2>3, Zenon DEF Missing, CompileFailed, files
  <2>4. CASE ExactHit(r) \/ InsertCompiled(r)
    <3>1. pc[r] \in {"exact", "guarded", "insert"} /\ Reply(r, src[r])
          /\ UNCHANGED <<last, file, since, script>>
      BY <2>4, Zenon DEF ExactHit, InsertCompiled, files
    <3>2. /\ since[r] <= meta[r] /\ meta[r] <= src[r] /\ src[r] <= last[script[r]]
          /\ since[r] \in Nat /\ meta[r] \in Nat /\ src[r] \in Nat /\ src[r] \in Versions
      BY <1>1, <3>1 DEF Reads, RequestInv, ReadSteps, SourceSteps, Typed, TypeOK
    <3>3. since[r] <= src[r]
      BY <3>2
    <3> QED
      BY <1>3, <3>1, <3>2, <3>3, Zenon
  <2>5. CASE LookupByMetadata(r)
    <3>1. pc[r] = "bymeta" /\ UNCHANGED <<last, file, since, script>>
      BY <2>5, Zenon DEF LookupByMetadata, files
    <3>2. CASE UNCHANGED answer
      BY <3>1, <3>2 DEF FreshVars
    <3>3. CASE \E k \in Entries : Matches(k, r) /\ Reply(r, k.src)
      <4>1. PICK k \in Entries : Matches(k, r) /\ Reply(r, k.src)
        BY <3>3
      <4>2. /\ k.path = script[r] /\ k.meta = meta[r] /\ k.src \in Versions /\ k.meta \in Versions
            /\ k.meta <= k.src /\ k.src <= last[k.path]
        BY <1>1, <4>1 DEF Matches, EntryKeys, Reads, EntriesAreNotStale
      <4>3. since[r] <= meta[r] /\ since[r] \in Nat
        BY <1>1, <3>1 DEF Reads, RequestInv, ReadSteps
      <4>4. since[r] <= k.src
        BY <1>1, <4>2, <4>3
      <4> QED
        BY <1>3, <3>1, <4>1, <4>2, <4>4, Zenon
    <3> QED
      BY <2>5, <3>2, <3>3, Zenon DEF LookupByMetadata
  <2> QED
    BY <1>7, <2>1, <2>2, <2>3, <2>4, <2>5, Zenon DEF RequestStep
<1> QED
  BY <1>4, <1>5, <1>6, <1>7, Zenon DEF Next

\* The cache is invisible but for its check interval: for any number of
\* requests, files, edits and clears, every request gets a version of its
\* script that the file had while the request ran, or an entry that was checked
\* less than check_interval ago.
THEOREM CacheIsInvisible == Spec => ServesFreshScripts
<1>1. Init => Fresh!Init
  BY DEF Init, Fresh!Init, Fresh!NoScript, NoScript
<1>2. ScriptInv /\ [Next]_vars => [Fresh!Next \/ WindowHit]_FreshVars
  BY FreshStep
<1> QED
  BY <1>1, <1>2, ScriptInvariant, PTL DEF Spec, ServesFreshScripts, WindowHit, FreshVars

\* With check_interval zero the cache implements FreshScripts: no request is
\* served a version its file did not have while it ran.
THEOREM ZeroIntervalIsInvisible == ~Windowed => (Spec => Fresh!Spec)
<1> SUFFICES ASSUME ~Windowed PROVE Spec => Fresh!Spec
  OBVIOUS
<1>1. Init => Fresh!Init
  BY DEF Init, Fresh!Init, Fresh!NoScript, NoScript
<1>2. ~WindowHit
  BY DEF WindowHit, FreshHit, Unchecked
<1>3. ScriptInv /\ [Next]_vars => [Fresh!Next]_FreshVars
  BY FreshStep, <1>2, Zenon
<1> QED
  BY <1>1, <1>3, ScriptInvariant, PTL DEF Spec, Fresh!Spec, FreshVars
-----------------------------------------------------------------------------
(***************************************************************************)
(* The persistent cache (NativeDiskCache), for every set of processes,     *)
(* modes, faults and number of calls.                                      *)
(***************************************************************************)
\* Outside any call; between acquire_lock and the rename; writing the artifact.
Quiet == {"new", "idle"}
Section == {"record", "recheck", "compile", "create", "write", "rename"}
Storing == {"create", "write", "rename"}
DiskPlaces ==
  {"dead", "peek", "discard", "load", "quarantine", "lock", "probe", "stat", "reap",
   "sleep", "unlock", "reload"} \cup Quiet \cup Section

\* Whatever happens, only a temporary file that is complete, or was cleared
\* away, is renamed.
FilesOK ==
  /\ at \in [Processes -> DiskPlaces]
  /\ temp \in [Processes -> {"none", "partial", "whole"}]
  /\ artifact \in {"none", "whole", "damaged"}
  /\ \A p \in Processes : at[p] = "rename" => temp[p] # "partial"

LockOK ==
  /\ lock \in [by : Processes \cup {"none"}, pid : BOOLEAN, old : BOOLEAN]
  /\ lock.by = "none" => lock = NoLock

\* Until there is an artifact the lock file stays with the one process between
\* acquire_lock and the rename.
Unpublished ==
  /\ \A p \in Processes : at[p] \notin {"reap", "unlock", "reload"}
  /\ \A p \in Processes : at[p] \in Section => lock.by = p
  /\ \A p \in Processes : at[p] \in {"probe", "stat", "sleep"} =>
       lock # NoLock
  /\ lock # NoLock =>
       at[lock.by] \in Section /\ ~lock.old /\ (lock.pid \/ at[lock.by] = "record")

\* From then on nobody compiles, though a late Drop may take the lock of
\* another process.
Published == \A p \in Processes : at[p] \notin {"compile"} \cup Storing

\* What holds as long as nothing has gone wrong.
Serial ==
  /\ \A p \in Processes : at[p] \notin {"dead", "quarantine", "discard"}
  /\ \A p \in Processes : at[p] \notin Quiet => CanRead(p)
  /\ artifact # "damaged"
  /\ \A p \in Processes : at[p] = "write" => temp[p] # "none"
  /\ \A p \in Processes : at[p] = "rename" => temp[p] = "whole"
  /\ artifact = "none" => Unpublished
  /\ artifact = "whole" => Published
  /\ compiles \in 0 .. 1
  /\ compiles = 1 =>
       artifact = "whole" \/ \E p \in Processes : at[p] \in Storing

DiskInv == FilesOK /\ LockOK /\ faulty \in BOOLEAN /\ (~faulty => Serial)

\* Steps that open, read or look at files and change none.
Looks(p) ==
  \/ Call(p) \/ Peek(p) \/ Load(p) \/ Probe(p) \/ Stat(p)
  \/ Sleep(p) \/ Recheck(p) \/ Reload(p) \/ Timeout(p) \/ LockFails(p)
-----------------------------------------------------------------------------
\* An empty directory.
LEMMA DiskInitInv == DiskInit => DiskInv
<1> SUFFICES ASSUME DiskInit PROVE DiskInv
  OBVIOUS
<1>1. FilesOK
  BY DEF DiskInit, FilesOK, DiskPlaces, Quiet
<1>2. LockOK
  BY DEF DiskInit, LockOK, NoLock
<1>3. Serial
  BY DEF DiskInit, Serial, Unpublished, Section, Quiet, NoLock
<1> QED
  BY <1>1, <1>2, <1>3, Zenon DEF DiskInit, DiskInv

\* Every step, faults included, keeps the files in order.
LEMMA FilesStep ==
  ASSUME FilesOK, DiskNext PROVE FilesOK'
<1> USE DEF FilesOK, DiskPlaces, Quiet, Section
<1>1. ASSUME NEW p \in Processes, Looks(p) PROVE FilesOK'
  <2>1. UNCHANGED <<temp, artifact>>
    BY <1>1, Zenon DEF Looks, Call, Peek, Load, Probe, Stat, Sleep,
       Recheck, Reload, Timeout, LockFails, onDisk
  <2>2. PICK place \in DiskPlaces \ {"rename"} : at' = [at EXCEPT ![p] = place]
    BY <1>1, Zenon DEF Looks, Call, Peek, Load, Probe, Stat, Sleep,
       Recheck, Reload, Timeout, LockFails, Move, End
  <2> QED
    BY <2>1, <2>2
<1>2. ASSUME NEW p \in Processes,
             \/ Quarantine(p) \/ TryLock(p) \/ Record(p) \/ RecordFails(p)
             \/ Reap(p) \/ Compile(p) \/ Unlock(p)
      PROVE  FilesOK'
  BY <1>2 DEF Quarantine, TryLock, Record, RecordFails, Reap, Compile,
     Unlock, Move, End, onDisk
<1>3. ASSUME NEW p \in Processes,
             CreateTemp(p) \/ WriteTemp(p) \/ Rename(p)
      PROVE  FilesOK'
  BY <1>3 DEF CreateTemp, WriteTemp, Rename, Move
<1>4. ASSUME NEW p \in Processes, Crash(p) PROVE FilesOK'
  BY <1>4 DEF Crash, Move
<1>5. CASE HostCrash
  BY <1>5 DEF HostCrash
<1>6. CASE Age \/ Clear
  BY <1>6 DEF Age, Clear
<1> QED
  BY <1>1, <1>2, <1>3, <1>4, <1>5, <1>6, Zenon DEF DiskNext, Step, Looks

\* A lock file has the owner that created it.
LEMMA LockStep ==
  ASSUME LockOK, DiskNext PROVE LockOK'
<1>1. CASE UNCHANGED lock
  BY <1>1 DEF LockOK
<1>2. CASE lock' = NoLock
  BY <1>2 DEF LockOK, NoLock
<1>3. ASSUME NEW p \in Processes, TryLock(p) PROVE LockOK'
  <2>1. CASE lock = NoLock
    <3>1. lock' = [NoLock EXCEPT !.by = p]
      BY <1>3, <2>1, Zenon DEF TryLock
    <3>2. p # "none"
      BY DiskAssumption, Zenon
    <3>3. lock' = [by |-> p, pid |-> FALSE, old |-> FALSE]
      BY <3>1, Zenon DEF NoLock
    <3>4. lock'.by # "none"
      BY <3>2, <3>3
    <3>5. lock' \in [by : Processes \cup {"none"}, pid : BOOLEAN, old : BOOLEAN]
      BY <3>3
    <3> QED
      BY <3>4, <3>5, Zenon DEF LockOK
  <2>2. CASE lock # NoLock
    <3>1. UNCHANGED lock
      BY <1>3, <2>2, Zenon DEF TryLock
    <3> QED
      BY <1>1, <3>1, Zenon
  <2> QED
    BY <2>1, <2>2, Zenon
<1>4. ASSUME NEW p \in Processes, Record(p) PROVE LockOK'
  BY <1>4, DiskAssumption, Zenon DEF Record, LockOK, NoLock
<1>10. ASSUME NEW p \in Processes, RecordFails(p) PROVE LockOK'
  <2>1. PICK written \in BOOLEAN :
          lock' = IF lock.by = p THEN [lock EXCEPT !.pid = written] ELSE lock
    BY <1>10, Zenon DEF RecordFails
  <2> QED
    BY <2>1, DiskAssumption, Zenon DEF LockOK, NoLock
<1>5. CASE Age
  BY <1>5, Zenon DEF Age, LockOK
<1>6. ASSUME NEW p \in Processes, Looks(p) \/ Quarantine(p) \/ Compile(p)
      PROVE  UNCHANGED lock
  BY <1>6, Zenon DEF Looks, Call, Peek, Load, Probe, Stat, Sleep,
     Recheck, Reload, Timeout, LockFails, Quarantine, Compile, onDisk
<1>7. ASSUME NEW p \in Processes,
             CreateTemp(p) \/ WriteTemp(p) \/ Rename(p) \/ Crash(p)
      PROVE  UNCHANGED lock
  BY <1>7 DEF CreateTemp, WriteTemp, Rename, Crash
<1>8. ASSUME NEW p \in Processes, Reap(p) \/ Unlock(p)
      PROVE  lock' = NoLock
  BY <1>8 DEF Reap, Unlock
<1>9. ASSUME HostCrash \/ Clear
      PROVE  UNCHANGED lock \/ lock' = NoLock
  BY <1>9 DEF HostCrash, Clear
<1> QED
  BY <1>1, <1>2, <1>3, <1>4, <1>5, <1>6, <1>7, <1>8, <1>9, <1>10, Zenon DEF DiskNext, Step,
     Looks

\* Nothing excuses a second compilation that did not excuse it before.
LEMMA FaultyStep ==
  ASSUME faulty \in BOOLEAN, DiskNext PROVE faulty' \in BOOLEAN /\ (faulty => faulty')
<1>1. ASSUME NEW p \in Processes,
             \/ Step(p) \/ Call(p) \/ Timeout(p)
             \/ RecordFails(p) \/ LockFails(p) \/ Crash(p)
      PROVE  faulty' \in BOOLEAN /\ (faulty => faulty')
  BY <1>1, Zenon DEF Step, Call, Timeout, RecordFails, LockFails, Crash, Find, Peek, Load,
     Quarantine, TryLock, Record, Probe, Stat, Reap,
     Sleep, Recheck, Compile, CreateTemp, WriteTemp, Rename,
     Unlock, Reload
<1> QED
  BY <1>1, Zenon DEF DiskNext, HostCrash, Age, Clear

\* The steps of a process that leave the files alone.
LEMMA SerialLooks ==
  ASSUME FilesOK, LockOK, Serial, ~faulty', NEW p \in Processes, Looks(p)
  PROVE  Serial'
<1>f. ASSUME NEW found, Find(found) PROVE found = artifact
  BY <1>f DEF Find, FilesOK, Serial
<1>1. UNCHANGED <<lock, temp, artifact, compiles>>
  BY DEF Looks, Call, Peek, Load, Probe, Stat, Sleep,
     Recheck, Reload, Timeout, LockFails, onDisk
<1>2. PICK place \in DiskPlaces : at' = [at EXCEPT ![p] = place]
  BY Zenon DEF Looks, Call, Peek, Load, Probe, Stat, Sleep,
     Recheck, Reload, Timeout, LockFails, Move, End, DiskPlaces, Quiet,
     Section
<1>3. place \notin Quiet => CanRead(p)
  BY <1>2, Zenon DEF Looks, Call, Peek, Load, Probe, Stat, Sleep,
     Recheck, Reload, Timeout, LockFails, Move, End, Serial, FilesOK, Quiet
<1>4. place \notin {"dead", "quarantine", "discard", "write", "rename", "create"}
  BY <1>2, <1>f, Zenon DEF Looks, Call, Peek, Load, Probe, Stat, Sleep,
     Recheck, Reload, Timeout, LockFails, Move, End, Serial, FilesOK
<1>5. at[p] \notin Storing \cup {"record"}
  BY Zenon DEF Looks, Call, Peek, Load, Probe, Stat, Sleep,
     Recheck, Reload, Timeout, LockFails, Storing
<1>6. ASSUME artifact = "none" PROVE Unpublished'
  <2>1. place \notin {"reap", "unlock", "reload"}
    BY <1>2, <1>6, <1>f, Zenon DEF Looks, Call, Peek, Load, Probe, Stat,
       Sleep, Recheck, Reload, Timeout, LockFails, Move, End, Serial,
       FilesOK, Unpublished, Alive, Section
  <2>2. place \in Section <=> at[p] \in Section
    BY <1>2, <1>6, <1>f, Zenon DEF Looks, Call, Peek, Load, Probe, Stat,
       Sleep, Recheck, Reload, Timeout, LockFails, Move, End, Serial,
       FilesOK, Section
  <2>3. place \in {"probe", "stat", "sleep"} => lock # NoLock
    BY <1>2, <1>6, Zenon DEF Looks, Call, Peek, Load, Probe, Stat,
       Sleep, Recheck, Reload, Timeout, LockFails, Move, End, Serial,
       FilesOK, Unpublished
  <2> QED
    BY <1>1, <1>2, <1>5, <1>6, <2>1, <2>2, <2>3 DEF Unpublished, Serial, FilesOK
<1>7. ASSUME artifact = "whole" PROVE Published'
  <2>1. place # "compile"
    BY <1>2, <1>7, <1>f, Zenon DEF Looks, Call, Peek, Load, Probe, Stat,
       Sleep, Recheck, Reload, Timeout, LockFails, Move, End, Serial,
       FilesOK, Quiet
  <2> QED
    BY <1>1, <1>2, <1>4, <1>7, <2>1, Zenon DEF Published, Serial, FilesOK, Storing
<1>8. compiles = 1 =>
        artifact = "whole" \/ \E q \in Processes : at'[q] \in Storing
  BY <1>2, <1>5 DEF Serial, FilesOK
<1> QED
  BY <1>1, <1>2, <1>3, <1>4, <1>6, <1>7, <1>8, Zenon DEF Serial, FilesOK, CanRead

\* The lock is taken, marked and given back.
LEMMA SerialLocks ==
  ASSUME FilesOK, LockOK, Serial, NEW p \in Processes,
         TryLock(p) \/ Record(p) \/ Reap(p) \/ Unlock(p)
  PROVE  Serial'
<1>1. UNCHANGED <<temp, artifact, compiles>>
  BY DEF TryLock, Record, Reap, Unlock
<1>2. PICK place \in {"record", "probe", "recheck", "lock", "reload", "idle"} :
        at' = [at EXCEPT ![p] = place]
  BY DEF TryLock, Record, Reap, Unlock, Move
<1>3. CanRead(p) /\ at[p] \notin {"compile"} \cup Storing
  BY DEF TryLock, Record, Reap, Unlock, Serial, Quiet, Storing
<1>4. ASSUME artifact = "none" PROVE Unpublished'
  <2>1. CASE TryLock(p) /\ lock = NoLock
    BY <1>4, <2>1, DiskAssumption DEF TryLock, Move, Unpublished, Serial, FilesOK,
       LockOK, NoLock, Section
  <2>2. CASE TryLock(p) /\ lock # NoLock
    BY <1>4, <2>2 DEF TryLock, Move, Unpublished, Serial, FilesOK, LockOK, Section
  <2>3. CASE Record(p)
    BY <1>4, <2>3, DiskAssumption DEF Record, Move, Unpublished, Serial, FilesOK,
       LockOK, NoLock, Section
  <2>4. ~Reap(p) /\ ~Unlock(p)
    BY <1>4 DEF Reap, Unlock, Unpublished, Serial
  <2> QED
    BY <2>1, <2>2, <2>3, <2>4, Zenon
<1>5. ASSUME artifact = "whole" PROVE Published'
  BY <1>2, <1>5 DEF Published, Serial, FilesOK, Storing
<1>6. compiles = 1 =>
        artifact = "whole" \/ \E q \in Processes : at'[q] \in Storing
  BY <1>2, <1>3 DEF Serial, FilesOK
<1> QED
  BY <1>1, <1>2, <1>3, <1>4, <1>5, <1>6, Zenon DEF Serial, FilesOK, CanRead

\* The one compilation and its way to disk.
LEMMA SerialStores ==
  ASSUME FilesOK, LockOK, Serial, ~faulty', NEW p \in Processes,
         Compile(p) \/ CreateTemp(p) \/ WriteTemp(p) \/ Rename(p)
  PROVE  Serial'
<1>1. artifact = "none" /\ lock.by = p /\ at[p] \in Section /\ UNCHANGED lock
  BY DEF Compile, CreateTemp, WriteTemp, Rename, Serial, FilesOK,
     Published, Unpublished, Section, Storing, onDisk
<1>2. \A q \in Processes \ {p} : at[q] \notin Section
  BY <1>1, Zenon DEF Serial, Unpublished
<1>3. lock # NoLock /\ CanRead(p)
  BY <1>1, DiskAssumption DEF NoLock, Serial, Quiet, Section
<1>f. faulty' # TRUE
  BY Zenon
<1>p. lock.pid
  <2>1. at[p] # "record" /\ Unpublished
    BY <1>1 DEF Compile, CreateTemp, WriteTemp, Rename, Serial
  <2> QED
    BY <1>1, <1>3, <2>1, Zenon DEF Unpublished
<1>u. ASSUME NEW place \in Section, at' = [at EXCEPT ![p] = place] PROVE Unpublished'
  <2>0. Unpublished
    BY <1>1, Zenon DEF Serial
  <2>1. at'[p] = place /\ lock' = lock /\ \A q \in Processes \ {p} : at'[q] = at[q]
    BY <1>1, <1>u, Zenon DEF FilesOK
  <2>2. \A q \in Processes : at'[q] \notin {"reap", "unlock", "reload"}
    BY <2>0, <2>1 DEF Unpublished, Section
  <2>3. \A q \in Processes : at'[q] \in Section => lock'.by = q
    BY <1>1, <1>2, <2>1, Zenon
  <2>4. lock' # NoLock /\ at'[lock'.by] \in Section /\ ~lock'.old /\ lock'.pid
    BY <1>1, <1>3, <1>p, <2>0, <2>1, Zenon DEF Unpublished
  <2> QED
    BY <2>2, <2>3, <2>4, Zenon DEF Unpublished
<1>4. CASE Compile(p)
  <2>1. at' = [at EXCEPT ![p] = "create"] /\ UNCHANGED <<artifact, temp>>
    BY <1>4, <1>f DEF Compile, Move, onDisk
  <2>a. at[p] = "compile"
    BY <1>4 DEF Compile
  <2>b. \A q \in Processes : at[q] \notin Storing
    BY <1>2, <2>a DEF Section, Storing
  <2>c. compiles \in 0 .. 1 /\ compiles # 1
    BY <1>1, <2>b, Zenon DEF Serial
  <2>2. compiles = 0
    BY <2>c
  <2>3. compiles' = 1
    BY <1>4, <2>2 DEF Compile
  <2>4. /\ at'[p] = "create"
        /\ \A q \in Processes \ {p} : at'[q] = at[q]
        /\ \A q \in Processes : CanRead(q)' = CanRead(q)
    BY <2>1, Zenon DEF FilesOK, CanRead
  <2>5. Unpublished'
    BY <1>u, <2>1, Zenon DEF Section
  <2>6. \A q \in Processes : /\ at'[q] \notin {"dead", "quarantine", "discard"}
                             /\ at'[q] \notin Quiet => CanRead(q)'
    BY <1>3, <2>4, Zenon DEF Serial
  <2>7. \A q \in Processes : /\ at'[q] = "write" => temp'[q] # "none"
                             /\ at'[q] = "rename" => temp'[q] = "whole"
    BY <2>1, <2>4, Zenon DEF Serial
  <2>8. artifact' = "none" /\ compiles' \in 0 .. 1
    BY <1>1, <2>1, <2>3
  <2>9. at'[p] \in Storing
    BY <2>4, Zenon DEF Storing
  <2> QED
    BY <2>5, <2>6, <2>7, <2>8, <2>9, Zenon DEF Serial
<1>5. CASE CreateTemp(p)
  <2>1. at' = [at EXCEPT ![p] = "write"]
    BY <1>5, Zenon DEF CreateTemp, Move
  <2>2. Unpublished'
    BY <1>u, <2>1, Zenon DEF Section
  <2> QED
    BY <1>1, <1>3, <1>5, <2>1, <2>2, Zenon DEF CreateTemp, Serial, FilesOK, Storing, CanRead
<1>6. CASE WriteTemp(p)
  <2>1. /\ at' = [at EXCEPT ![p] = "rename"] /\ temp' = [temp EXCEPT ![p] = "whole"]
        /\ UNCHANGED <<artifact, compiles>>
    BY <1>6, <1>f DEF WriteTemp, Move, Serial, FilesOK
  <2>2. Unpublished'
    BY <1>u, <2>1, Zenon DEF Section
  <2> QED
    BY <1>1, <1>3, <2>1, <2>2, Zenon DEF Serial, FilesOK, Storing, CanRead
<1>7. CASE Rename(p)
  <2>1. artifact' = "whole" /\ at' = [at EXCEPT ![p] = "unlock"]
    BY <1>7 DEF Rename, Move, Serial
  <2> QED
    BY <1>2, <1>3, <1>7, <2>1, Zenon DEF Rename, Serial, FilesOK, Published, Section,
       Storing, CanRead
<1> QED
  BY <1>4, <1>5, <1>6, <1>7

\* Every step that is no fault.
LEMMA SerialStep ==
  ASSUME FilesOK, LockOK, Serial, faulty \in BOOLEAN, ~faulty', DiskNext
  PROVE  Serial'
<1>1. ASSUME NEW p \in Processes PROVE ~Quarantine(p) /\ ~RecordFails(p) /\ ~Crash(p)
  BY <1>1 DEF Quarantine, RecordFails, Crash, Serial
<1>2. ~HostCrash /\ ~Clear
  BY DEF HostCrash, Clear
<1>3. CASE Age
  <2>1. /\ lock # NoLock /\ ~lock.pid /\ at[lock.by] # "record"
        /\ UNCHANGED <<at, artifact, temp, compiles>>
    BY <1>3, Zenon DEF Age
  <2>2. lock.by \in Processes
    BY <2>1 DEF LockOK
  <2>3. artifact = "whole"
    BY <2>1, <2>2, Zenon DEF Serial, FilesOK, Unpublished
  <2> QED
    BY <2>1, <2>3, Zenon DEF Serial, Published, CanRead
<1> QED
  BY <1>1, <1>2, <1>3, SerialLooks, SerialLocks, SerialStores, Zenon DEF DiskNext, Step,
     Looks

\* The inductive invariant holds in every reachable state.
THEOREM DiskInvariant == DiskSpec => []DiskInv
<1>1. DiskInv /\ [DiskNext]_diskVars => DiskInv'
  <2> SUFFICES ASSUME DiskInv, [DiskNext]_diskVars PROVE DiskInv'
    OBVIOUS
  <2>1. CASE DiskNext
    <3>1. FilesOK' /\ LockOK' /\ faulty' \in BOOLEAN /\ (faulty => faulty')
      BY <2>1, FilesStep, LockStep, FaultyStep DEF DiskInv
    <3>2. ~faulty' => Serial'
      BY <2>1, <3>1, SerialStep DEF DiskInv
    <3> QED
      BY <3>1, <3>2 DEF DiskInv
  <2>2. CASE UNCHANGED diskVars
    BY <2>2 DEF diskVars, onDisk, DiskInv, FilesOK, LockOK, Serial, Unpublished,
       Published, CanRead
  <2> QED
    BY <2>1, <2>2
<1> QED
  BY DiskInitInv, <1>1, PTL DEF DiskSpec

\* A partly written file never stands under the artifact's name, wherever
\* processes crash and writes fail, and even when two processes hold the lock.
THEOREM ArtifactsStayWhole == DiskSpec => []ArtifactsAreWhole
<1>1. DiskInv => ArtifactsAreWhole
  BY DEF DiskInv, FilesOK, ArtifactsAreWhole
<1> QED
  BY <1>1, DiskInvariant, PTL

\* Processes that meet no fault compile an artifact once between them, although
\* each of them removes the lock file by name.
THEOREM ProcessesCompileOnce == DiskSpec => []CompiledOnce
<1>1. DiskInv => CompiledOnce
  BY DEF DiskInv, Serial, CompiledOnce
<1> QED
  BY <1>1, DiskInvariant, PTL

\* A process with a lock file goes on under it, dies, drops it or has failed to
\* write its record.
LEMMA OwnerStep ==
  ASSUME FilesOK, LockOK, ~Abandoned, DiskNext, \A p \in Processes : ~RecordFails(p)
  PROVE  ~Abandoned'
<1> DEFINE Held == UnderLock \cup {"dead"}
<1>0. at \in [Processes -> DiskPlaces] /\ (lock # NoLock => lock.by \in Processes)
  BY DEF FilesOK, LockOK
<1>n. ASSUME lock' = NoLock PROVE ~Abandoned'
  BY <1>n, Zenon DEF Abandoned
<1>m. ASSUME NEW p \in Processes, NEW place, Move(p, place), lock' = lock,
             at[p] \in Held => place \in Held
      PROVE  ~Abandoned'
  <2> SUFFICES ASSUME lock # NoLock PROVE at'[lock.by] \in Held
    BY <1>m, Zenon DEF Abandoned
  <2>1. at[lock.by] \in Held /\ lock.by \in Processes
    BY <1>0, Zenon DEF Abandoned
  <2>2. CASE lock.by = p
    BY <1>0, <1>m, <2>1, <2>2, Zenon DEF Move
  <2>3. CASE lock.by # p
    BY <1>0, <1>m, <2>1, <2>3, Zenon DEF Move
  <2> QED
    BY <2>2, <2>3
<1>1. ASSUME NEW p \in Processes,
             Looks(p) \/ Quarantine(p) \/ Compile(p) \/ CreateTemp(p) \/ WriteTemp(p)
             \/ Rename(p) \/ Crash(p)
      PROVE  ~Abandoned'
  <2>1. lock' = lock
    BY <1>1, Zenon DEF Looks, Call, Peek, Load, Probe, Stat, Sleep, Recheck, Reload, Timeout,
       LockFails, Quarantine, Compile, CreateTemp, WriteTemp, Rename, Crash, onDisk
  <2>2. \/ at[p] \notin Held /\ \E place : Move(p, place)
        \/ \E place \in Held : Move(p, place)
    <3>1. CASE Call(p) \/ Peek(p) \/ Load(p) \/ Quarantine(p)
      BY <3>1, Zenon DEF Call, Peek, Load, Quarantine, End, UnderLock
    <3>2. CASE Probe(p) \/ Stat(p) \/ Sleep(p) \/ Timeout(p) \/ Reload(p) \/ LockFails(p)
      BY <3>2, Zenon DEF Probe, Stat, Sleep, Timeout, Reload, LockFails, End, UnderLock
    <3>3. CASE \/ Recheck(p) \/ Compile(p) \/ CreateTemp(p) \/ WriteTemp(p) \/ Rename(p)
               \/ Crash(p)
      BY <3>3, Zenon DEF Recheck, Compile, CreateTemp, WriteTemp, Rename, Crash, UnderLock
    <3> QED
      BY <1>1, <3>1, <3>2, <3>3, Zenon DEF Looks
  <2> QED
    BY <1>m, <2>1, <2>2, Zenon
<1>2. ASSUME NEW p \in Processes, TryLock(p) PROVE ~Abandoned'
  <2>1. CASE lock = NoLock
    <3>1. lock'.by = p /\ at' = [at EXCEPT ![p] = "record"]
      BY <1>2, <2>1, Zenon DEF TryLock, Move, NoLock
    <3>2. at'[lock'.by] = "record"
      BY <1>0, <3>1, Zenon
    <3> QED
      BY <3>2, Zenon DEF Abandoned, UnderLock
  <2>2. CASE lock # NoLock
    <3>1. at[p] \notin Held /\ Move(p, "probe") /\ lock' = lock
      BY <1>2, <2>2, Zenon DEF TryLock, UnderLock
    <3> QED
      BY <1>m, <3>1, Zenon
  <2> QED
    BY <2>1, <2>2
<1>3. ASSUME NEW p \in Processes, Record(p) PROVE ~Abandoned'
  <2>1. CASE lock.by = p
    <3>1. lock'.by = p /\ at' = [at EXCEPT ![p] = "recheck"]
      BY <1>3, <2>1 DEF Record, Move, LockOK
    <3>2. at'[lock'.by] = "recheck"
      BY <1>0, <3>1, Zenon
    <3> QED
      BY <3>2, Zenon DEF Abandoned, UnderLock
  <2>2. CASE lock.by # p
    <3>1. lock' = lock /\ Move(p, "recheck")
      BY <1>3, <2>2, Zenon DEF Record
    <3> QED
      BY <1>m, <3>1, Zenon DEF UnderLock
  <2> QED
    BY <2>1, <2>2
<1>4. ASSUME NEW p \in Processes, Reap(p) \/ Unlock(p) PROVE ~Abandoned'
  BY <1>4, <1>n, Zenon DEF Reap, Unlock
<1>5. CASE HostCrash
  <2>1. /\ lock' = lock
        /\ at' = [p \in Processes |-> IF at[p] = "new" THEN "new" ELSE "dead"]
    BY <1>5, Zenon DEF HostCrash
  <2> QED
    BY <1>0, <2>1 DEF Abandoned, UnderLock
<1>6. CASE Age
  <2>1. lock # NoLock /\ lock'.by = lock.by /\ at' = at
    BY <1>6 DEF Age, LockOK
  <2> QED
    BY <2>1, Zenon DEF Abandoned
<1>7. CASE Clear
  <2>1. at' = at /\ (lock' = NoLock \/ lock' = lock)
    BY <1>7, Zenon DEF Clear
  <2> QED
    BY <1>n, <2>1, Zenon DEF Abandoned
<1> QED
  BY <1>1, <1>2, <1>3, <1>4, <1>5, <1>6, <1>7, Zenon DEF DiskNext, Step, Looks

\* A process that goes on leaves its lock file behind only if it could not write
\* its owner record, whatever crashes, is cleared or is reaped by mistake.
THEOREM LocksAreOwned == DiskSpec => LocksHaveOwner
<1>1. ASSUME DiskInv, [DiskNext]_diskVars
      PROVE  [Abandoned' => Abandoned \/ \E p \in Processes : RecordFails(p)]_diskVars
  BY <1>1, OwnerStep DEF DiskInv
<1> QED
  BY <1>1, DiskInvariant, PTL DEF DiskSpec, LocksHaveOwner
=============================================================================
