---------------------------- MODULE IncludeCache ----------------------------
(***************************************************************************)
(* The process's include cache, IncludeCache of crates/php_vm/src/include: *)
(* its resolution cache and its compiled cache, as calls of several worker *)
(* threads use them for one include path.  The included file is "main";    *)
(* compiling it also reads "dep", a file that declares a trait it uses.    *)
(*                                                                         *)
(* A version of a file stands for its OpenedSourceIdentity, which an edit  *)
(* changes.  Each action is one critical section of a shard's lock or one  *)
(* access to the file system; Resolve, Negative and Probe are one of each, *)
(* a copy of an entry and the look at the file it is compared with, or the *)
(* other way round.  A read of a file is one step: the loop of             *)
(* read_validated_file repeats a read during which the file changed, and   *)
(* its giving up after three is left out, as are symbolic links.           *)
(***************************************************************************)
EXTENDS Naturals

CONSTANTS Workers,     \* worker threads, each with at most one include call
          Modes,       \* how the server may be configured: windowed and root,
                       \* with a bound on the cache clears
          MaxCalls,    \* bound: include calls
          MaxChanges   \* bound: edits and deletions of files

Files == {"main", "dep"}

ASSUME IncludeAssumption ==
  /\ "noworker" \notin Workers
  /\ Modes \subseteq [windowed : BOOLEAN, root : SUBSET Files, clears : Nat]
  /\ MaxCalls \in Nat /\ MaxChanges \in Nat

VARIABLES
  windowed,    \* revalidation interval > 0
  root,        \* the files under a deployment root declared immutable
  last, file,  \* newest and current version of a file; 0 when there is none
  changes,     \* changes of files so far
  resolution,  \* fingerprint of the cached resolution, 0 when there is none
  resFresh,    \* it was validated less than an interval ago
  negative,    \* the path has a negative entry
  index,       \* lookup_shards: the key found for the path
  entries,     \* shards: the keys with a compiled unit
  fresh,       \* those validated less than an interval ago
  permit,      \* the call that compiles the path, in in_progress
  clearing,    \* the next map clear() empties
  clears,      \* clears still to come
  dirty,       \* an immutable file changed, and the cache is not yet cleared
  calls,       \* calls so far
  pc,          \* where each worker's call is
  res,         \* the fingerprint its resolution returned
  src,         \* the version it read of main, 0 before and with IdentityOnly
  key,         \* the key it found or made
  answer,      \* "served" with the unit of its key, "missing" or "failed"
  since,       \* history: the oldest versions current since it began
  missed,      \* history: the calls during which there was no main
  compiles,    \* history: compilations before anything changed
  changed      \* history: a file changed, a compilation failed or clear() ran

disk == <<last, file, changes, dirty, missed>>
resolutions == <<resolution, resFresh, negative>>
compiled == <<index, entries, fresh>>
clearer == <<clearing, clears>>
local == <<res, src, key>>
history == <<compiles, changed>>
vars == <<windowed, root, disk, resolutions, compiled, permit, clearer, calls, pc, local,
          answer, since, history>>

NoKey == [src |-> 0, dep |-> 0]
NoWorker == "noworker"

Active == {c \in Workers : pc[c] # "idle"}

Init ==
  /\ \E m \in Modes : windowed = m.windowed /\ root = m.root /\ clears = m.clears
  /\ last \in [Files -> {0, 1}] /\ last["dep"] = 1 /\ file = last /\ changes = 0
  /\ resolution = 0 /\ resFresh = FALSE /\ negative = FALSE
  /\ index = NoKey /\ entries = {} /\ fresh = {}
  /\ permit = NoWorker
  /\ clearing = "off"
  /\ dirty = FALSE
  /\ calls = 0 /\ pc = [c \in Workers |-> "idle"]
  /\ res = [c \in Workers |-> 0] /\ src = [c \in Workers |-> 0]
  /\ key = [c \in Workers |-> NoKey]
  /\ answer = [c \in Workers |-> "none"]
  /\ since = [c \in Workers |-> NoKey]
  /\ missed = {}
  /\ compiles = 0 /\ changed = FALSE

Go(c, place) == pc' = [pc EXCEPT ![c] = place] /\ UNCHANGED calls
Set(f, c, v) == [f EXCEPT ![c] = v]
Conf == UNCHANGED <<windowed, root>>

\* From now on a second compilation is no surprise.
Changed == changed' = TRUE /\ compiles' = 0

\* A call has its result.
Return(c, result) ==
  /\ answer' = Set(answer, c, result)
  /\ Go(c, "return")
-----------------------------------------------------------------------------
(***************************************************************************)
(* Faulty variants of steps below, against which the properties are tried. *)
(***************************************************************************)
\* The dependencies of a trusted file are trusted wherever they are.
DependenciesTrustedWithMain(k) == "main" \in root \/ file["dep"] = k.dep

\* The cache is not looked up again under the permit.
AfterPermitCompile(c) == IF src[c] = 0 THEN "load" ELSE "compile"

\* A failed call leaves its path in in_progress.
PermitKept(c) == IF permit = c /\ answer[c] # "failed" THEN NoWorker ELSE permit
-----------------------------------------------------------------------------
(***************************************************************************)
(* ResolutionCache::resolve_with_include_path.                             *)
(***************************************************************************)
\* The oldest version a file has from now on.
Oldest(f) == IF file[f] = 0 THEN last[f] + 1 ELSE file[f]

Include(c) ==
  /\ pc[c] = "idle"
  /\ ~dirty
  /\ calls < MaxCalls /\ calls' = calls + 1
  /\ pc' = Set(pc, c, "resolve")
  /\ since' = Set(since, c, [src |-> Oldest("main"), dep |-> Oldest("dep")])
  /\ missed' = IF file["main"] = 0 THEN missed \cup {c} ELSE missed
  /\ Conf /\ UNCHANGED <<last, file, changes, dirty, resolutions, compiled, permit, clearer, local,
                         answer, history>>

InWindow == windowed /\ resFresh

\* The cached resolution, past its window, is still right.
ResolutionHolds ==
  /\ file["main"] # 0
  /\ "main" \in root \/ file["main"] = resolution

Resolve(c) ==
  /\ pc[c] = "resolve"
  /\ \/ /\ resolution = 0
        /\ Go(c, "negative")
        /\ UNCHANGED <<res, resFresh>>
     \/ /\ resolution # 0 /\ (InWindow \/ ResolutionHolds)
        /\ res' = Set(res, c, resolution)
        /\ resFresh' = windowed
        /\ Go(c, "start")
     \/ /\ resolution # 0 /\ ~InWindow /\ ~ResolutionHolds
        /\ Go(c, "forget")
        /\ UNCHANGED <<res, resFresh>>
  /\ Conf /\ UNCHANGED <<disk, resolution, negative, compiled, permit, clearer, src, key,
                         answer, since, history>>

Forget(c) ==
  /\ pc[c] = "forget"
  /\ resolution' = 0
  /\ Go(c, "negative")
  /\ Conf /\ UNCHANGED <<disk, resFresh, negative, compiled, permit, clearer, local, answer,
                         since, history>>

\* lookup_negative_include: an entry is valid while there is no file and the
\* directory, which other files change too, is as it was.
Negative(c) ==
  /\ pc[c] = "negative"
  /\ \/ /\ negative /\ file["main"] = 0
        /\ Return(c, "missing")
        /\ UNCHANGED negative
     \/ /\ negative' = FALSE
        /\ Go(c, "probe")
        /\ UNCHANGED answer
  /\ Conf /\ UNCHANGED <<disk, resolution, resFresh, compiled, permit, clearer, local, since,
                         history>>

\* maybe_install_negative_include: an entry, if the directory can be guarded
\* and the shard has room.
Installed == {negative, TRUE}

\* The loader looks for the file.
Probe(c) ==
  /\ pc[c] = "probe"
  /\ IF file["main"] = 0
       THEN /\ Return(c, "missing")
            /\ negative' \in Installed
            /\ UNCHANGED res
       ELSE /\ res' = Set(res, c, file["main"])
            /\ Go(c, "remember")
            /\ UNCHANGED <<answer, negative>>
  /\ Conf /\ UNCHANGED <<disk, resolution, resFresh, compiled, permit, clearer, src, key,
                         since, history>>

Remember(c) ==
  /\ pc[c] = "remember"
  /\ IF resolution = 0 THEN resolution' = res[c] /\ resFresh' = windowed
                       ELSE UNCHANGED <<resolution, resFresh>>
  /\ Go(c, "start")
  /\ Conf /\ UNCHANGED <<disk, negative, compiled, permit, clearer, local, answer, since,
                         history>>
-----------------------------------------------------------------------------
(***************************************************************************)
(* CompiledIncludeCache::get_or_compile_include.                           *)
(***************************************************************************)
\* lookup_fresh_compiled_include, the index and then the entry.
Start(c) ==
  /\ pc[c] = "start"
  /\ IF windowed /\ index # NoKey
       THEN key' = Set(key, c, index) /\ Go(c, "window")
       ELSE Go(c, "validate") /\ UNCHANGED key
  /\ Conf /\ UNCHANGED <<disk, resolutions, compiled, permit, clearer, res, src, answer,
                         since, history>>

Window(c) ==
  /\ pc[c] = "window"
  /\ IF key[c] \in fresh THEN Return(c, "served")
                         ELSE Go(c, "validate") /\ UNCHANGED answer
  /\ Conf /\ UNCHANGED <<disk, resolutions, compiled, permit, clearer, local, since, history>>

\* The file is read, unless its root is immutable and it is still there.
Validate(c) ==
  /\ pc[c] = "validate"
  /\ IF file["main"] = 0
       THEN Return(c, "missing") /\ UNCHANGED src
       ELSE /\ src' = Set(src, c, IF "main" \in root THEN 0 ELSE file["main"])
            /\ Go(c, "index")
            /\ UNCHANGED answer
  /\ key' = Set(key, c, NoKey)
  /\ Conf /\ UNCHANGED <<disk, resolutions, compiled, permit, clearer, res, since, history>>

\* Where a call without a hit goes: under the permit it compiles.
AfterMiss(c) ==
  IF permit # c THEN "begin" ELSE IF src[c] = 0 THEN "load" ELSE "compile"

\* lookup_compiled_include: the index, the entry, then the dependency.
LookIndex(c) ==
  /\ pc[c] = "index"
  /\ IF index = NoKey THEN Go(c, AfterMiss(c)) /\ UNCHANGED key
                      ELSE Go(c, "entry") /\ key' = Set(key, c, index)
  /\ Conf /\ UNCHANGED <<disk, resolutions, compiled, permit, clearer, res, src, answer,
                         since, history>>

PrimarySourceIsFresh(c) == key[c].src = IF src[c] = 0 THEN res[c] ELSE src[c]

LookEntry(c) ==
  /\ pc[c] = "entry"
  /\ IF key[c] \in fresh
       THEN Return(c, "served")
       ELSE /\ Go(c, IF key[c] \notin entries THEN AfterMiss(c)
                     ELSE IF PrimarySourceIsFresh(c) THEN "deps" ELSE "invalidate")
            /\ UNCHANGED answer
  /\ Conf /\ UNCHANGED <<disk, resolutions, compiled, permit, clearer, local, since, history>>

DependenciesAreFresh(k) == Files \subseteq root \/ file["dep"] = k.dep

\* A hit is touched; the slot may have left the shard.
CheckDeps(c) ==
  /\ pc[c] = "deps"
  /\ IF DependenciesAreFresh(key[c])
       THEN /\ Return(c, "served")
            /\ fresh' = IF windowed THEN fresh \cup ({key[c]} \cap entries) ELSE fresh
       ELSE Go(c, "invalidate") /\ UNCHANGED <<answer, fresh>>
  /\ Conf /\ UNCHANGED <<disk, resolutions, index, entries, permit, clearer, local, since,
                         history>>

\* invalidate_compiled_include: whoever removes the entry removes the path's
\* index, to whichever key it leads by then.
Invalidate(c) ==
  /\ pc[c] = "invalidate"
  /\ entries' = entries \ {key[c]} /\ fresh' = fresh \ {key[c]}
  /\ Go(c, IF key[c] \in entries THEN "unindex" ELSE AfterMiss(c))
  /\ Conf /\ UNCHANGED <<disk, resolutions, index, permit, clearer, local, answer, since,
                         history>>

Unindex(c) ==
  /\ pc[c] = "unindex"
  /\ index' = NoKey
  /\ Go(c, AfterMiss(c))
  /\ Conf /\ UNCHANGED <<disk, resolutions, entries, fresh, permit, clearer, local, answer,
                         since, history>>
-----------------------------------------------------------------------------
AfterPermit(c) == "index"

\* IncludeCompileCoordinator::try_begin and wait.
TryBegin(c) ==
  /\ pc[c] = "begin"
  /\ IF permit = NoWorker THEN permit' = c /\ Go(c, AfterPermit(c))
                        ELSE Go(c, "wait") /\ UNCHANGED permit
  /\ Conf /\ UNCHANGED <<disk, resolutions, compiled, clearer, local, answer, since, history>>

Wait(c) ==
  /\ pc[c] = "wait"
  /\ permit = NoWorker
  /\ Go(c, "start")
  /\ Conf /\ UNCHANGED <<disk, resolutions, compiled, permit, clearer, local, answer, since,
                         history>>

\* An immutable file is read when it must be compiled.
Load(c) ==
  /\ pc[c] = "load"
  /\ IF file["main"] = 0
       THEN Return(c, "missing") /\ UNCHANGED src
       ELSE src' = Set(src, c, file["main"]) /\ Go(c, "compile") /\ UNCHANGED answer
  /\ Conf /\ UNCHANGED <<disk, resolutions, compiled, permit, clearer, res, key, since,
                         history>>

\* compile_include reads the dependency; it may find errors, or panic.
Compile(c) ==
  /\ pc[c] = "compile"
  /\ \/ /\ file["dep"] # 0
        /\ key' = Set(key, c, [src |-> src[c], dep |-> file["dep"]])
        /\ compiles' = IF changed THEN 0 ELSE compiles + 1
        /\ Go(c, "insert")
        /\ UNCHANGED <<answer, changed>>
     \/ Return(c, "failed") /\ Changed /\ UNCHANGED key
  /\ Conf /\ UNCHANGED <<disk, resolutions, compiled, permit, clearer, res, src, since>>

\* The entry, if there is none, and then the index.
Insert(c) ==
  /\ pc[c] = "insert"
  /\ entries' = entries \cup {key[c]}
  /\ fresh' = IF windowed /\ key[c] \notin entries THEN fresh \cup {key[c]} ELSE fresh
  /\ Go(c, "publish")
  /\ Conf /\ UNCHANGED <<disk, resolutions, index, permit, clearer, local, answer, since,
                         history>>

Publish(c) ==
  /\ pc[c] = "publish"
  /\ index' = key[c]
  /\ Return(c, "served")
  /\ Conf /\ UNCHANGED <<disk, resolutions, entries, fresh, permit, clearer, local, since,
                         history>>

\* Drop for IncludeCompilePermit, on every way out of the call.
PermitDropped(c) == IF permit = c THEN NoWorker ELSE permit

End(c) ==
  /\ pc[c] = "return"
  /\ permit' = PermitDropped(c)
  /\ Go(c, "idle")
  /\ res' = Set(res, c, 0) /\ src' = Set(src, c, 0) /\ key' = Set(key, c, NoKey)
  /\ answer' = Set(answer, c, "none")
  /\ since' = Set(since, c, NoKey) /\ missed' = missed \ {c}
  /\ Conf /\ UNCHANGED <<last, file, changes, dirty, resolutions, compiled, clearer, history>>
-----------------------------------------------------------------------------
\* Someone edits or removes a file.  An immutable one changes only while no
\* call runs, and the cache is cleared before the next one.
Change(f, v) ==
  /\ changes < MaxChanges /\ changes' = changes + 1
  /\ f \in root => Active = {} /\ clearing = "off"
  /\ dirty' = (dirty \/ f \in root)
  /\ file' = [file EXCEPT ![f] = v]
  /\ missed' = IF f = "main" /\ v = 0 THEN missed \cup Active ELSE missed
  /\ Changed
  /\ Conf /\ UNCHANGED <<resolutions, compiled, permit, clearer, calls, pc, local, answer,
                         since>>

Edit(f) ==
  /\ last' = [last EXCEPT ![f] = @ + 1]
  /\ Change(f, last[f] + 1)

Delete(f) == file[f] # 0 /\ Change(f, 0) /\ UNCHANGED last

\* The revalidation interval passes.
Expire ==
  /\ resFresh \/ fresh # {}
  /\ resFresh' = FALSE /\ fresh' = {}
  /\ Conf /\ UNCHANGED <<disk, resolution, negative, index, entries, permit, clearer, calls, pc,
                         local, answer, since, history>>

\* clear() empties one map after the other, of the resolution cache first.
ClearResolutions ==
  /\ \/ /\ clearing = "off" /\ clears > 0
        /\ resolution' = 0 /\ resFresh' = FALSE
        /\ clearing' = "negative" /\ clears' = clears - 1
        /\ Changed
        /\ UNCHANGED negative
     \/ /\ clearing = "negative"
        /\ negative' = FALSE
        /\ clearing' = "entries"
        /\ UNCHANGED <<resolution, resFresh, clears, history>>
  /\ Conf /\ UNCHANGED <<disk, compiled, permit, calls, pc, local, answer, since>>

ClearCompiled ==
  /\ \/ /\ clearing = "entries"
        /\ entries' = {} /\ fresh' = {}
        /\ clearing' = "index"
        /\ UNCHANGED <<index, dirty>>
     \/ /\ clearing = "index"
        /\ index' = NoKey
        /\ clearing' = "off" /\ dirty' = FALSE
        /\ UNCHANGED <<entries, fresh>>
  /\ Conf /\ UNCHANGED <<last, file, changes, missed, resolutions, clears, permit, calls, pc,
                         local, answer, since, history>>

Step(c) ==
  \/ Resolve(c) \/ Forget(c) \/ Negative(c) \/ Probe(c) \/ Remember(c)
  \/ Start(c) \/ Window(c) \/ Validate(c) \/ LookIndex(c) \/ LookEntry(c) \/ CheckDeps(c)
  \/ Invalidate(c) \/ Unindex(c) \/ TryBegin(c) \/ Wait(c) \/ Load(c) \/ Compile(c)
  \/ Insert(c) \/ Publish(c) \/ End(c)

Next ==
  \/ \E c \in Workers : Include(c) \/ Step(c)
  \/ \E f \in Files : Edit(f) \/ Delete(f)
  \/ Expire \/ ClearResolutions \/ ClearCompiled

Spec == Init /\ [][Next]_vars

\* Worker threads run and compilations end.
FairSpec == Spec /\ \A c \in Workers : WF_vars(Step(c))
-----------------------------------------------------------------------------
\* Without a revalidation interval the cache is invisible: the unit a call gets
\* is compiled from versions that main and its dependency each had at some
\* moment of the call, and a call finds no file only if there was none at some
\* moment of it (also with an interval, and with negative entries).
ServesCurrentFiles ==
  \A c \in Workers :
    /\ answer[c] = "served" /\ ~windowed =>
         key[c].src >= since[c].src /\ key[c].dep >= since[c].dep
    /\ answer[c] = "missing" => c \in missed

\* Calls that run at once compile an unchanged file once between them, however
\* the lookups, the permit and the two steps of the insertion interleave.
IncludesCompileOnce == compiles <= 1

\* Only the call that holds the permit compiles, and it never waits for it
\* again: it looks up, compiles and returns, so that whoever waits is not waited
\* for.
PermitHolderRuns ==
  /\ \A c \in Workers : pc[c] \in {"load", "compile", "insert", "publish"} => permit = c
  /\ permit # NoWorker =>
       pc[permit] \in {"index", "entry", "deps", "invalidate", "unindex", "load", "compile",
                       "insert", "publish", "return"}

\* Every include call returns: whoever waits for a compilation goes on when it
\* ends, fails or panics.
IncludesEnd == \A c \in Workers : pc[c] = "resolve" ~> pc[c] = "idle"
=============================================================================
