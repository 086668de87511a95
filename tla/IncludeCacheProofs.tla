------------------------- MODULE IncludeCacheProofs -------------------------
(***************************************************************************)
(* Theorems about IncludeCache, for every set of workers, every mode and   *)
(* any number of calls, changes and clears.                                *)
(*                                                                         *)
(* Neither property is inductive.  That a file is compiled once rests on   *)
(* the index, the entries and the permit together (Still): a compilation   *)
(* that is over is either in the cache or with the owner of the permit.    *)
(* That calls get current files rests on what the cache may hold where     *)
(* nobody looks at the file again (SharedOK) and on how far each call has  *)
(* come (CallOK).                                                          *)
(*                                                                         *)
(* That whoever holds the permit can still release it follows from the     *)
(* first invariant.                                                        *)
(***************************************************************************)
EXTENDS IncludeCache, TLAPS

Keys == [src : Nat, dep : Nat]

\* Under the permit and before it a call looks into the cache; only its owner
\* compiles and inserts.
Looking == {"index", "entry", "deps", "invalidate", "unindex"}
Compiling == {"load", "compile", "insert", "publish"}
Validated == Looking \cup {"begin", "wait"} \cup Compiling

\* The places of a call whose path is resolved.
Found == {"start", "window", "validate"} \cup Validated

Places == {"idle", "resolve", "forget", "negative", "probe", "remember", "return"} \cup Found
Answers == {"none", "served", "missing", "failed"}

SharedTypes ==
  /\ windowed \in BOOLEAN /\ root \subseteq Files
  /\ last \in [Files -> Nat] /\ file \in [Files -> Nat]
  /\ resolution \in Nat
  /\ index \in Keys /\ entries \subseteq Keys /\ fresh \subseteq Keys
  /\ dirty \in BOOLEAN /\ changed \in BOOLEAN /\ compiles \in Nat

CallTypes ==
  /\ permit \in Workers \cup {NoWorker}
  /\ pc \in [Workers -> Places]
  /\ res \in [Workers -> Nat] /\ src \in [Workers -> Nat]
  /\ key \in [Workers -> Keys] /\ since \in [Workers -> Keys]
  /\ answer \in [Workers -> Answers]
  /\ missed \subseteq Workers

Types == SharedTypes /\ CallTypes
-----------------------------------------------------------------------------
\* The types of what calls share and of what each of them has.
LEMMA TypesInit == Init => Types
<1> SUFFICES ASSUME Init PROVE Types
  OBVIOUS
<1>1. SharedTypes
  <2>1. windowed \in BOOLEAN /\ root \subseteq Files
    BY IncludeAssumption DEF Init
  <2>2. last \in [Files -> Nat] /\ file \in [Files -> Nat]
    BY DEF Init
  <2>3. index \in Keys /\ entries \subseteq Keys /\ fresh \subseteq Keys
    BY DEF Init, Keys, NoKey
  <2> QED
    BY <2>1, <2>2, <2>3, Zenon DEF Init, SharedTypes
<1>2. CallTypes
  BY DEF Init, CallTypes, Keys, NoKey, Places, Answers
<1> QED
  BY <1>1, <1>2 DEF Types

\* Every step keeps the types of the files and of the cache.
LEMMA SharedTypesStep == ASSUME Types, Next PROVE SharedTypes'
<1> USE DEF Types, SharedTypes, Conf
<1>1. ASSUME NEW c \in Workers,
             \/ Include(c) \/ Resolve(c) \/ Negative(c) \/ Probe(c) \/ Start(c) \/ Window(c)
             \/ Validate(c) \/ LookIndex(c) \/ LookEntry(c) \/ TryBegin(c) \/ Wait(c)
             \/ Load(c) \/ End(c)
      PROVE  UNCHANGED <<windowed, root, last, file, resolution, index, entries, fresh, dirty,
                         changed, compiles>>
  BY <1>1, Zenon DEF Include, Resolve, Negative, Probe, Start, Window, Validate, LookIndex,
     LookEntry, TryBegin, Wait, Load, End, disk, resolutions, compiled, history
<1>2. ASSUME NEW c \in Workers, Forget(c) \/ Remember(c) PROVE SharedTypes'
  BY <1>2 DEF Forget, Remember, disk, resolutions, compiled, history, CallTypes
<1>3. ASSUME NEW c \in Workers, CheckDeps(c) \/ Invalidate(c) \/ Unindex(c) PROVE SharedTypes'
  BY <1>3 DEF CheckDeps, Invalidate, Unindex, disk, resolutions, history, CallTypes, Keys,
     NoKey
<1>4. ASSUME NEW c \in Workers, Insert(c) \/ Publish(c) PROVE SharedTypes'
  BY <1>4 DEF Insert, Publish, disk, resolutions, history, CallTypes
<1>5. ASSUME NEW c \in Workers, Compile(c) PROVE SharedTypes'
  <2>1. UNCHANGED <<windowed, root, last, file, resolution, index, entries, fresh, dirty>>
    BY <1>5 DEF Compile, disk, resolutions, compiled
  <2>2. changed' \in BOOLEAN
    BY <1>5, Zenon DEF Compile, Changed
  <2>3. compiles' \in Nat
    BY <1>5 DEF Compile, Changed
  <2> QED
    BY <2>1, <2>2, <2>3
<1>6. ASSUME NEW f \in Files, Edit(f) \/ Delete(f) PROVE SharedTypes'
  <2>1. UNCHANGED <<windowed, root, resolution, index, entries, fresh>>
    BY <1>6 DEF Edit, Delete, Change, resolutions, compiled
  <2>2. changed' \in BOOLEAN /\ dirty' \in BOOLEAN
    BY <1>6, Zenon DEF Edit, Delete, Change, Changed
  <2>3. compiles' \in Nat
    BY <1>6 DEF Edit, Delete, Change, Changed
  <2>4. last' \in [Files -> Nat] /\ file' \in [Files -> Nat]
    BY <1>6 DEF Edit, Delete, Change
  <2> QED
    BY <2>1, <2>2, <2>3, <2>4
<1>7. CASE Expire
  BY <1>7 DEF Expire, disk, history
<1>8. CASE ClearResolutions
  <2>1. UNCHANGED <<windowed, root, last, file, index, entries, fresh, dirty>>
    BY <1>8 DEF ClearResolutions, disk, compiled
  <2>2. changed' \in BOOLEAN
    BY <1>8, Zenon DEF ClearResolutions, Changed, history
  <2>3. compiles' \in Nat /\ resolution' \in Nat
    BY <1>8 DEF ClearResolutions, Changed, history
  <2> QED
    BY <2>1, <2>2, <2>3
<1>9. CASE ClearCompiled
  <2>1. UNCHANGED <<windowed, root, last, file, resolution, changed, compiles>>
    BY <1>9 DEF ClearCompiled, resolutions, history
  <2>2. dirty' \in BOOLEAN
    BY <1>9, Zenon DEF ClearCompiled
  <2>3. index' \in Keys /\ entries' \subseteq Keys /\ fresh' \subseteq Keys
    BY <1>9 DEF ClearCompiled, Keys, NoKey
  <2> QED
    BY <2>1, <2>2, <2>3
<1>10. ASSUME NEW c \in Workers, Include(c) \/ Step(c) PROVE SharedTypes'
  BY <1>1, <1>2, <1>3, <1>4, <1>5, <1>10 DEF Step
<1> QED
  BY <1>6, <1>7, <1>8, <1>9, <1>10 DEF Next

\* Every step keeps the types of the calls.
LEMMA CallTypesStep == ASSUME Types, Next PROVE CallTypes'
<1> USE DEF Types, SharedTypes, CallTypes, Go, Set, Return
<1> USE DEF Places, Found, Validated, Looking, Compiling
<1>1. ASSUME NEW c \in Workers, Include(c) PROVE CallTypes'
  BY <1>1 DEF Include, Oldest, Files, Keys, local
<1>2. ASSUME NEW c \in Workers, Resolve(c) \/ Forget(c) PROVE CallTypes'
  BY <1>2 DEF Resolve, Forget, disk, local
<1>3. ASSUME NEW c \in Workers, Negative(c) PROVE CallTypes'
  BY <1>3 DEF Negative, disk, local, Answers
<1>4. ASSUME NEW c \in Workers, Probe(c) \/ Remember(c) PROVE CallTypes'
  BY <1>4 DEF Probe, Remember, disk, local, Answers, Files
<1>5. ASSUME NEW c \in Workers, Start(c) \/ Window(c) PROVE CallTypes'
  BY <1>5 DEF Start, Window, disk, local, Answers
<1>6. ASSUME NEW c \in Workers, Validate(c) PROVE CallTypes'
  <2>1. key' \in [Workers -> Keys]
    BY <1>6 DEF Validate, Keys, NoKey
  <2>2. src' \in [Workers -> Nat]
    BY <1>6 DEF Validate, Files
  <2> QED
    BY <1>6, <2>1, <2>2 DEF Validate, disk, Answers
<1>7. ASSUME NEW c \in Workers, LookIndex(c) PROVE CallTypes'
  BY <1>7 DEF LookIndex, AfterMiss, disk
<1>8. ASSUME NEW c \in Workers, LookEntry(c) PROVE CallTypes'
  BY <1>8 DEF LookEntry, AfterMiss, disk, local, Answers
<1>9. ASSUME NEW c \in Workers, CheckDeps(c) PROVE CallTypes'
  BY <1>9 DEF CheckDeps, disk, local, Answers
<1>10. ASSUME NEW c \in Workers, Invalidate(c) \/ Unindex(c) PROVE CallTypes'
  BY <1>10 DEF Invalidate, Unindex, AfterMiss, disk, local
<1>11. ASSUME NEW c \in Workers, TryBegin(c) \/ Wait(c) PROVE CallTypes'
  BY <1>11 DEF TryBegin, Wait, AfterPermit, disk, local
<1>12. ASSUME NEW c \in Workers, Load(c) PROVE CallTypes'
  BY <1>12 DEF Load, disk, Answers, Files
<1>13. ASSUME NEW c \in Workers, Compile(c) PROVE CallTypes'
  <2>1. key' \in [Workers -> Keys]
    BY <1>13 DEF Compile, Files, Keys
  <2> QED
    BY <1>13, <2>1 DEF Compile, disk, Answers
<1>14. ASSUME NEW c \in Workers, Insert(c) \/ Publish(c) PROVE CallTypes'
  BY <1>14 DEF Insert, Publish, disk, local, Answers
<1>15. ASSUME NEW c \in Workers, End(c) PROVE CallTypes'
  BY <1>15 DEF End, PermitDropped, NoKey, Keys, Answers
<1>16. ASSUME NEW f \in Files, Edit(f) \/ Delete(f) PROVE CallTypes'
  BY <1>16 DEF Edit, Delete, Change, Active, local
<1>17. CASE Expire \/ ClearResolutions \/ ClearCompiled
  BY <1>17 DEF Expire, ClearResolutions, ClearCompiled, disk, local
<1>18. ASSUME NEW c \in Workers, Step(c) PROVE CallTypes'
  BY Zenon, <1>2, <1>3, <1>4, <1>5, <1>6, <1>7, <1>8, <1>9, <1>10, <1>11, <1>12, <1>13, <1>14,
     <1>15, <1>18 DEF Step
<1> QED
  BY <1>1, <1>16, <1>17, <1>18 DEF Next

\* in_progress names the one call that may compile.
PermitOK ==
  \A c \in Workers :
    /\ permit = c => pc[c] \in Looking \cup Compiling \cup {"return"}
    /\ pc[c] \in Compiling => permit = c

\* try_begin and Drop for the permit keep it so.
LEMMA PermitStep == ASSUME Types, PermitOK, Next PROVE PermitOK'
<1> USE DEF Types, CallTypes, PermitOK, Go, Return, Looking, Compiling
<1>1. ASSUME NEW c \in Workers, Include(c) \/ Resolve(c) \/ Forget(c) \/ Negative(c)
      PROVE  PermitOK'
  BY <1>1 DEF Include, Resolve, Forget, Negative, Set
<1>2. ASSUME NEW c \in Workers, Probe(c) \/ Remember(c) \/ Start(c) \/ Window(c)
      PROVE  PermitOK'
  BY <1>2 DEF Probe, Remember, Start, Window
<1>3. ASSUME NEW c \in Workers, Validate(c) \/ CheckDeps(c) \/ Wait(c) \/ Load(c)
      PROVE  PermitOK'
  BY <1>3 DEF Validate, CheckDeps, Wait, Load
<1>4. ASSUME NEW c \in Workers, LookIndex(c) \/ LookEntry(c) PROVE PermitOK'
  BY <1>4 DEF LookIndex, LookEntry, AfterMiss
<1>5. ASSUME NEW c \in Workers, Invalidate(c) \/ Unindex(c) PROVE PermitOK'
  BY <1>5 DEF Invalidate, Unindex, AfterMiss
<1>6. ASSUME NEW c \in Workers, TryBegin(c) PROVE PermitOK'
  BY <1>6, IncludeAssumption DEF TryBegin, AfterPermit, NoWorker
<1>7. ASSUME NEW c \in Workers, Compile(c) \/ Insert(c) \/ Publish(c) PROVE PermitOK'
  BY <1>7 DEF Compile, Insert, Publish
<1>8. ASSUME NEW c \in Workers, End(c) PROVE PermitOK'
  BY <1>8, IncludeAssumption DEF End, PermitDropped, NoWorker
<1>9. ASSUME NEW f \in Files, Edit(f) \/ Delete(f) PROVE PermitOK'
  BY <1>9 DEF Edit, Delete, Change
<1>10. CASE Expire \/ ClearResolutions \/ ClearCompiled
  BY <1>10 DEF Expire, ClearResolutions, ClearCompiled
<1>11. ASSUME NEW c \in Workers, Step(c) PROVE PermitOK'
  BY <1>1, <1>2, <1>3, <1>4, <1>5, <1>6, <1>7, <1>8, <1>11 DEF Step
<1> QED
  BY <1>1, <1>9, <1>10, <1>11 DEF Next
-----------------------------------------------------------------------------
(***************************************************************************)
(* Before anything has changed there is one key, that of the files as they *)
(* are.                                                                    *)
(***************************************************************************)
Current == [src |-> file["main"], dep |-> file["dep"]]

StillCall(c) ==
  /\ pc[c] \notin {"forget", "invalidate", "unindex"}
  /\ pc[c] \in Found \cup {"remember"} => file["main"] # 0 /\ res[c] = file["main"]
  /\ src[c] \in {0, file["main"]}
  /\ pc[c] \in {"window", "entry", "deps", "insert", "publish"} => key[c] = Current
  /\ pc[c] = "compile" => src[c] # 0
  /\ pc[c] \in {"load", "compile"} => compiles = 0
  /\ pc[c] = "publish" => Current \in entries

\* Once it has been compiled, the unit is in the cache, or its compiler is
\* about to put it there.
Still ==
  /\ clearing = "off"
  /\ file["dep"] # 0
  /\ resolution \in {0, file["main"]}
  /\ index \in {NoKey, Current}
  /\ entries \subseteq {Current}
  /\ index = Current => Current \in entries
  /\ \A c \in Workers : StillCall(c)
  /\ compiles \in 0 .. 1
  /\ compiles = 1 => index = Current \/ \E c \in Workers : pc[c] \in {"insert", "publish"}

OnceInv == Types /\ PermitOK /\ (changed => compiles = 0) /\ (~changed => Still)

\* An empty cache.
LEMMA OnceInit == Init => OnceInv
<1> SUFFICES ASSUME Init PROVE OnceInv
  OBVIOUS
<1>1. Types
  BY TypesInit
<1>2. PermitOK
  BY IncludeAssumption, Zenon DEF Init, PermitOK, Compiling, NoWorker
<1>3. Still
  BY DEF Init, Still, StillCall, Found, Validated, Looking, Compiling, Current, NoKey,
     Files
<1> QED
  BY <1>1, <1>2, <1>3 DEF OnceInv, Init

\* A step of the call c that leaves the cache, the files and the history alone.
LEMMA StillFrame ==
  ASSUME Types, Still, NEW c \in Workers, NEW place,
         pc' = [pc EXCEPT ![c] = place], pc[c] \notin {"insert", "publish"},
         UNCHANGED <<clearing, file, resolution, index, entries, compiles>>,
         \A d \in Workers \ {c} : res'[d] = res[d] /\ src'[d] = src[d] /\ key'[d] = key[d],
         StillCall(c)'
  PROVE  Still'
<1>1. Current' = Current
  BY DEF Current
<1>2. ASSUME NEW d \in Workers \ {c} PROVE StillCall(d)'
  BY <1>1, <1>2 DEF StillCall, Still, Types, CallTypes
<1>3. compiles = 1 => index = Current \/ \E d \in Workers : pc'[d] \in {"insert", "publish"}
  BY DEF Still, Types, CallTypes
<1> QED
  BY <1>1, <1>2, <1>3 DEF Still

\* Up to the permit a call only reads, and what it reads is current.
LEMMA StillReads ==
  ASSUME Types, PermitOK, Still, NEW c \in Workers,
         \/ Include(c) \/ Resolve(c) \/ Negative(c) \/ Probe(c) \/ Start(c) \/ Window(c)
         \/ Validate(c) \/ LookIndex(c) \/ LookEntry(c) \/ TryBegin(c) \/ Wait(c)
  PROVE  Still'
<1>1. UNCHANGED <<clearing, file, resolution, index, entries, compiles>>
  BY Zenon DEF Include, Resolve, Negative, Probe, Start, Window, Validate, LookIndex, LookEntry,
     TryBegin, Wait, disk, resolutions, compiled, clearer, history
<1>2. \A d \in Workers \ {c} : res'[d] = res[d] /\ src'[d] = src[d] /\ key'[d] = key[d]
  BY Zenon DEF Include, Resolve, Negative, Probe, Start, Window, Validate, LookIndex, LookEntry,
     TryBegin, Wait, Set, local, Types, CallTypes
<1>3. Current' = Current /\ StillCall(c)
  BY <1>1 DEF Current, Still
<1> USE DEF StillCall, Types, CallTypes, Go, Set, Return
<1>4. CASE Include(c)
  BY <1>1, <1>2, <1>3, <1>4, StillFrame, Zenon DEF Include, Found, Validated, Looking, Compiling,
     local
<1>5. CASE Resolve(c)
  BY <1>1, <1>2, <1>3, <1>5, StillFrame DEF Resolve, Still, ResolutionHolds, Found,
     Validated, Looking, Compiling
<1>6. CASE Negative(c)
  BY <1>1, <1>2, <1>3, <1>6, StillFrame DEF Negative, Found, Validated, Looking,
     Compiling, local
<1>7. CASE Probe(c)
  BY <1>1, <1>2, <1>3, <1>7, StillFrame DEF Probe, Found, Validated, Looking, Compiling
<1>8. CASE Start(c)
  BY <1>1, <1>2, <1>3, <1>8, StillFrame DEF Start, Still, Found, Validated, Looking,
     Compiling
<1>9. CASE Window(c)
  BY <1>1, <1>2, <1>3, <1>9, StillFrame DEF Window, Found, Validated, Looking, Compiling,
     local
<1>10. CASE Validate(c)
  BY <1>1, <1>2, <1>3, <1>10, StillFrame DEF Validate, Found, Validated, Looking,
     Compiling
<1>m. permit = c /\ index # Current /\ pc[c] \in {"index", "entry"} => compiles = 0
  BY DEF Still, PermitOK, Compiling
<1>11. CASE LookIndex(c)
  <2>1. CASE index = NoKey
    <3>1. index # Current
      BY <2>1, Zenon DEF Still, NoKey, Current
    <3>2. pc' = [pc EXCEPT ![c] = AfterMiss(c)] /\ UNCHANGED local /\ pc[c] = "index"
      BY <1>11, <2>1 DEF LookIndex, local
    <3>3. StillCall(c)'
      BY <1>1, <1>3, <1>m, <3>1, <3>2 DEF AfterMiss, local, Found, Validated, Looking,
         Compiling
    <3> QED
      BY <1>1, <1>2, <3>2, <3>3, StillFrame, Zenon
  <2>2. CASE index # NoKey
    <3>1. /\ pc' = [pc EXCEPT ![c] = "entry"] /\ UNCHANGED <<res, src>>
          /\ key' = [key EXCEPT ![c] = Current] /\ pc[c] = "index"
      BY <1>11, <2>2 DEF LookIndex, Still
    <3>2. StillCall(c)'
      BY <1>1, <1>3, <3>1 DEF Found, Validated, Looking, Compiling
    <3> QED
      BY <1>1, <1>2, <3>1, <3>2, StillFrame, Zenon
  <2> QED
    BY <2>1, <2>2
<1>12. CASE LookEntry(c)
  <2>a. pc[c] = "entry" /\ UNCHANGED local
    BY <1>12 DEF LookEntry
  <2>b. key[c] = Current /\ res[c] = file["main"] /\ src[c] \in {0, file["main"]}
    BY <1>3, <2>a DEF Found, Validated, Looking
  <2>c. PrimarySourceIsFresh(c)
    BY <2>b DEF PrimarySourceIsFresh, Current
  <2>1. pc[c] = "entry" /\ key[c] = Current /\ UNCHANGED local /\ PrimarySourceIsFresh(c)
    BY <2>a, <2>b, <2>c
  <2>2. CASE Current \notin entries
    <3>1. index # Current
      BY <2>2 DEF Still
    <3>2. pc' = [pc EXCEPT ![c] = AfterMiss(c)] \/ pc' = [pc EXCEPT ![c] = "return"]
      BY <1>12, <2>1, <2>2 DEF LookEntry
    <3>3. StillCall(c)'
      BY <1>1, <1>3, <1>m, <2>1, <3>1, <3>2 DEF AfterMiss, local, Found, Validated,
         Looking, Compiling
    <3> QED
      BY <1>1, <1>2, <2>1, <3>2, <3>3, StillFrame, Zenon
  <2>3. CASE Current \in entries
    <3>1. pc' = [pc EXCEPT ![c] = "deps"] \/ pc' = [pc EXCEPT ![c] = "return"]
      BY <1>12, <2>1, <2>3 DEF LookEntry
    <3>2. StillCall(c)'
      BY <1>1, <1>3, <2>1, <3>1 DEF local, Found, Validated, Looking, Compiling
    <3> QED
      BY <1>1, <1>2, <2>1, <3>1, <3>2, StillFrame, Zenon
  <2> QED
    BY <2>2, <2>3
<1>13. CASE TryBegin(c) \/ Wait(c)
  BY <1>1, <1>2, <1>3, <1>13, StillFrame DEF TryBegin, Wait, AfterPermit, Found,
     Validated, Looking, Compiling, local
<1> QED
  BY <1>4, <1>5, <1>6, <1>7, <1>8, <1>9, <1>10, <1>11, <1>12, <1>13

\* A hit, and the compilation itself.
LEMMA StillWrites ==
  ASSUME Types, PermitOK, Still, ~changed, ~changed', NEW c \in Workers,
         \/ Remember(c) \/ CheckDeps(c) \/ Load(c) \/ Compile(c) \/ Insert(c) \/ Publish(c)
         \/ End(c)
  PROVE  Still'
<1>1. UNCHANGED <<clearing, file>>
  BY Zenon DEF Remember, CheckDeps, Load, Compile, Insert, Publish, End, disk, clearer
<1>2. \A d \in Workers \ {c} : res'[d] = res[d] /\ src'[d] = src[d] /\ key'[d] = key[d]
  BY Zenon DEF Remember, CheckDeps, Load, Compile, Insert, Publish, End, Set, local, Types,
     CallTypes
<1>3. Current' = Current /\ StillCall(c)
  BY <1>1 DEF Current, Still
<1>4. \A d \in Workers \ {c} : permit = c => pc[d] \notin Compiling
  BY DEF PermitOK
<1> USE DEF StillCall, Types, CallTypes, Go, Set, Return
<1>5. CASE Remember(c)
  <2>1. UNCHANGED <<index, entries, compiles, local>> /\ pc' = [pc EXCEPT ![c] = "start"]
    BY <1>5 DEF Remember, compiled, history
  <2>2. resolution' \in {0, file["main"]} /\ pc[c] = "remember"
    BY <1>3, <1>5 DEF Remember, Still
  <2>3. \A d \in Workers : StillCall(d)'
    BY <1>1, <1>3, <2>1, <2>2 DEF Still, local, Found, Validated, Looking, Compiling
  <2> QED
    BY <1>1, <1>3, <2>1, <2>2, <2>3, Zenon DEF Still
<1>6. CASE CheckDeps(c)
  <2>1. DependenciesAreFresh(key[c])
    <3>1. pc[c] = "deps"
      BY <1>6, Zenon DEF CheckDeps
    <3>2. key[c] = Current
      BY <1>3, <3>1, Zenon
    <3>3. Current.dep = file["dep"]
      BY Zenon DEF Current
    <3> QED
      BY <3>2, <3>3, Zenon DEF DependenciesAreFresh
  <2>2. /\ UNCHANGED <<resolution, index, entries, compiles, local>>
        /\ pc' = [pc EXCEPT ![c] = "return"] /\ pc[c] = "deps"
    BY <1>6, <2>1 DEF CheckDeps, resolutions, history
  <2>3. StillCall(c)'
    BY <1>1, <1>3, <2>2 DEF local, Found, Validated, Looking, Compiling
  <2> QED
    BY <1>1, <1>2, <2>2, <2>3, StillFrame, Zenon
<1>7. CASE Load(c)
  <2>1. /\ UNCHANGED <<resolution, index, entries, compiles, res, key>> /\ pc[c] = "load"
        /\ pc' = [pc EXCEPT ![c] = "compile"] /\ src' = [src EXCEPT ![c] = file["main"]]
    BY <1>3, <1>7 DEF Load, resolutions, compiled, history, Found, Validated, Compiling
  <2>2. StillCall(c)'
    BY <1>1, <1>3, <2>1 DEF Found, Validated, Looking, Compiling
  <2> QED
    BY <1>1, <1>2, <2>1, <2>2, StillFrame, Zenon
<1>8. CASE Compile(c)
  <2>1. /\ UNCHANGED <<resolution, index, entries, res, src>> /\ pc[c] = "compile"
        /\ pc' = [pc EXCEPT ![c] = "insert"] /\ key' = [key EXCEPT ![c] = Current]
        /\ compiles' = compiles + 1
    BY <1>3, <1>8, Zenon DEF Compile, Changed, resolutions, compiled, Current
  <2>2. permit = c /\ compiles = 0
    BY <1>3, <2>1 DEF PermitOK, Compiling
  <2>3. StillCall(c)'
    BY <1>1, <1>3, <2>1 DEF Found, Validated, Looking, Compiling
  <2>4. ASSUME NEW d \in Workers \ {c} PROVE StillCall(d)'
    BY <1>1, <1>2, <1>3, <1>4, <2>1, <2>2, <2>4 DEF Still, Compiling
  <2>5. pc'[c] = "insert" /\ compiles' = 1
    BY <2>1, <2>2
  <2> QED
    BY <1>1, <1>3, <2>1, <2>3, <2>4, <2>5 DEF Still
<1>9. CASE Insert(c)
  <2>1. /\ UNCHANGED <<resolution, index, compiles, local>> /\ pc[c] = "insert"
        /\ pc' = [pc EXCEPT ![c] = "publish"] /\ entries' = {Current}
    BY <1>3, <1>9 DEF Insert, resolutions, history, Still
  <2>2. \A d \in Workers : StillCall(d)'
    BY <1>1, <1>3, <2>1 DEF Still, local, Found, Validated, Looking, Compiling
  <2>3. compiles' = 1 => \E d \in Workers : pc'[d] \in {"insert", "publish"}
    BY <2>1
  <2> QED
    BY <1>1, <1>3, <2>1, <2>2, <2>3, Zenon DEF Still
<1>10. CASE Publish(c)
  <2>1. /\ UNCHANGED <<resolution, entries, compiles, local>> /\ pc[c] = "publish"
        /\ pc' = [pc EXCEPT ![c] = "return"] /\ index' = Current
    BY <1>3, <1>10 DEF Publish, resolutions, history
  <2>2. \A d \in Workers : StillCall(d)'
    BY <1>1, <1>3, <2>1 DEF Still, local, Found, Validated, Looking, Compiling
  <2> QED
    BY <1>1, <1>3, <2>1, <2>2, Zenon DEF Still
<1>11. CASE End(c)
  <2>1. /\ UNCHANGED <<resolution, index, entries, compiles>> /\ pc[c] = "return"
        /\ pc' = [pc EXCEPT ![c] = "idle"] /\ src' = [src EXCEPT ![c] = 0]
    BY <1>11 DEF End, resolutions, compiled, history
  <2>2. StillCall(c)'
    BY <1>1, <1>3, <2>1 DEF Found, Validated, Looking, Compiling
  <2> QED
    BY <1>1, <1>2, <2>1, <2>2, StillFrame, Zenon
<1> QED
  BY <1>5, <1>6, <1>7, <1>8, <1>9, <1>10, <1>11

\* Every step keeps it; those of Forget, Invalidate and Unindex, which need a
\* stale entry, cannot happen before something changed.
LEMMA OnceStep == ASSUME OnceInv, [Next]_vars PROVE OnceInv'
<1> USE DEF OnceInv
<1>1. CASE UNCHANGED vars
  <2>1. Types' /\ PermitOK'
    BY <1>1 DEF vars, disk, resolutions, compiled, local, history, Types, SharedTypes,
       CallTypes, PermitOK
  <2>2. (changed' => compiles' = 0) /\ (~changed' => Still')
    BY <1>1, Zenon DEF vars, disk, resolutions, compiled, clearer, local, history, Still,
       StillCall, Current
  <2> QED
    BY <2>1, <2>2
<1>2. CASE Next
  <2>1. Types' /\ PermitOK'
    BY <1>2, SharedTypesStep, CallTypesStep, PermitStep DEF Types
  <2>2. ASSUME NEW c \in Workers,
               \/ Include(c) \/ Resolve(c) \/ Negative(c) \/ Probe(c) \/ Start(c)
               \/ Window(c) \/ Validate(c) \/ LookIndex(c) \/ LookEntry(c) \/ TryBegin(c)
               \/ Wait(c)
        PROVE  UNCHANGED history /\ (~changed => Still')
    BY <2>2, StillReads, Zenon DEF Include, Resolve, Negative, Probe, Start, Window, Validate,
       LookIndex, LookEntry, TryBegin, Wait
  <2>3. ASSUME NEW c \in Workers,
               \/ Remember(c) \/ CheckDeps(c) \/ Load(c) \/ Insert(c) \/ Publish(c)
               \/ End(c)
        PROVE  UNCHANGED history /\ (~changed => Still')
    <3>1. UNCHANGED history
      BY <2>3, Zenon DEF Remember, CheckDeps, Load, Insert, Publish, End
    <3> QED
      BY <2>3, <3>1, StillWrites DEF history
  <2>4. ASSUME NEW c \in Workers, Compile(c)
        PROVE  (changed' => compiles' = 0) /\ (~changed' => Still')
    <3>1. CASE Changed
      BY <3>1 DEF Changed
    <3>2. CASE compiles' = (IF changed THEN 0 ELSE compiles + 1) /\ UNCHANGED changed
      <4>1. changed' => compiles' = 0
        BY <3>2
      <4>2. ~changed' => Still'
        BY <2>4, <3>2, StillWrites
      <4> QED
        BY <4>1, <4>2
    <3> QED
      BY <2>4, <3>1, <3>2, Zenon DEF Compile
  <2>5. ASSUME NEW c \in Workers, Forget(c) \/ Invalidate(c) \/ Unindex(c)
        PROVE  UNCHANGED history /\ changed
    BY <2>5 DEF Forget, Invalidate, Unindex, Still, StillCall
  <2>6. ASSUME NEW f \in Files, Edit(f) \/ Delete(f) PROVE changed' /\ compiles' = 0
    BY <2>6 DEF Edit, Delete, Change, Changed
  <2>7. CASE Expire
    <3>1. /\ UNCHANGED <<clearing, file, resolution, index, entries, pc, res, src, key>>
          /\ UNCHANGED history
      BY <2>7 DEF Expire, disk, clearer, local
    <3> QED
      BY <2>1, <3>1, Zenon DEF history, Still, StillCall, Current
  <2>8. CASE ClearResolutions \/ ClearCompiled
    <3>1. changed' /\ compiles' = 0
      BY <2>8 DEF ClearResolutions, ClearCompiled, Changed, Still, history
    <3> QED
      BY <2>1, <3>1
  <2>9. ASSUME NEW c \in Workers, Include(c) \/ Step(c)
        PROVE  (changed' => compiles' = 0) /\ (~changed' => Still')
    BY <2>2, <2>3, <2>4, <2>5, <2>9 DEF Step, history
  <2> QED
    BY <1>2, <2>1, <2>6, <2>7, <2>8, <2>9 DEF Next
<1> QED
  BY <1>1, <1>2

\* Until a file changes, a compilation fails or the cache is cleared, any number
\* of concurrent include calls compile the file once.
THEOREM CompiledOncePerVersion == Spec => []IncludesCompileOnce
<1>1. OnceInv => IncludesCompileOnce
  BY DEF OnceInv, Types, SharedTypes, Still, IncludesCompileOnce
<1> QED
  BY <1>1, OnceInit, OnceStep, PTL DEF Spec

\* Drop for IncludeCompilePermit runs on every way out: no call waits for a
\* permit whose owner has left, or waits itself.
THEOREM PermitsAreNotLeaked == Spec => []PermitHolderRuns
<1>1. OnceInv => PermitHolderRuns
  BY DEF OnceInv, Types, CallTypes, PermitOK, Looking, Compiling, PermitHolderRuns
<1> QED
  BY <1>1, OnceInit, OnceStep, PTL DEF Spec
-----------------------------------------------------------------------------
(***************************************************************************)
(* What a call is served.  A file under an immutable root is not checked   *)
(* again, so what the cache holds for it must be current whenever a call   *)
(* can run: the cache is cleared before the next call after such a file    *)
(* changed.                                                                *)
(***************************************************************************)
SharedOK ==
  /\ \A f \in Files : file[f] \in {0, last[f]}
  /\ dirty => \A c \in Workers : pc[c] = "idle"
  /\ dirty /\ clearing # "off" => resolution = 0
  /\ dirty /\ clearing = "index" => entries = {}
  /\ "main" \in root /\ ~dirty => resolution \in {0, file["main"]}
  /\ \A k \in entries : k.dep # 0
  /\ "dep" \in root /\ ~dirty => \A k \in entries : k.dep = file["dep"]
  /\ ~windowed => fresh = {}

NotOlder(k, l) == k.src >= l.src /\ k.dep >= l.dep

DepRead(k) == k.dep # 0 /\ ("dep" \in root => k.dep = file["dep"])

CallOK(c) ==
  /\ pc[c] = "idle" => src[c] = 0
  /\ pc[c] # "idle" =>
       /\ since[c].src <= Oldest("main") /\ since[c].dep <= Oldest("dep")
       /\ file["main"] = 0 => c \in missed
       /\ src[c] # 0 => src[c] >= since[c].src
  /\ "main" \in root /\ pc[c] \in Found \cup {"remember"} =>
       file["main"] # 0 /\ res[c] = file["main"]
  /\ "main" \notin root /\ pc[c] \in Validated => src[c] # 0
  /\ pc[c] = "compile" => src[c] # 0
  /\ pc[c] = "deps" => key[c].src >= since[c].src /\ DepRead(key[c])
  /\ pc[c] \in {"insert", "publish"} => NotOlder(key[c], since[c]) /\ DepRead(key[c])
  /\ answer[c] # "none" => pc[c] = "return"
  /\ answer[c] = "served" /\ ~windowed => NotOlder(key[c], since[c])
  /\ answer[c] = "missing" => c \in missed

CurrentInv == Types /\ SharedOK /\ \A c \in Workers : CallOK(c)

\* An empty cache.
LEMMA CurrentInit == Init => CurrentInv
<1> SUFFICES ASSUME Init PROVE CurrentInv
  OBVIOUS
<1>1. Types
  BY TypesInit
<1>2. SharedOK
  BY DEF Init, SharedOK, Files
<1>3. \A c \in Workers : CallOK(c)
  BY Zenon DEF Init, CallOK, Found, Validated, Looking, Compiling
<1> QED
  BY <1>1, <1>2, <1>3 DEF CurrentInv

\* The step of a call changes no file and no local state of another call.
LEMMA WorkerFrame ==
  ASSUME Types, NEW c \in Workers, Include(c) \/ Step(c)
  PROVE  /\ UNCHANGED <<windowed, root, last, file, dirty, clearing>>
         /\ \A d \in Workers \ {c} :
              /\ pc'[d] = pc[d] /\ answer'[d] = answer[d] /\ since'[d] = since[d]
              /\ res'[d] = res[d] /\ src'[d] = src[d] /\ key'[d] = key[d]
              /\ d \in missed' <=> d \in missed
<1> USE DEF Conf, disk, clearer
<1>1. UNCHANGED <<windowed, root, last, file, dirty, clearing>>
  <2>1. CASE Include(c) \/ Resolve(c) \/ Forget(c) \/ Negative(c) \/ Probe(c) \/ Remember(c)
    BY <2>1, Zenon DEF Include, Resolve, Forget, Negative, Probe, Remember
  <2>2. CASE \/ Start(c) \/ Window(c) \/ Validate(c) \/ LookIndex(c) \/ LookEntry(c)
             \/ CheckDeps(c) \/ Invalidate(c)
    BY <2>2, Zenon DEF Start, Window, Validate, LookIndex, LookEntry, CheckDeps, Invalidate
  <2>3. CASE \/ Unindex(c) \/ TryBegin(c) \/ Wait(c) \/ Load(c) \/ Compile(c) \/ Insert(c)
             \/ Publish(c) \/ End(c)
    BY <2>3, Zenon DEF Unindex, TryBegin, Wait, Load, Compile, Insert, Publish, End
  <2> QED
    BY <2>1, <2>2, <2>3 DEF Step
<1>2. ASSUME NEW d \in Workers \ {c}
      PROVE  /\ pc'[d] = pc[d] /\ answer'[d] = answer[d] /\ since'[d] = since[d]
             /\ res'[d] = res[d] /\ src'[d] = src[d] /\ key'[d] = key[d]
             /\ d \in missed' <=> d \in missed
  <2> USE DEF Types, CallTypes, Go, Set, Return, local
  <2>1. CASE Include(c) \/ Resolve(c) \/ Forget(c) \/ Negative(c) \/ Probe(c) \/ Remember(c)
    BY <2>1, Zenon DEF Include, Resolve, Forget, Negative, Probe, Remember
  <2>2. CASE \/ Start(c) \/ Window(c) \/ Validate(c) \/ LookIndex(c) \/ LookEntry(c)
             \/ CheckDeps(c) \/ Invalidate(c)
    BY <2>2, Zenon DEF Start, Window, Validate, LookIndex, LookEntry, CheckDeps, Invalidate
  <2>3. CASE Unindex(c) \/ TryBegin(c) \/ Wait(c) \/ Load(c) \/ Compile(c)
    BY <2>3, Zenon DEF Unindex, TryBegin, Wait, Load, Compile
  <2>4. CASE Insert(c) \/ Publish(c) \/ End(c)
    BY <2>4 DEF Insert, Publish, End
  <2> QED
    BY <2>1, <2>2, <2>3, <2>4, Zenon DEF Step
<1> QED
  BY <1>1, <1>2, Zenon

\* What calls leave in the cache is current where nobody will check it.
LEMMA WorkerShared ==
  ASSUME Types, SharedOK, NEW c \in Workers, CallOK(c), Include(c) \/ Step(c)
  PROVE  SharedOK'
<1>1. UNCHANGED <<windowed, root, last, file, dirty, clearing>>
  BY WorkerFrame, Zenon
<1>2. ~dirty
  <2>1. CASE Include(c)
    BY <2>1, Zenon DEF Include
  <2>2. CASE Step(c)
    BY <2>2, Zenon DEF SharedOK, Step, Resolve, Forget, Negative, Probe, Remember, Start, Window,
       Validate, LookIndex, LookEntry, CheckDeps, Invalidate, Unindex, TryBegin, Wait,
       Load, Compile, Insert, Publish, End
  <2> QED
    BY <2>1, <2>2
<1>3. "main" \in root => resolution' \in {0, file["main"]}
  <2>1. CASE Remember(c) \/ Forget(c)
    BY <1>2, <2>1, Zenon DEF Remember, Forget, SharedOK, CallOK
  <2>2. CASE ~Remember(c) /\ ~Forget(c)
    <3>1. UNCHANGED resolution
      BY <2>2, Zenon DEF Include, Step, Resolve, Negative, Probe, Start, Window, Validate,
         LookIndex, LookEntry, CheckDeps, Invalidate, Unindex, TryBegin, Wait, Load,
         Compile, Insert, Publish, End, resolutions
    <3> QED
      BY <1>2, <3>1 DEF SharedOK
  <2> QED
    BY <2>1, <2>2
<1>4. /\ \A k \in entries' : k.dep # 0 /\ ("dep" \in root => k.dep = file["dep"])
      /\ ~windowed => fresh' = {}
  <2>1. CASE Insert(c)
    BY <1>2, <2>1, Zenon DEF Insert, SharedOK, CallOK, DepRead
  <2>2. CASE CheckDeps(c) \/ Invalidate(c)
    BY <1>2, <2>2, Zenon DEF CheckDeps, Invalidate, SharedOK
  <2>3. CASE ~Insert(c) /\ ~CheckDeps(c) /\ ~Invalidate(c)
    <3>1. UNCHANGED <<entries, fresh>>
      BY <2>3, Zenon DEF Include, Step, Resolve, Forget, Negative, Probe, Remember, Start,
         Window, Validate, LookIndex, LookEntry, Unindex, TryBegin, Wait, Load, Compile,
         Publish, End, compiled
    <3> QED
      BY <1>2, <3>1 DEF SharedOK
  <2> QED
    BY <2>1, <2>2, <2>3
<1> QED
  BY <1>1, <1>2, <1>3, <1>4, Zenon DEF SharedOK

\* The version a file has is no older than the oldest it could have.
LEMMA OldestIsCurrent ==
  ASSUME Types, SharedOK, NEW f \in Files
  PROVE  /\ Oldest(f) \in Nat
         /\ file[f] \in Nat
         /\ file[f] # 0 => Oldest(f) = file[f]
BY DEF Oldest, Types, SharedTypes

\* Resolving the path.
LEMMA ResolvesOK ==
  ASSUME Types, SharedOK, NEW c \in Workers, CallOK(c),
         \/ Include(c) \/ Resolve(c) \/ Forget(c) \/ Negative(c) \/ Probe(c) \/ Remember(c)
  PROVE  CallOK(c)'
<1>1. /\ UNCHANGED <<windowed, root, last, file>>
      /\ Oldest("main")' = Oldest("main") /\ Oldest("dep")' = Oldest("dep")
  BY WorkerFrame, Zenon DEF Step, Oldest
<1>2. Oldest("main") \in Nat /\ Oldest("dep") \in Nat
  BY OldestIsCurrent DEF Files
<1>3. CASE Include(c)
  <2>1. /\ pc'[c] = "resolve" /\ UNCHANGED <<src, key, answer>> /\ answer[c] = "none"
        /\ since'[c] = [src |-> Oldest("main"), dep |-> Oldest("dep")] /\ src[c] = 0
        /\ file["main"] = 0 => c \in missed'
    BY <1>3, Zenon DEF Include, local, CallOK, Types, CallTypes, Set
  <2>2. since'[c].src = Oldest("main") /\ since'[c].dep = Oldest("dep")
    BY <2>1
  <2>3. since'[c].src <= Oldest("main")' /\ since'[c].dep <= Oldest("dep")'
    BY <1>1, <1>2, <2>2
  <2>4. src'[c] = 0 /\ answer'[c] = "none" /\ (file'["main"] = 0 => c \in missed')
    BY <1>1, <2>1, Zenon
  <2> QED
    BY <2>1, <2>3, <2>4, Zenon DEF CallOK, Found, Validated, Looking, Compiling
<1> USE DEF CallOK, Types, CallTypes, Go, Set, Return, Found, Validated, Looking, Compiling
<1>4. CASE Resolve(c)
  <2>1. ~dirty
    BY <1>4 DEF Resolve, SharedOK
  <2>2. /\ pc'[c] \in {"negative", "start", "forget"} /\ pc[c] = "resolve"
        /\ UNCHANGED <<src, key, answer, since, missed>>
        /\ pc'[c] = "start" => res'[c] = resolution /\ resolution # 0
    BY <1>4 DEF Resolve, disk
  <2>3. "main" \in root /\ pc'[c] = "start" => file["main"] # 0 /\ res'[c] = file["main"]
    BY <2>1, <2>2, Zenon DEF SharedOK
  <2>4. "main" \notin root => pc'[c] \notin Validated
    BY <2>2, Zenon
  <2> QED
    BY <1>1, <2>2, <2>3, <2>4, Zenon
<1>5. CASE Forget(c) \/ Remember(c)
  BY <1>1, <1>5, Zenon DEF Forget, Remember, disk, local
<1>6. CASE Negative(c)
  BY <1>1, <1>6, Zenon DEF Negative, disk, local
<1>7. CASE Probe(c)
  BY <1>1, <1>7 DEF Probe, disk
<1> QED
  BY <1>3, <1>4, <1>5, <1>6, <1>7, Zenon

\* Looking the unit up.
LEMMA LooksOK ==
  ASSUME Types, SharedOK, NEW c \in Workers, CallOK(c),
         \/ Start(c) \/ Window(c) \/ Validate(c) \/ LookIndex(c) \/ LookEntry(c)
         \/ CheckDeps(c) \/ Invalidate(c) \/ Unindex(c)
  PROVE  CallOK(c)'
<1>1. /\ UNCHANGED <<windowed, root, last, file>>
      /\ Oldest("main")' = Oldest("main") /\ Oldest("dep")' = Oldest("dep")
  BY WorkerFrame, Zenon DEF Step, Oldest
<1>2. /\ Oldest("main") \in Nat /\ (file["main"] # 0 => Oldest("main") = file["main"])
      /\ Oldest("dep") \in Nat /\ (file["dep"] # 0 => Oldest("dep") = file["dep"])
  BY OldestIsCurrent DEF Files
<1>3. UNCHANGED <<since, missed>>
  BY Zenon DEF Start, Window, Validate, LookIndex, LookEntry, CheckDeps, Invalidate, Unindex,
     disk
<1> USE DEF CallOK, Types, CallTypes, Go, Set, Return, Found, Validated, Looking, Compiling
<1>4. CASE Start(c)
  BY <1>1, <1>3, <1>4, Zenon DEF Start
<1>5. CASE Window(c)
  BY <1>1, <1>3, <1>5, Zenon DEF Window, local, SharedOK
<1>6. CASE Validate(c)
  BY <1>1, <1>2, <1>3, <1>6, Zenon DEF Validate
<1>7. CASE LookIndex(c)
  BY <1>1, <1>3, <1>7, Zenon DEF LookIndex, AfterMiss
<1>8. CASE LookEntry(c)
  <2>1. ~dirty /\ pc[c] = "entry" /\ UNCHANGED local
    BY <1>8, Zenon DEF LookEntry, SharedOK
  <2>2. ASSUME key[c] \in entries, PrimarySourceIsFresh(c)
        PROVE  key[c].src >= since[c].src /\ DepRead(key[c])
    <3>1. DepRead(key[c])
      BY <2>1, <2>2 DEF SharedOK, DepRead
    <3>2. key[c].src >= since[c].src
      BY <1>2, <2>1, <2>2 DEF PrimarySourceIsFresh, Keys
    <3> QED
      BY <3>1, <3>2
  <2>3. /\ pc'[c] \in {"return", "begin", "load", "compile", "deps", "invalidate"}
        /\ pc'[c] = "compile" => src[c] # 0
        /\ pc'[c] = "deps" => key[c] \in entries /\ PrimarySourceIsFresh(c)
    BY <1>8 DEF LookEntry, AfterMiss
  <2>4. /\ answer'[c] \in {"none", "served"} /\ (answer'[c] # "none" => pc'[c] = "return")
        /\ answer'[c] = "served" => windowed
    BY <1>8 DEF LookEntry, SharedOK
  <2> QED
    BY <1>1, <1>3, <2>1, <2>2, <2>3, <2>4, Zenon DEF local, DepRead
<1>9. CASE CheckDeps(c)
  <2>1. pc[c] = "deps" /\ UNCHANGED local /\ answer[c] = "none"
    BY <1>9 DEF CheckDeps
  <2>2. DependenciesAreFresh(key[c]) => key[c].dep >= since[c].dep
    BY <1>2, <2>1 DEF DependenciesAreFresh, DepRead, Files, Keys
  <2> QED
    BY <1>1, <1>3, <1>9, <2>1, <2>2, Zenon DEF CheckDeps, local, NotOlder
<1>10. CASE Invalidate(c) \/ Unindex(c)
  BY <1>1, <1>3, <1>10, Zenon DEF Invalidate, Unindex, AfterMiss, local
<1> QED
  BY <1>4, <1>5, <1>6, <1>7, <1>8, <1>9, <1>10, Zenon

\* Compiling it.
LEMMA CompilesOK ==
  ASSUME Types, SharedOK, NEW c \in Workers, CallOK(c),
         \/ TryBegin(c) \/ Wait(c) \/ Load(c) \/ Compile(c) \/ Insert(c) \/ Publish(c)
         \/ End(c)
  PROVE  CallOK(c)'
<1>1. /\ UNCHANGED <<windowed, root, last, file>>
      /\ Oldest("main")' = Oldest("main") /\ Oldest("dep")' = Oldest("dep")
  BY WorkerFrame, Zenon DEF Step, Oldest
<1>2. /\ Oldest("main") \in Nat /\ (file["main"] # 0 => Oldest("main") = file["main"])
      /\ Oldest("dep") \in Nat /\ (file["dep"] # 0 => Oldest("dep") = file["dep"])
  BY OldestIsCurrent DEF Files
<1> USE DEF CallOK, Types, CallTypes, Go, Set, Return, Found, Validated, Looking, Compiling
<1>3. CASE TryBegin(c) \/ Wait(c)
  BY <1>1, <1>3, Zenon DEF TryBegin, Wait, AfterPermit, disk, local
<1>4. CASE Load(c)
  BY <1>1, <1>2, <1>4, Zenon DEF Load, disk
<1>5. CASE Compile(c)
  <2>1. pc[c] = "compile" /\ answer[c] = "none" /\ UNCHANGED <<res, src, since, missed>>
    BY <1>5, Zenon DEF Compile, disk
  <2>2. CASE Return(c, "failed")
    BY <1>1, <2>1, <2>2, Zenon
  <2>3. CASE /\ file["dep"] # 0 /\ Go(c, "insert") /\ UNCHANGED answer
             /\ key' = Set(key, c, [src |-> src[c], dep |-> file["dep"]])
    <3>1. key'[c].src = src[c] /\ key'[c].dep = file["dep"] /\ pc'[c] = "insert"
      BY <2>3
    <3>2. NotOlder(key'[c], since[c])
      BY <1>2, <2>1, <2>3, <3>1, Zenon DEF NotOlder
    <3> QED
      BY <1>1, <2>1, <2>3, <3>1, <3>2, Zenon DEF DepRead, NotOlder
  <2> QED
    BY <1>5, <2>2, <2>3, Zenon DEF Compile
<1>6. CASE Insert(c) \/ Publish(c)
  BY <1>1, <1>6, Zenon DEF Insert, Publish, disk, local, NotOlder, DepRead
<1>7. CASE End(c)
  BY <1>1, <1>7 DEF End
<1> QED
  BY <1>3, <1>4, <1>5, <1>6, <1>7, Zenon

\* Any step of a call.
LEMMA WorkerCurrent ==
  ASSUME CurrentInv, NEW c \in Workers, Include(c) \/ Step(c)
  PROVE  SharedOK' /\ \A d \in Workers : CallOK(d)'
<1>1. Types /\ SharedOK /\ CallOK(c)
  BY DEF CurrentInv
<1>2. SharedOK'
  BY <1>1, WorkerShared
<1>3. CallOK(c)'
  BY <1>1, ResolvesOK, LooksOK, CompilesOK DEF Step
<1>4. ASSUME NEW d \in Workers \ {c} PROVE CallOK(d)'
  <2>1. CallOK(d)
    BY DEF CurrentInv
  <2> QED
    <3>1. /\ UNCHANGED <<windowed, root, last, file, dirty, clearing>>
          /\ pc'[d] = pc[d] /\ answer'[d] = answer[d] /\ since'[d] = since[d]
          /\ res'[d] = res[d] /\ src'[d] = src[d] /\ key'[d] = key[d]
          /\ d \in missed' <=> d \in missed
      BY <1>1, WorkerFrame, Zenon
    <3> QED
      BY <2>1, <3>1 DEF CallOK, Oldest, DepRead, NotOlder
<1> QED
  BY <1>2, <1>3, <1>4

\* An edit or a deletion.  It makes nothing older, and a file under an immutable
\* root changes while no call runs.
LEMMA ChangeCurrent ==
  ASSUME CurrentInv, NEW f \in Files, Edit(f) \/ Delete(f)
  PROVE  SharedOK' /\ \A c \in Workers : CallOK(c)'
<1>1. Types /\ SharedOK
  BY DEF CurrentInv
<1>2. PICK v \in Nat : /\ Change(f, v) /\ v \in {0, last'[f]}
                       /\ last' = [last EXCEPT ![f] = last'[f]] /\ last'[f] \in Nat
                       /\ (v = 0 => last'[f] = last[f]) /\ (v # 0 => last'[f] = last[f] + 1)
  BY <1>1 DEF Edit, Delete, Types, SharedTypes
<1>3. /\ file' = [file EXCEPT ![f] = v] /\ dirty' = (dirty \/ f \in root)
      /\ f \in root => Active = {} /\ clearing = "off"
      /\ UNCHANGED <<windowed, root, clearing, resolution, entries, fresh>>
      /\ UNCHANGED <<pc, res, src, key, answer, since>>
  BY <1>2 DEF Change, Conf, resolutions, compiled, clearer, local
<1>4. f \in root => \A c \in Workers : pc[c] = "idle"
  BY <1>3 DEF Active
<1>5. \A g \in Files : Oldest(g) \in Nat /\ Oldest(g)' \in Nat /\ Oldest(g) <= Oldest(g)'
  <2> SUFFICES ASSUME NEW g \in Files
               PROVE  Oldest(g) \in Nat /\ Oldest(g)' \in Nat /\ Oldest(g) <= Oldest(g)'
    OBVIOUS
  <2>1. last[g] \in Nat /\ file[g] \in {0, last[g]}
    BY <1>1 DEF Types, SharedTypes, SharedOK
  <2>2. CASE g # f
    <3>1. file'[g] = file[g] /\ last'[g] = last[g]
      BY <1>1, <1>2, <1>3, <2>2 DEF Types, SharedTypes
    <3> QED
      BY <2>1, <3>1 DEF Oldest
  <2>3. CASE g = f
    <3>1. file'[f] = v /\ last[f] \in Nat
      BY <1>1, <1>3 DEF Types, SharedTypes
    <3>2. Oldest(f) <= last[f] + 1 /\ Oldest(f) \in Nat
      BY <2>1, <2>3, <3>1 DEF Oldest
    <3>3. Oldest(f)' = last[f] + 1
      BY <1>2, <3>1 DEF Oldest
    <3> QED
      BY <2>3, <3>1, <3>2, <3>3
  <2> QED
    BY <2>2, <2>3
<1>6. SharedOK'
  <2>1. \A g \in Files : file'[g] \in {0, last'[g]}
    BY <1>1, <1>2, <1>3 DEF SharedOK, Types, SharedTypes
  <2>2. /\ dirty' => \A c \in Workers : pc'[c] = "idle"
        /\ dirty' /\ clearing' # "off" => resolution' = 0
        /\ dirty' /\ clearing' = "index" => entries' = {}
    BY <1>1, <1>3, <1>4, Zenon DEF SharedOK
  <2>3. ~dirty' => ~dirty /\ \A g \in root : file'[g] = file[g]
    BY <1>1, <1>3, Zenon DEF Types, SharedTypes
  <2> QED
    BY <1>1, <1>3, <2>1, <2>2, <2>3 DEF SharedOK
<1>7. ASSUME NEW c \in Workers PROVE CallOK(c)'
  <2>1. CallOK(c) /\ since[c].src \in Nat /\ since[c].dep \in Nat
    BY <1>1 DEF CurrentInv, Types, CallTypes, Keys
  <2>2. CASE f \in root
    BY <1>3, <1>4, <2>1, <2>2, Zenon DEF CallOK, Found, Validated, Looking, Compiling, NotOlder
  <2>3. CASE f \notin root
    <3>1. \A g \in root : file'[g] = file[g]
      BY <1>1, <1>3, <2>3 DEF Types, SharedTypes
    <3>2. c \in missed => c \in missed'
      BY <1>2 DEF Change
    <3>3. pc[c] # "idle" /\ file'["main"] = 0 => c \in missed'
      <4>1. CASE f = "main"
        <5>1. file'["main"] = v
          BY <1>1, <1>3, <4>1 DEF Types, SharedTypes
        <5> QED
          BY <1>2, <4>1, <5>1 DEF Change, Active
      <4>2. CASE f # "main"
        <5>1. file'["main"] = file["main"]
          BY <1>1, <1>3, <4>2 DEF Types, SharedTypes, Files
        <5> QED
          BY <2>1, <3>2, <5>1 DEF CallOK
      <4> QED
        BY <4>1, <4>2
    <3>4. pc[c] # "idle" =>
            since[c].src <= Oldest("main")' /\ since[c].dep <= Oldest("dep")'
      <4>1. pc[c] # "idle" => since[c].src <= Oldest("main") /\ since[c].dep <= Oldest("dep")
        BY <2>1, Zenon DEF CallOK
      <4>2. "main" \in Files /\ "dep" \in Files
        BY Zenon DEF Files
      <4> QED
        BY <1>5, <2>1, <4>1, <4>2
    <3> HIDE <1>2
    <3> QED
      BY <1>3, <2>1, <3>1, <3>2, <3>3, <3>4, Zenon DEF CallOK, NotOlder, DepRead
  <2> QED
    BY <2>2, <2>3
<1> QED
  BY <1>6, <1>7

\* The passing of the interval and the steps of clear().
LEMMA ClearCurrent ==
  ASSUME CurrentInv, Expire \/ ClearResolutions \/ ClearCompiled
  PROVE  SharedOK' /\ \A c \in Workers : CallOK(c)'
<1>1. Types /\ SharedOK
  BY DEF CurrentInv
<1>2. UNCHANGED <<windowed, root, last, file, missed, pc, res, src, key, answer, since>>
  BY DEF Expire, ClearResolutions, ClearCompiled, Conf, disk, local
<1>3. \A c \in Workers : CallOK(c)'
  BY <1>2, Zenon DEF CurrentInv, CallOK, Oldest, NotOlder, DepRead
<1>4. CASE Expire
  <2>1. UNCHANGED <<dirty, clearing, resolution, entries>> /\ fresh' = {}
    BY <1>4 DEF Expire, disk, clearer
  <2> QED
    BY <1>1, <1>2, <1>3, <2>1 DEF SharedOK
<1>5. CASE ClearResolutions
  <2>1. /\ UNCHANGED <<dirty, entries, fresh>> /\ clearing' \in {"negative", "entries"}
        /\ resolution' = 0 \/ (resolution' = resolution /\ clearing # "off")
    BY <1>5 DEF ClearResolutions, disk, compiled
  <2> QED
    BY <1>1, <1>2, <1>3, <2>1 DEF SharedOK
<1>6. CASE ClearCompiled
  <2>1. CASE clearing = "entries"
    <3>1. /\ UNCHANGED <<dirty, resolution>> /\ clearing' = "index"
          /\ entries' = {} /\ fresh' = {}
      BY <1>6, <2>1 DEF ClearCompiled, resolutions
    <3> QED
      BY <1>1, <1>2, <1>3, <2>1, <3>1 DEF SharedOK
  <2>2. CASE clearing = "index"
    <3>1. UNCHANGED <<resolution, entries, fresh>> /\ ~dirty' /\ clearing' = "off"
      BY <1>6, <2>2 DEF ClearCompiled, resolutions
    <3> QED
      BY <1>1, <1>2, <1>3, <2>2, <3>1 DEF SharedOK
  <2> QED
    BY <1>6, <2>1, <2>2 DEF ClearCompiled
<1> QED
  BY <1>3, <1>4, <1>5, <1>6

\* Any step.
LEMMA CurrentStep == ASSUME CurrentInv, [Next]_vars PROVE CurrentInv'
<1>1. CASE Next
  <2>1. Types'
    BY <1>1, SharedTypesStep, CallTypesStep DEF CurrentInv, Types
  <2> QED
    BY <1>1, <2>1, WorkerCurrent, ChangeCurrent, ClearCurrent DEF Next, CurrentInv
<1>2. CASE UNCHANGED vars
  <2>1. Types'
    BY <1>2 DEF vars, disk, resolutions, compiled, local, history, CurrentInv, Types,
       SharedTypes, CallTypes
  <2>2. SharedOK' /\ \A c \in Workers : CallOK(c)'
    BY <1>2, Zenon DEF vars, disk, resolutions, compiled, clearer, local, CurrentInv, SharedOK,
       CallOK, Oldest, NotOlder, DepRead
  <2> QED
    BY <2>1, <2>2 DEF CurrentInv
<1> QED
  BY <1>1, <1>2

\* Without a revalidation interval the include cache is invisible: a call gets
\* the unit of versions that the file and its dependency had while it ran, and
\* is told that there is no file only if there was none.
THEOREM IncludesAreCurrent == Spec => []ServesCurrentFiles
<1>1. CurrentInv => ServesCurrentFiles
  BY Zenon DEF CurrentInv, CallOK, NotOlder, ServesCurrentFiles
<1> QED
  BY <1>1, CurrentInit, CurrentStep, PTL DEF Spec
=============================================================================
