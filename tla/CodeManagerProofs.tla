-------------------------- MODULE CodeManagerProofs --------------------------
(***************************************************************************)
(* Theorems about CodeManager, for every set of threads, functions and     *)
(* keys and every limit.                                                   *)
(*                                                                         *)
(* TargetsAreLive is not inductive: that the generation behind an address  *)
(* is owned follows from the publication of the same function and tier,    *)
(* which LinkOK ties to the address.  LinkOK holds for what eviction       *)
(* leaves of cells and publications whatever set of generations it         *)
(* removes, so the proofs need not know how many it takes.                 *)
(*                                                                         *)
(* The rest shows that a claimed key has the one caller that compiles it,  *)
(* and bounds the executable memory.                                       *)
(***************************************************************************)
EXTENDS CodeManager, SequenceTheorems, FiniteSetTheorems, TLAPS

\* Cells and publications agree: an address in a cell is that of the
\* publication, and a published function has a cell.
LinkOK(c, p) ==
  /\ c \in [Functions -> [state : CellStates, target : [Tiers -> Nat]]]
  /\ p \in [Functions -> [Tiers -> Nat]]
  /\ \A f \in Functions, r \in Tiers : c[f].target[r] # 0 => p[f][r] = c[f].target[r]
  /\ \A f \in Functions, r \in Tiers : p[f][r] # 0 => c[f].state # "none"
  /\ \A f \in Functions : c[f].state = "none" => c[f] = NoCell

\* A call holds a cell only between its claim and its end.
OwnOK(o, c) ==
  /\ o \in [Threads -> BOOLEAN]
  /\ \A t \in Threads :
       o[t] => /\ pc[t] \in {"admit", "queued", "compiling", "publish", "mark", "clear"}
               /\ c[Root[key[t]]].state # "none"

\* The calls and the set of keys being compiled.
CallOK ==
  /\ pc \in [Threads -> Places]
  /\ key \in [Threads -> Keys \cup {NoKey}]
  /\ compiling \subseteq Keys
  /\ \A t \in Threads : pc[t] # "idle" => key[t] \in Keys
  /\ \A t \in Compilers : key[t] \in compiling
  /\ OneCompilePerKey

\* The generations.
CodeOK ==
  /\ gen \in [Threads -> Nat]
  /\ held \subseteq Nat
  /\ calls \in Nat
  /\ bytes \in Seq(Nat)
  /\ generations \subseteq Nat
  /\ active \in [Modes -> Nat]
  /\ cache \in [Keys -> Nat]
  /\ failures \subseteq Keys
  /\ poisoned \subseteq Nat

ManagerInv == CodeOK /\ CallOK /\ LinkOK(cell, pub) /\ OwnOK(own, cell)
-----------------------------------------------------------------------------
\* Eviction clears the addresses of what it removes and keeps the cells of
\* functions that are still published.
LEMMA EvictLink ==
  ASSUME NEW c, NEW p, NEW E, LinkOK(c, p)
  PROVE  LinkOK(EvictCells(c, p, E), WithoutPubs(p, E))
<1> DEFINE c2 == EvictCells(c, p, E)
           p2 == WithoutPubs(p, E)
<1>1. p2 \in [Functions -> [Tiers -> Nat]]
  BY DEF LinkOK, WithoutPubs
<1>2. ASSUME NEW f \in Functions
      PROVE  /\ c2[f] \in [state : CellStates, target : [Tiers -> Nat]]
             /\ \A r \in Tiers : c2[f].target[r] # 0 => p2[f][r] = c2[f].target[r]
             /\ \A r \in Tiers : p2[f][r] # 0 => c2[f].state # "none"
             /\ c2[f].state = "none" => c2[f] = NoCell
  <2> DEFINE R == {r \in Tiers : p[f][r] \in E}
  <2>0. /\ c[f] \in [state : CellStates, target : [Tiers -> Nat]]
        /\ p[f] \in [Tiers -> Nat]
        /\ \A r \in Tiers : c[f].target[r] # 0 => p[f][r] = c[f].target[r]
        /\ \A r \in Tiers : p[f][r] # 0 => c[f].state # "none"
        /\ c[f].state = "none" => c[f] = NoCell
    BY DEF LinkOK
  <2>1. \A r \in Tiers : p2[f][r] = IF r \in R THEN 0 ELSE p[f][r]
    BY DEF WithoutPubs
  <2>2. CASE R = {}
    <3>1. c2[f] = c[f]
      BY <2>2 DEF EvictCells
    <3>2. \A r \in Tiers : p2[f][r] = p[f][r]
      BY <2>1, <2>2
    <3> QED BY <2>0, <3>1, <3>2
  <2>3. CASE R # {} /\ \A r \in Tiers \ R : p[f][r] = 0
    <3>1. c2[f] = NoCell
      BY <2>3 DEF EvictCells
    <3>2. \A r \in Tiers : p2[f][r] = 0
      BY <2>1, <2>3
    <3> QED BY <3>1, <3>2 DEF NoCell, CellStates
  <2>4. CASE R # {} /\ ~(\A r \in Tiers \ R : p[f][r] = 0)
    <3>1. c2[f] = RetireTiers(c[f], R)
      BY <2>4 DEF EvictCells
    <3>2. c[f].state # "none"
      BY <2>0, <2>4
    <3> DEFINE left == [r \in Tiers |-> IF r \in R THEN 0 ELSE c[f].target[r]]
    <3>3. /\ c2[f].target = left
          /\ c2[f].state \in {"retired", c[f].state}
          /\ c2[f] \in [state : CellStates, target : [Tiers -> Nat]]
      BY <2>0, <3>1 DEF RetireTiers, CellStates
    <3> QED BY <2>0, <2>1, <3>2, <3>3, Zenon
  <2> QED BY <2>2, <2>3, <2>4, Zenon
<1>3. c2 \in [Functions -> [state : CellStates, target : [Tiers -> Nat]]]
  <2>1. c2 = [f \in Functions |-> c2[f]]
    BY DEF EvictCells
  <2> QED BY <1>2, <2>1
<1> QED BY <1>1, <1>2, <1>3 DEF LinkOK

\* Initially nothing is compiled.
LEMMA ManagerInit == Init => ManagerInv
<1> SUFFICES ASSUME Init PROVE ManagerInv
  OBVIOUS
<1>1. CodeOK
  <2>1. <<0, 0>> \in Seq(Nat)
    OBVIOUS
  <2> QED BY <2>1 DEF Init, CodeOK
<1>2. CallOK
  BY DEF Init, CallOK, Places, Compilers, OneCompilePerKey
<1>3. LinkOK(cell, pub)
  BY DEF Init, LinkOK, NoCell, CellStates
<1>4. OwnOK(own, cell)
  BY DEF Init, OwnOK
<1> QED BY <1>1, <1>2, <1>3, <1>4 DEF ManagerInv

\* What a claim does, with the set of generations it evicts left open.
LEMMA ClaimParts ==
  ASSUME NEW t \in Threads, Claim(t)
  PROVE  \E E :
    LET left == EvictCells([cell EXCEPT ![Root[key[t]]] =
                              [Cell(Root[key[t]]) EXCEPT !.state = "queued"]], pub, E)
    IN /\ generations' = generations \ E
       /\ cache' = Without(cache, E)
       /\ pub' = WithoutPubs(pub, E)
       /\ \/ /\ cell' = IF left[Root[key[t]]] = NoCell THEN left
                        ELSE [left EXCEPT ![Root[key[t]]].state = "declared"]
             /\ own' = StillOwn(left)
             /\ Return(t, {})
             /\ UNCHANGED compiling
          \/ /\ cell' = left
             /\ own' = [StillOwn(left) EXCEPT ![t] = left[Root[key[t]]] # NoCell]
             /\ gen' = [gen EXCEPT ![t] = active[Mode[key[t]]]]
             /\ compiling' = compiling \cup {key[t]}
             /\ pc' = [pc EXCEPT ![t] = "admit"]
             /\ UNCHANGED <<key, held, calls>>
<1> DEFINE E == Evicted(generations, active, cache, pub)
           left == EvictCells([cell EXCEPT ![Root[key[t]]] =
                                 [Cell(Root[key[t]]) EXCEPT !.state = "queued"]], pub, E)
<1>1. /\ generations' = generations \ E
      /\ cache' = Without(cache, E)
      /\ pub' = WithoutPubs(pub, E)
      /\ \/ /\ cell' = IF left[Root[key[t]]] = NoCell THEN left
                       ELSE [left EXCEPT ![Root[key[t]]].state = "declared"]
            /\ own' = StillOwn(left)
            /\ Return(t, {})
            /\ UNCHANGED compiling
         \/ /\ cell' = left
            /\ own' = [StillOwn(left) EXCEPT ![t] = left[Root[key[t]]] # NoCell]
            /\ gen' = [gen EXCEPT ![t] = active[Mode[key[t]]]]
            /\ compiling' = compiling \cup {key[t]}
            /\ pc' = [pc EXCEPT ![t] = "admit"]
            /\ UNCHANGED <<key, held, calls>>
  BY Zenon DEF Claim
<1> HIDE DEF E
<1> QED BY <1>1, Zenon

\* What a publication does, with the set of generations it evicts left open.
LEMMA PublishParts ==
  ASSUME NEW t \in Threads, Publish(t)
  PROVE  /\ Return(t, {gen[t]})
         /\ compiling' = compiling \ {key[t]}
         /\ failures' = failures \ {key[t]}
         /\ poisoned' = poisoned
         /\ \/ \E E :
                 /\ bytes' = Append(bytes, 0)
                 /\ active' = [active EXCEPT ![Mode[key[t]]] = Len(bytes) + 1]
                 /\ generations' = (generations \cup {Len(bytes) + 1}) \ E
                 /\ cache' = Without([cache EXCEPT ![key[t]] = gen[t]], E)
                 /\ pub' = WithoutPubs(PublishPubs(key[t], gen[t]), E)
                 /\ cell' = EvictCells(PublishCells(key[t], gen[t]),
                                       PublishPubs(key[t], gen[t]), E)
                 /\ own' = [StillOwn(cell') EXCEPT ![t] = FALSE]
            \/ /\ cache' = [cache EXCEPT ![key[t]] = gen[t]]
               /\ pub' = PublishPubs(key[t], gen[t])
               /\ cell' = PublishCells(key[t], gen[t])
               /\ own' = [own EXCEPT ![t] = FALSE]
               /\ UNCHANGED <<bytes, active, generations>>
<1> DEFINE E == Evicted(generations \cup {Len(bytes) + 1},
                        [active EXCEPT ![Mode[key[t]]] = Len(bytes) + 1],
                        [cache EXCEPT ![key[t]] = gen[t]],
                        PublishPubs(key[t], gen[t]))
<1> QED BY Zenon DEF Publish

\* Adding to a count of a sequence of counts.
LEMMA CountBytes ==
  ASSUME NEW s \in Seq(Nat), NEW g \in Nat, NEW n \in Nat
  PROVE  [s EXCEPT ![g] = @ + n] \in Seq(Nat)
<1>1. CASE g \in 1 .. Len(s)
  <2>1. s[g] + n \in Nat
    BY <1>1
  <2>2. [s EXCEPT ![g] = s[g] + n] \in Seq(Nat)
    BY <1>1, <2>1, ExceptSeq
  <2> QED BY <2>2
<1>2. CASE g \notin 1 .. Len(s)
  <2>1. DOMAIN s = 1 .. Len(s)
    OBVIOUS
  <2>2. [s EXCEPT ![g] = @ + n] = [i \in DOMAIN s |-> s[i]]
    BY <1>2, <2>1, Zenon
  <2>3. s = [i \in DOMAIN s |-> s[i]]
    OBVIOUS
  <2> QED BY <2>2, <2>3, Zenon
<1> QED BY <1>1, <1>2

\* The generations, handles and byte counts keep their types.
LEMMA CodeStep == ManagerInv /\ [Next]_vars => CodeOK'
<1> SUFFICES ASSUME ManagerInv, [Next]_vars PROVE CodeOK'
  OBVIOUS
<1> USE KeysAssumption DEF ManagerInv, CodeOK
<1>1. ASSUME NEW t \in Threads, CallStep(t) PROVE CodeOK'
  <2>0. Len(bytes) \in Nat
    OBVIOUS
  <2>1. CASE Hit(t)
    BY <2>1, Zenon DEF Hit, Return, code, CallOK
  <2>2. CASE FailedBefore(t)
    BY <2>2 DEF FailedBefore, Return, code
  <2>3. CASE Claim(t)
    <3>1. key[t] \in Keys
      BY <2>3, Zenon DEF Claim, CallOK
    <3>2. active[Mode[key[t]]] \in Nat
      BY <3>1
    <3>3. PICK E : generations' = generations \ E /\ cache' = Without(cache, E)
      BY <2>3, ClaimParts, Zenon
    <3>4. generations' \subseteq Nat /\ cache' \in [Keys -> Nat]
      BY <3>3, Zenon DEF Without
    <3>5. /\ gen' \in [Threads -> Nat]
          /\ held' \subseteq Nat
          /\ calls' = calls
      <4>1. \/ Return(t, {})
            \/ /\ gen' = [gen EXCEPT ![t] = active[Mode[key[t]]]]
               /\ UNCHANGED <<key, held, calls>>
        BY <2>3, ClaimParts, Zenon
      <4>2. CASE Return(t, {})
        BY <4>2 DEF Return
      <4>3. CASE gen' = [gen EXCEPT ![t] = active[Mode[key[t]]]] /\ UNCHANGED <<key, held, calls>>
        BY <3>2, <4>3
      <4> QED BY <4>1, <4>2, <4>3
    <3>6. UNCHANGED <<bytes, active, poisoned, failures>>
      BY <2>3, Zenon DEF Claim
    <3> QED BY <3>4, <3>5, <3>6
  <2>4. CASE Acquire(t) \/ Enqueue(t) \/ LeaveQueue(t) \/ MarkFailed(t)
    BY <2>4, Zenon DEF Acquire, Enqueue, LeaveQueue, MarkFailed, code
  <2>5. CASE QueueFull(t) \/ ClearTargets(t)
    BY <2>5 DEF QueueFull, ClearTargets, Return, code
  <2>6. CASE CompileSucceeds(t)
    <3>1. key[t] \in Keys
      BY <2>6 DEF CompileSucceeds, CallOK
    <3> DEFINE n == Size[key[t]]
    <3>2. n \in Nat
      BY <3>1
    <3>3. bytes' = [bytes EXCEPT ![gen[t]] = @ + n]
      BY <2>6 DEF CompileSucceeds
    <3>4. bytes' \in Seq(Nat)
      BY <3>2, <3>3, CountBytes
    <3> QED BY <2>6, <3>4, Zenon DEF CompileSucceeds
  <2>7. CASE CompileFails(t)
    BY <2>7, Zenon DEF CompileFails, code, CallOK
  <2>8. CASE Publish(t)
    <3>1. key[t] \in Keys
      BY <2>8, Zenon DEF Publish, CallOK
    <3>2. /\ gen' \in [Threads -> Nat]
          /\ held' \subseteq Nat
          /\ calls' = calls
          /\ failures' \subseteq Keys
          /\ poisoned' = poisoned
      <4>1. /\ Return(t, {gen[t]})
            /\ failures' = failures \ {key[t]}
            /\ poisoned' = poisoned
        BY <2>8, PublishParts, Zenon
      <4> QED BY <4>1, Zenon DEF Return
    <3> DEFINE handles == [cache EXCEPT ![key[t]] = gen[t]]
    <3>h. handles \in [Keys -> Nat]
      BY Zenon
    <3>3. CASE UNCHANGED <<bytes, active, generations>> /\ cache' = handles
      BY <3>2, <3>3, <3>h, Zenon
    <3>4. ASSUME NEW E,
                 bytes' = Append(bytes, 0),
                 active' = [active EXCEPT ![Mode[key[t]]] = Len(bytes) + 1],
                 generations' = (generations \cup {Len(bytes) + 1}) \ E,
                 cache' = Without(handles, E)
          PROVE  CodeOK'
      <4>1. bytes' \in Seq(Nat)
        BY <3>4
      <4>2. active' \in [Modes -> Nat] /\ generations' \subseteq Nat
        <5>1. Len(bytes) + 1 \in Nat
          BY <2>0
        <5> QED BY <3>4, <5>1, Zenon
      <4>3. cache' \in [Keys -> Nat]
        BY <3>h, <3>4, Zenon DEF Without
      <4> QED BY <3>2, <4>1, <4>2, <4>3, Zenon
    <3> QED BY <2>8, <3>3, <3>4, PublishParts, Zenon
  <2> QED BY <1>1, <2>1, <2>2, <2>3, <2>4, <2>5, <2>6, <2>7, <2>8, Zenon DEF CallStep
<1>2. ASSUME NEW t \in Threads, CompilePanics(t) PROVE CodeOK'
  <2>1. gen' \in [Threads -> Nat] /\ poisoned' \subseteq Nat
    BY <1>2, Zenon DEF CompilePanics
  <2>2. UNCHANGED <<held, calls, bytes, generations, active, cache, failures>>
    BY <1>2 DEF CompilePanics
  <2> QED BY <2>1, <2>2, Zenon
<1>3. ASSUME NEW t \in Threads, NEW k \in Keys, Call(t, k) PROVE CodeOK'
  BY <1>3 DEF Call, code
<1>4. ASSUME NEW f \in Functions, Declare(f) PROVE CodeOK'
  BY <1>4 DEF Declare, code
<1>5. ASSUME NEW f \in Functions, TakePublished(f) PROVE CodeOK'
  <2>1. \E r \in Tiers : held' = held \cup {pub[f][r]}
    BY <1>5 DEF TakePublished
  <2>2. \A r \in Tiers : pub[f][r] \in Nat
    BY DEF LinkOK
  <2>3. UNCHANGED <<gen, calls, code, failures>>
    BY <1>5 DEF TakePublished
  <2> QED BY <2>1, <2>2, <2>3, Zenon DEF code
<1>6. ASSUME NEW g \in held, DropHandle(g) PROVE CodeOK'
  BY <1>6 DEF DropHandle, code
<1>7. CASE UNCHANGED vars
  BY <1>7, Zenon DEF vars, code
<1> QED BY <1>1, <1>2, <1>3, <1>4, <1>5, <1>6, <1>7, Zenon DEF Next

\* A thread that only moves between places before its end keeps the claims.
LEMMA MoveCall ==
  ASSUME CallOK, NEW t \in Threads, NEW place \in Places \ {"idle"}, pc[t] # "idle",
         pc' = [pc EXCEPT ![t] = place], key' = key, compiling' = compiling,
         place \in {"admit", "queued", "compiling", "publish"} => t \in Compilers
  PROVE  CallOK'
<1>1. Compilers' \subseteq Compilers
  BY DEF CallOK, Compilers
<1> QED BY <1>1 DEF CallOK, OneCompilePerKey

\* A thread that ends its claim removes its own key and no other.
LEMMA EndCall ==
  ASSUME CallOK, NEW t \in Compilers, NEW place \in {"idle", "mark"},
         pc' = [pc EXCEPT ![t] = place], compiling' = compiling \ {key[t]},
         \/ place = "mark" /\ key' = key
         \/ place = "idle" /\ key' = [key EXCEPT ![t] = NoKey]
  PROVE  CallOK'
<1>1. t \in Threads
  BY DEF Compilers
<1>2. Compilers' = Compilers \ {t}
  BY <1>1, Zenon DEF CallOK, Compilers
<1>3. \A u \in Threads : u # t => key'[u] = key[u] /\ pc'[u] = pc[u]
  BY <1>1, Zenon DEF CallOK
<1>4. \A u \in Compilers' : key'[u] = key[u] /\ key[u] # key[t]
  BY <1>1, <1>2, <1>3 DEF CallOK, OneCompilePerKey, Compilers
<1>5. \A u \in Compilers' : key'[u] \in compiling'
  BY <1>2, <1>4 DEF CallOK
<1>6. OneCompilePerKey'
  BY <1>2, <1>4 DEF CallOK, OneCompilePerKey
<1>7. pc' \in [Threads -> Places] /\ key' \in [Threads -> Keys \cup {NoKey}]
  BY <1>1 DEF CallOK, Places
<1>8. \A u \in Threads : pc'[u] # "idle" => key'[u] \in Keys
  BY <1>1, <1>3 DEF CallOK, Compilers
<1> QED BY <1>5, <1>6, <1>7, <1>8, Zenon DEF CallOK

\* A key is claimed by one call at a time.
LEMMA ClaimStep == ManagerInv /\ [Next]_vars => CallOK'
<1> SUFFICES ASSUME ManagerInv, [Next]_vars PROVE CallOK'
  OBVIOUS
<1> USE DEF ManagerInv
<1>1. ASSUME NEW t \in Threads, CallStep(t) PROVE CallOK'
  <2>0. /\ pc \in [Threads -> Places]
        /\ key \in [Threads -> Keys \cup {NoKey}]
    BY DEF CallOK
  <2>r. ASSUME NEW H, pc[t] = "lookup", Return(t, H), compiling' = compiling PROVE CallOK'
    <3>1. Compilers' = Compilers
      BY <2>0, <2>r DEF Return, Compilers
    <3>2. \A u \in Compilers : key'[u] = key[u]
      BY <2>0, <2>r, Zenon DEF Return, Compilers
    <3> QED BY <2>0, <2>r, <3>1, <3>2 DEF Return, CallOK, OneCompilePerKey, Places
  <2>1. CASE Hit(t) \/ FailedBefore(t)
    BY <2>1, <2>r DEF Hit, FailedBefore
  <2>2. CASE Claim(t)
    <3>0. /\ pc[t] = "lookup"
          /\ key[t] \in Keys
          /\ key[t] \notin compiling
      BY <2>2, Zenon DEF Claim, CallOK
    <3>1. CASE Return(t, {}) /\ UNCHANGED compiling
      BY <2>r, <3>0, <3>1
    <3>2. CASE /\ compiling' = compiling \cup {key[t]}
               /\ pc' = [pc EXCEPT ![t] = "admit"]
               /\ UNCHANGED <<key, held, calls>>
      <4>1. Compilers' = Compilers \cup {t}
        BY <2>0, <3>2 DEF Compilers
      <4>2. \A u \in Compilers : key[u] # key[t]
        BY <3>0 DEF CallOK
      <4>3. OneCompilePerKey'
        BY <3>2, <4>1, <4>2 DEF CallOK, OneCompilePerKey
      <4> QED BY <2>0, <3>0, <3>2, <4>1, <4>3 DEF CallOK, Places
    <3> QED BY <2>2, <3>1, <3>2, ClaimParts, Zenon
  <2>3. CASE Acquire(t) \/ Enqueue(t) \/ LeaveQueue(t)
    BY <2>3, MoveCall DEF Acquire, Enqueue, LeaveQueue, Places, Compilers
  <2>4. CASE QueueFull(t)
    <3>1. t \in Compilers
      BY <2>4 DEF QueueFull, Compilers
    <3> QED BY <2>4, <3>1, EndCall, Zenon DEF QueueFull, Return
  <2>5. CASE CompileSucceeds(t)
    BY <2>5, MoveCall, Zenon DEF CompileSucceeds, Places, Compilers
  <2>6. CASE CompileFails(t)
    <3>1. t \in Compilers
      BY <2>6 DEF CompileFails, Compilers
    <3> QED BY <2>6, <3>1, EndCall, Zenon DEF CompileFails
  <2>7. CASE MarkFailed(t)
    BY <2>7, MoveCall, Zenon DEF MarkFailed, Places, Compilers
  <2>8. CASE ClearTargets(t)
    <3>1. Compilers' = Compilers
      BY <2>0, <2>8 DEF ClearTargets, Return, Compilers
    <3>2. \A u \in Compilers : key'[u] = key[u]
      BY <2>0, <2>8 DEF ClearTargets, Return, Compilers
    <3> QED BY <2>0, <2>8, <3>1, <3>2
            DEF ClearTargets, Return, CallOK, OneCompilePerKey, Places
  <2>9. CASE Publish(t)
    <3>1. t \in Compilers
      BY <2>9, Zenon DEF Publish, Compilers
    <3>2. Return(t, {gen[t]}) /\ compiling' = compiling \ {key[t]}
      BY <2>9, PublishParts, Zenon
    <3> QED BY <3>1, <3>2, EndCall, Zenon DEF Return
  <2> QED BY <1>1, <2>1, <2>2, <2>3, <2>4, <2>5, <2>6, <2>7, <2>8, <2>9, Zenon DEF CallStep
<1>2. ASSUME NEW t \in Threads, CompilePanics(t) PROVE CallOK'
  BY <1>2, MoveCall, Zenon DEF CompilePanics, Places, Compilers
<1>3. ASSUME NEW t \in Threads, NEW k \in Keys, Call(t, k) PROVE CallOK'
  <2>1. Compilers' = Compilers /\ t \notin Compilers
    BY <1>3 DEF Call, CallOK, Compilers
  <2>2. \A u \in Compilers : key'[u] = key[u]
    BY <1>3, <2>1, Zenon DEF Call, CallOK, Compilers
  <2> QED BY <1>3, <2>1, <2>2 DEF Call, CallOK, OneCompilePerKey, Places
<1>4. ASSUME UNCHANGED <<pc, key, compiling>> PROVE CallOK'
  BY <1>4 DEF CallOK, Compilers, OneCompilePerKey
<1> QED
  BY <1>1, <1>2, <1>3, <1>4, Zenon DEF Next, Declare, TakePublished, DropHandle, vars
-----------------------------------------------------------------------------
\* A call stores states only into a cell that is still in the map.
LEMMA MarkLink ==
  ASSUME ManagerInv, NEW t \in Threads, NEW state \in CellStates \ {"none"}, Mark(t, state)
  PROVE  LinkOK(cell', pub) /\ \A f \in Functions : cell'[f].state = "none" <=> cell[f].state = "none"
<1>1. CASE ~own[t]
  BY <1>1 DEF Mark, ManagerInv
<1>2. CASE own[t]
  <2> DEFINE f == Root[key[t]]
  <2>1. f \in Functions /\ cell[f].state # "none"
    BY <1>2, KeysAssumption DEF ManagerInv, OwnOK, CallOK
  <2>2. cell' = [cell EXCEPT ![f].state = state]
    BY <1>2, Zenon DEF Mark
  <2>3. cell \in [Functions -> [state : CellStates, target : [Tiers -> Nat]]]
    BY DEF ManagerInv, LinkOK
  <2>4. /\ cell' \in [Functions -> [state : CellStates, target : [Tiers -> Nat]]]
        /\ \A h \in Functions : h # f => cell'[h] = cell[h]
        /\ cell'[f].state = state /\ cell'[f].target = cell[f].target
    BY <2>1, <2>2, <2>3, Zenon
  <2>5. \A h \in Functions : cell'[h].target = cell[h].target
    BY <2>4
  <2>6. \A h \in Functions : cell'[h].state = "none" => cell'[h] = cell[h]
    BY <2>4
  <2>7. \A h \in Functions : cell'[h].state = "none" <=> cell[h].state = "none"
    BY <2>1, <2>4
  <2> QED BY <2>4, <2>5, <2>6, <2>7 DEF ManagerInv, LinkOK
<1> QED BY <1>1, <1>2, Zenon DEF ManagerInv, OwnOK

\* A claim creates the cell of its function if there is none.
LEMMA QueueLink ==
  ASSUME ManagerInv, NEW f \in Functions, NEW state \in CellStates \ {"none"}
  PROVE  LinkOK([cell EXCEPT ![f] = [Cell(f) EXCEPT !.state = state]], pub)
<1> DEFINE c == [cell EXCEPT ![f] = [Cell(f) EXCEPT !.state = state]]
<1>1. cell \in [Functions -> [state : CellStates, target : [Tiers -> Nat]]]
  BY DEF ManagerInv, LinkOK
<1>2. /\ Cell(f) \in [state : CellStates, target : [Tiers -> Nat]]
      /\ Cell(f).target = cell[f].target
  BY <1>1, Zenon DEF Cell, NoCell, CellStates
<1>3. /\ c \in [Functions -> [state : CellStates, target : [Tiers -> Nat]]]
      /\ \A h \in Functions : h # f => c[h] = cell[h]
      /\ c[f].state = state /\ c[f].target = cell[f].target
  BY <1>1, <1>2
<1>4. \A h \in Functions : c[h].target = cell[h].target
  BY <1>3
<1> QED BY <1>3, <1>4 DEF ManagerInv, LinkOK

\* The new address of an entry is that of its new publication.
LEMMA PublishLink ==
  ASSUME ManagerInv, NEW k \in Keys, NEW g \in Nat
  PROVE  /\ LinkOK(PublishCells(k, g), PublishPubs(k, g))
         /\ \A f \in Functions :
              PublishCells(k, g)[f].state = "none" => cell[f].state = "none"
<1> DEFINE c == PublishCells(k, g)
           p == PublishPubs(k, g)
<1>0. Tier[k] \in Tiers
  BY KeysAssumption
<1>1. /\ cell \in [Functions -> [state : CellStates, target : [Tiers -> Nat]]]
      /\ pub \in [Functions -> [Tiers -> Nat]]
  BY DEF ManagerInv, LinkOK
<1>2. ASSUME NEW f \in Functions
      PROVE  /\ c[f] \in [state : CellStates, target : [Tiers -> Nat]]
             /\ p[f] \in [Tiers -> Nat]
             /\ \A r \in Tiers : c[f].target[r] # 0 => p[f][r] = c[f].target[r]
             /\ \A r \in Tiers : p[f][r] # 0 => c[f].state # "none"
             /\ c[f].state = "none" => c[f] = NoCell /\ cell[f].state = "none"
  <2>0. /\ \A r \in Tiers : cell[f].target[r] # 0 => pub[f][r] = cell[f].target[r]
        /\ \A r \in Tiers : pub[f][r] # 0 => cell[f].state # "none"
        /\ cell[f].state = "none" => cell[f] = NoCell
    BY DEF ManagerInv, LinkOK
  <2>1. CASE f \notin Entries[k]
    <3>1. c[f] = cell[f] /\ p[f] = pub[f]
      BY <2>1, Zenon DEF PublishCells, PublishPubs
    <3> QED BY <1>1, <2>0, <3>1, Zenon
  <2>2. CASE f \in Entries[k]
    <3>1. /\ c[f] = [state |-> "published", target |-> [cell[f].target EXCEPT ![Tier[k]] = g]]
          /\ p[f] = [pub[f] EXCEPT ![Tier[k]] = g]
      BY <2>2, Zenon DEF PublishCells, PublishPubs
    <3>2. cell[f].target \in [Tiers -> Nat] /\ pub[f] \in [Tiers -> Nat]
      BY <1>1
    <3>3. \A r \in Tiers : c[f].target[r] # 0 => p[f][r] = c[f].target[r]
      BY <1>0, <2>0, <3>1, <3>2
    <3>4. c[f].state = "published" /\ c[f] \in [state : CellStates, target : [Tiers -> Nat]]
      BY <1>0, <3>1, <3>2 DEF CellStates
    <3>5. p[f] \in [Tiers -> Nat]
      BY <1>0, <3>1, <3>2, Zenon
    <3> QED BY <3>3, <3>4, <3>5, Zenon
  <2> QED BY <2>1, <2>2, Zenon
<1>3. c \in [Functions -> [state : CellStates, target : [Tiers -> Nat]]]
  <2>1. c = [f \in Functions |-> c[f]]
    BY DEF PublishCells
  <2> QED BY <1>2, <2>1
<1>4. p \in [Functions -> [Tiers -> Nat]]
  <2>1. p = [f \in Functions |-> p[f]]
    BY DEF PublishPubs
  <2> QED BY <1>2, <2>1
<1> QED BY <1>2, <1>3, <1>4, Zenon DEF LinkOK

\* Cells and publications go together through every step, and a call that
\* loses its cell to an eviction stops storing into it.
LEMMA LinkStep == ManagerInv /\ [Next]_vars => LinkOK(cell, pub)' /\ OwnOK(own, cell)'
<1> SUFFICES ASSUME ManagerInv, [Next]_vars PROVE LinkOK(cell, pub)' /\ OwnOK(own, cell)'
  OBVIOUS
<1>0. /\ pc \in [Threads -> Places]
      /\ key \in [Threads -> Keys \cup {NoKey}]
      /\ own \in [Threads -> BOOLEAN]
      /\ LinkOK(cell, pub)
      /\ OwnOK(own, cell)
      /\ \A u \in Threads : own[u] =>
            /\ pc[u] \in {"admit", "queued", "compiling", "publish", "mark", "clear"}
            /\ key[u] \in Keys /\ Root[key[u]] \in Functions
            /\ cell[Root[key[u]]].state # "none"
  BY KeysAssumption DEF ManagerInv, OwnOK, CallOK
<1>m. ASSUME NEW t \in Threads, NEW state \in CellStates \ {"none"}, Mark(t, state),
             UNCHANGED pub, NEW place \in Places, pc' = [pc EXCEPT ![t] = place],
             \/ /\ place \in {"compiling", "clear"} /\ UNCHANGED <<key, own>>
             \/ Disown(t) /\ key' = [key EXCEPT ![t] = NoKey]
      PROVE  LinkOK(cell, pub)' /\ OwnOK(own, cell)'
  <2>1. LinkOK(cell', pub) /\ \A f \in Functions : cell'[f].state = "none" <=> cell[f].state = "none"
    BY <1>m, MarkLink
  <2>2. LinkOK(cell, pub)'
    BY <1>m, <2>1 DEF LinkOK
  <2>3. \A u \in Threads : u # t => pc'[u] = pc[u] /\ key'[u] = key[u] /\ own'[u] = own[u]
    BY <1>0, <1>m DEF Disown
  <2>4. own'[t] => own[t] /\ pc'[t] \in {"compiling", "clear"} /\ key'[t] = key[t]
    BY <1>0, <1>m DEF Disown
  <2>5. own' \in [Threads -> BOOLEAN]
    BY <1>0, <1>m, Zenon DEF Disown
  <2> QED BY <1>0, <2>1, <2>2, <2>3, <2>4, <2>5 DEF OwnOK
<1>s. ASSUME NEW t \in Threads, NEW place, UNCHANGED <<pub, cell, own>>,
             pc' = [pc EXCEPT ![t] = place],
             \/ ~own[t]
             \/ UNCHANGED key /\ place \in {"queued", "publish", "mark"},
             \A u \in Threads : u # t => key'[u] = key[u]
      PROVE  LinkOK(cell, pub)' /\ OwnOK(own, cell)'
  <2>1. \A u \in Threads : own[u] =>
          /\ key'[u] = key[u]
          /\ pc'[u] \in {"admit", "queued", "compiling", "publish", "mark", "clear"}
    BY <1>0, <1>s
  <2> QED BY <1>0, <1>s, <2>1 DEF LinkOK, OwnOK
<1>1. ASSUME NEW t \in Threads, CallStep(t) PROVE LinkOK(cell, pub)' /\ OwnOK(own, cell)'
  <2>1. CASE Hit(t)
    BY <1>0, <1>s, <2>1, Zenon DEF Hit, Return, code
  <2>2. CASE FailedBefore(t)
    BY <1>0, <1>s, <2>2, Zenon DEF FailedBefore, Return, code
  <2>3. CASE Claim(t)
    <3> DEFINE f == Root[key[t]]
               queued == [cell EXCEPT ![f] = [Cell(f) EXCEPT !.state = "queued"]]
    <3>0. /\ pc[t] = "lookup" /\ key[t] \in Keys /\ f \in Functions
          /\ ~own[t]
      BY <1>0, <2>3, KeysAssumption, Zenon DEF Claim, ManagerInv, CallOK
    <3>1. PICK E :
            LET left == EvictCells(queued, pub, E)
            IN /\ pub' = WithoutPubs(pub, E)
               /\ \/ /\ cell' = IF left[f] = NoCell THEN left
                                ELSE [left EXCEPT ![f].state = "declared"]
                     /\ own' = StillOwn(left)
                     /\ Return(t, {})
                  \/ /\ cell' = left
                     /\ own' = [StillOwn(left) EXCEPT ![t] = left[f] # NoCell]
                     /\ pc' = [pc EXCEPT ![t] = "admit"]
                     /\ UNCHANGED key
      BY <2>3, ClaimParts, Zenon
    <3> DEFINE left == EvictCells(queued, pub, E)
    <3>2. LinkOK(left, pub')
      <4>1. LinkOK(queued, pub)
        BY <3>0, QueueLink, Zenon DEF CellStates
      <4> QED BY <3>1, <4>1, EvictLink, Zenon
    <3> HIDE DEF left
    <3>3. /\ left \in [Functions -> [state : CellStates, target : [Tiers -> Nat]]]
          /\ \A h \in Functions : left[h] # NoCell => left[h].state # "none"
      BY <3>2 DEF LinkOK
    <3>4. CASE /\ cell' = IF left[f] = NoCell THEN left
                          ELSE [left EXCEPT ![f].state = "declared"]
               /\ own' = StillOwn(left)
               /\ Return(t, {})
      <4>1. /\ cell' \in [Functions -> [state : CellStates, target : [Tiers -> Nat]]]
            /\ \A h \in Functions :
                 /\ cell'[h].target = left[h].target
                 /\ cell'[h].state = "none" <=> left[h].state = "none"
                 /\ cell'[h].state = "none" => cell'[h] = left[h]
        <5>1. CASE left[f] = NoCell
          BY <3>3, <3>4, <5>1
        <5>2. CASE left[f] # NoCell
          <6>1. cell' = [left EXCEPT ![f].state = "declared"]
            BY <3>4, <5>2, Zenon
          <6>2. left[f].state # "none"
            BY <3>0, <3>3, <5>2
          <6> HIDE DEF f
          <6>3. /\ cell' \in [Functions -> [state : CellStates, target : [Tiers -> Nat]]]
                /\ \A h \in Functions : h # f => cell'[h] = left[h]
                /\ cell'[f].state = "declared" /\ cell'[f].target = left[f].target
            BY <3>0, <3>3, <6>1 DEF CellStates
          <6> QED BY <6>2, <6>3
        <5> QED BY <5>1, <5>2
      <4>2. LinkOK(cell, pub)'
        <5>1. \A h \in Functions, r \in Tiers :
                /\ cell'[h].target[r] # 0 => pub'[h][r] = cell'[h].target[r]
                /\ pub'[h][r] # 0 => cell'[h].state # "none"
          BY <3>2, <4>1 DEF LinkOK
        <5>2. \A h \in Functions : cell'[h].state = "none" => cell'[h] = NoCell
          BY <3>2, <4>1 DEF LinkOK
        <5> QED BY <3>2, <4>1, <5>1, <5>2, Zenon DEF LinkOK
      <4>3. ~own'[t] /\ own' \in [Threads -> BOOLEAN]
        BY <1>0, <3>0, <3>4 DEF StillOwn
      <4>4. \A u \in Threads : own'[u] =>
              /\ own[u] /\ u # t
              /\ left[Root[key[u]]] # NoCell
        BY <3>4, <4>3, Zenon DEF StillOwn
      <4>5. \A u \in Threads : u # t => pc'[u] = pc[u] /\ key'[u] = key[u]
        BY <1>0, <3>4 DEF Return
      <4>6. \A u \in Threads : own'[u] => cell'[Root[key'[u]]].state # "none"
        BY <1>0, <3>3, <4>1, <4>4, <4>5
      <4> QED BY <1>0, <4>2, <4>3, <4>4, <4>5, <4>6, Zenon DEF OwnOK
    <3>5. CASE /\ cell' = left
               /\ own' = [StillOwn(left) EXCEPT ![t] = left[f] # NoCell]
               /\ pc' = [pc EXCEPT ![t] = "admit"]
               /\ UNCHANGED key
      <4>1. LinkOK(cell, pub)'
        BY <3>2, <3>5, Zenon DEF LinkOK
      <4>2. /\ own' \in [Threads -> BOOLEAN]
            /\ own'[t] = (left[f] # NoCell)
            /\ \A u \in Threads : u # t /\ own'[u] => own[u] /\ left[Root[key[u]]] # NoCell
        BY <1>0, <3>5, Zenon DEF StillOwn
      <4>3. \A u \in Threads : u # t => pc'[u] = pc[u]
        BY <1>0, <3>5
      <4>4. pc'[t] = "admit"
        BY <1>0, <3>5
      <4> QED BY <1>0, <3>0, <3>3, <3>5, <4>1, <4>2, <4>3, <4>4 DEF OwnOK
    <3> QED BY <3>1, <3>4, <3>5, Zenon DEF left
  <2>4. CASE Acquire(t)
    BY <1>m, <2>4, Zenon DEF Acquire, CellStates, Places, code
  <2>5. CASE Enqueue(t)
    BY <1>s, <2>5, Zenon DEF Enqueue, code
  <2>6. CASE QueueFull(t)
    BY <1>m, <2>6, Zenon DEF QueueFull, Return, CellStates, Places, code
  <2>7. CASE LeaveQueue(t)
    BY <1>m, <2>7, Zenon DEF LeaveQueue, CellStates, Places, code
  <2>8. CASE CompileSucceeds(t)
    BY <1>s, <2>8, Zenon DEF CompileSucceeds
  <2>9. CASE CompileFails(t)
    BY <1>s, <2>9, Zenon DEF CompileFails, code
  <2>10. CASE MarkFailed(t)
    BY <1>m, <2>10, Zenon DEF MarkFailed, CellStates, Places, code
  <2>11. CASE ClearTargets(t)
    <3>0. /\ cell \in [Functions -> [state : CellStates, target : [Tiers -> Nat]]]
          /\ pub' = pub
          /\ own' = [own EXCEPT ![t] = FALSE]
          /\ key' = [key EXCEPT ![t] = NoKey]
          /\ pc' = [pc EXCEPT ![t] = "idle"]
      BY <1>0, <2>11, Zenon DEF ClearTargets, Return, Disown, LinkOK, code
    <3>1. /\ cell' \in [Functions -> [state : CellStates, target : [Tiers -> Nat]]]
          /\ \A h \in Functions : cell'[h].state = cell[h].state
          /\ \A h \in Functions :
               \/ cell'[h] = cell[h]
               \/ cell[h].state # "none" /\ cell'[h].target = [r \in Tiers |-> 0]
      <4>1. CASE own[t]
        <5> DEFINE f == Root[key[t]]
        <5>1. cell' = [cell EXCEPT ![f].target = [r \in Tiers |-> 0]]
          BY <2>11, <4>1, Zenon DEF ClearTargets
        <5>2. f \in Functions /\ cell[f].state # "none"
          BY <1>0, <4>1, Zenon
        <5> HIDE DEF f
        <5>3. /\ cell' \in [Functions -> [state : CellStates, target : [Tiers -> Nat]]]
              /\ \A h \in Functions : h # f => cell'[h] = cell[h]
              /\ cell'[f].state = cell[f].state /\ cell'[f].target = [r \in Tiers |-> 0]
          BY <3>0, <5>1, <5>2, Zenon
        <5> QED BY <5>2, <5>3
      <4>2. CASE ~own[t]
        <5>1. cell' = cell
          BY <2>11, <4>2 DEF ClearTargets
        <5> QED BY <3>0, <5>1
      <4> QED BY <4>1, <4>2
    <3>2. LinkOK(cell, pub)'
      <4>1. \A h \in Functions, r \in Tiers :
              cell'[h].target[r] # 0 => cell'[h].target[r] = cell[h].target[r]
        BY <3>1
      <4>2. \A h \in Functions : cell'[h].state = "none" => cell'[h] = cell[h]
        BY <3>1
      <4>3. \A h \in Functions, r \in Tiers :
              /\ cell'[h].target[r] # 0 => pub'[h][r] = cell'[h].target[r]
              /\ pub'[h][r] # 0 => cell'[h].state # "none"
        BY <1>0, <3>0, <3>1, <4>1 DEF LinkOK
      <4>4. \A h \in Functions : cell'[h].state = "none" => cell'[h] = NoCell
        BY <1>0, <3>1, <4>2 DEF LinkOK
      <4>5. pub' \in [Functions -> [Tiers -> Nat]]
        BY <1>0, <3>0 DEF LinkOK
      <4> QED BY <3>1, <4>3, <4>4, <4>5, Zenon DEF LinkOK
    <3>3. own' \in [Threads -> BOOLEAN] /\ ~own'[t]
      BY <1>0, <3>0
    <3>4. \A u \in Threads : u # t => own'[u] = own[u] /\ key'[u] = key[u] /\ pc'[u] = pc[u]
      BY <1>0, <3>0
    <3> QED BY <1>0, <3>1, <3>2, <3>3, <3>4 DEF OwnOK
  <2>12. CASE Publish(t)
    <3> DEFINE c == PublishCells(key[t], gen[t])
               p == PublishPubs(key[t], gen[t])
    <3>0. key[t] \in Keys /\ gen[t] \in Nat
      BY <2>12 DEF Publish, ManagerInv, CallOK, CodeOK
    <3>1. LinkOK(c, p) /\ \A f \in Functions : c[f].state = "none" => cell[f].state = "none"
      BY <3>0, PublishLink
    <3>2. Return(t, {gen[t]})
      BY <2>12, PublishParts, Zenon
    <3>3. \A u \in Threads : u # t => pc'[u] = pc[u] /\ key'[u] = key[u]
      BY <1>0, <3>2, Zenon DEF Return
    <3>4. CASE \E E : /\ pub' = WithoutPubs(p, E)
                      /\ cell' = EvictCells(c, p, E)
                      /\ own' = [StillOwn(cell') EXCEPT ![t] = FALSE]
      <4>1. LinkOK(cell', pub')
        BY <3>1, <3>4, EvictLink, Zenon
      <4>2. /\ own' \in [Threads -> BOOLEAN]
            /\ ~own'[t]
            /\ \A u \in Threads : own'[u] =>
                 /\ own[u] /\ u # t
                 /\ cell'[Root[key[u]]] # NoCell
        BY <1>0, <3>4, Zenon DEF StillOwn
      <4>3. \A h \in Functions : cell'[h] # NoCell => cell'[h].state # "none"
        BY <4>1 DEF LinkOK
      <4>4. \A u \in Threads : own'[u] =>
              /\ pc'[u] \in {"admit", "queued", "compiling", "publish", "mark", "clear"}
              /\ cell'[Root[key'[u]]].state # "none"
        BY <1>0, <3>3, <4>2, <4>3
      <4>5. LinkOK(cell, pub)'
        BY <4>1, Zenon DEF LinkOK
      <4> QED BY <4>2, <4>4, <4>5, Zenon DEF OwnOK
    <3>5. CASE pub' = p /\ cell' = c /\ own' = [own EXCEPT ![t] = FALSE]
      <4>1. own' \in [Threads -> BOOLEAN] /\ ~own'[t]
        BY <1>0, <3>5
      <4>2. \A u \in Threads : u # t => own'[u] = own[u]
        BY <1>0, <3>5
      <4>3. LinkOK(cell, pub)'
        BY <3>1, <3>5, Zenon DEF LinkOK
      <4>4. \A f \in Functions : cell'[f].state = "none" => cell[f].state = "none"
        BY <3>1, <3>5
      <4> QED BY <1>0, <3>3, <4>1, <4>2, <4>3, <4>4 DEF OwnOK
    <3> QED BY <2>12, <3>4, <3>5, PublishParts, Zenon
  <2> QED BY <1>1, <2>1, <2>2, <2>3, <2>4, <2>5, <2>6, <2>7, <2>8, <2>9, <2>10, <2>11, <2>12, Zenon
          DEF CallStep
<1>2. ASSUME NEW t \in Threads, CompilePanics(t) PROVE LinkOK(cell, pub)' /\ OwnOK(own, cell)'
  <2>1. own' \in [Threads -> BOOLEAN] /\ ~own'[t]
    BY <1>0, <1>2, Zenon DEF CompilePanics, Disown
  <2>2. \A u \in Threads : u # t => own'[u] = own[u] /\ pc'[u] = pc[u]
    BY <1>0, <1>2 DEF CompilePanics, Disown
  <2> QED BY <1>0, <1>2, <2>1, <2>2, Zenon DEF CompilePanics, OwnOK, LinkOK
<1>3. ASSUME NEW t \in Threads, NEW k \in Keys, Call(t, k)
      PROVE  LinkOK(cell, pub)' /\ OwnOK(own, cell)'
  <2>1. ~own[t]
    BY <1>0, <1>3 DEF Call
  <2> QED BY <1>0, <1>3, <1>s, <2>1, Zenon DEF Call, code
<1>4. ASSUME NEW f \in Functions, Declare(f) PROVE LinkOK(cell, pub)' /\ OwnOK(own, cell)'
  <2>1. Cell(f) = [Cell(f) EXCEPT !.state = "declared"]
    BY <1>4, Zenon DEF Declare, Cell, NoCell
  <2>2. LinkOK(cell', pub)
    BY <1>4, <2>1, QueueLink, Zenon DEF Declare, CellStates
  <2>3. cell \in [Functions -> [state : CellStates, target : [Tiers -> Nat]]]
    BY <1>0 DEF LinkOK
  <2>4. \A h \in Functions : cell'[h].state = "none" => cell[h].state = "none"
    BY <1>4, <2>3 DEF Declare, Cell, NoCell
  <2>5. UNCHANGED <<pc, key, own, pub>>
    BY <1>4 DEF Declare, code
  <2> QED BY <1>0, <2>2, <2>4, <2>5 DEF OwnOK, LinkOK
<1>5. ASSUME UNCHANGED <<pc, key, own, cell, pub>> PROVE LinkOK(cell, pub)' /\ OwnOK(own, cell)'
  BY <1>0, <1>5 DEF LinkOK, OwnOK
<1> QED
  BY <1>1, <1>2, <1>3, <1>4, <1>5, Zenon DEF Next, TakePublished, DropHandle, vars, code

\* The manager keeps its maps consistent with each other.
THEOREM ManagerInvariant == Spec => []ManagerInv
<1>1. ManagerInv /\ [Next]_vars => ManagerInv'
  BY CodeStep, ClaimStep, LinkStep, Zenon DEF ManagerInv
<1> QED BY <1>1, ManagerInit, PTL DEF Spec

\* The structures have their types.
THEOREM ManagerTypes == Spec => []TypeOK
<1>1. ManagerInv => TypeOK
  BY Zenon DEF ManagerInv, CodeOK, CallOK, LinkOK, OwnOK, TypeOK
<1> QED BY <1>1, ManagerInvariant, PTL

\* No cell ever holds the address of freed code: retire_tier and retire clear
\* it in the critical section that evicts the generation.
THEOREM AddressesAreLive == Spec => []TargetsAreLive
<1>1. ManagerInv => TargetsAreLive
  <2> SUFFICES ASSUME ManagerInv, NEW f \in Functions, NEW r \in Tiers, cell[f].target[r] # 0
               PROVE  cell[f].target[r] \in Owned(generations, cache, pub)
    BY DEF TargetsAreLive
  <2>1. pub[f][r] = cell[f].target[r]
    BY DEF ManagerInv, LinkOK
  <2> QED BY <2>1 DEF Owned
<1> QED BY <1>1, ManagerInvariant, PTL

\* Eviction of one tier never hides the other one.
THEOREM PublishedCodeIsFound == Spec => []PublicationsHaveCells
<1>1. ManagerInv => PublicationsHaveCells
  BY DEF ManagerInv, LinkOK, PublicationsHaveCells, NoCell
<1> QED BY <1>1, ManagerInvariant, PTL

\* compile_once_with_scratch_admission never compiles one key twice at a time.
THEOREM KeysAreCompiledOnce == Spec => []OneCompilePerKey
<1>1. ManagerInv => OneCompilePerKey
  BY DEF ManagerInv, CallOK
<1> QED BY <1>1, ManagerInvariant, PTL

\* A step that leaves the claimants and their keys alone keeps the claims.
LEMMA ClaimsKept ==
  ASSUME ClaimsHaveOwner, Claimants' = Claimants, compiling' = compiling,
         \A u \in Claimants : key'[u] = key[u]
  PROVE  ClaimsHaveOwner'
<1>1. {key'[u] : u \in Claimants'} = {key[u] : u \in Claimants}
  OBVIOUS
<1>2. compiling' = {key'[u] : u \in Claimants'}
  BY <1>1, Zenon DEF ClaimsHaveOwner
<1>3. \A t, u \in Claimants' : key'[t] = key'[u] => t = u
  BY DEF ClaimsHaveOwner
<1> QED
  BY <1>2, <1>3, Zenon DEF ClaimsHaveOwner

\* A new claim is for a key nobody claims.
LEMMA ClaimAdded ==
  ASSUME ClaimsHaveOwner, NEW t, key[t] \notin compiling,
         Claimants' = Claimants \cup {t}, compiling' = compiling \cup {key[t]}, key' = key
  PROVE  ClaimsHaveOwner'
<1>1. \A u \in Claimants : key[u] # key[t]
  BY DEF ClaimsHaveOwner
<1> QED BY <1>1 DEF ClaimsHaveOwner

\* A claim ends with the key of the call, and nobody else had it.
LEMMA ClaimEnded ==
  ASSUME ClaimsHaveOwner, NEW t \in Claimants,
         Claimants' = Claimants \ {t}, compiling' = compiling \ {key[t]},
         \A u \in Claimants : u # t => key'[u] = key[u]
  PROVE  ClaimsHaveOwner'
<1>1. \A u \in Claimants : u # t => key[u] # key[t]
  BY DEF ClaimsHaveOwner
<1>2. {key'[u] : u \in Claimants'} = {key[u] : u \in Claimants} \ {key[t]}
  BY <1>1
<1> QED BY <1>2 DEF ClaimsHaveOwner

\* compiling and the claimants change together.
LEMMA OwnerStep ==
  ASSUME CallOK, ClaimsHaveOwner, [Next]_vars
  PROVE  ClaimsHaveOwner'
<1>0. pc \in [Threads -> Places] /\ key \in [Threads -> Keys \cup {NoKey}]
  BY Zenon DEF CallOK
<1>c. \A u : u \in Claimants <=>
        u \in Threads /\ pc[u] \in {"admit", "queued", "compiling", "publish", "dead"}
  BY DEF Claimants, Compilers
<1>d. \A u : u \in Claimants' <=>
        u \in Threads /\ pc'[u] \in {"admit", "queued", "compiling", "publish", "dead"}
  BY DEF Claimants, Compilers
\* A call that only moves, before its claim, under it or after it.
<1>m. ASSUME NEW t \in Threads, NEW place, pc' = [pc EXCEPT ![t] = place],
             pc[t] \in {"admit", "queued", "compiling"},
             place \in {"queued", "compiling", "publish", "dead"},
             key' = key, compiling' = compiling
      PROVE  ClaimsHaveOwner'
  <2>1. Claimants' = Claimants
    BY <1>0, <1>c, <1>d, <1>m
  <2> QED BY <1>m, <2>1, ClaimsKept
<1>o. ASSUME NEW t \in Threads, NEW place, pc' = [pc EXCEPT ![t] = place],
             pc[t] \in {"idle", "lookup", "mark", "clear"}, place \in {"idle", "lookup", "clear"},
             \A u \in Threads : u # t => key'[u] = key[u], compiling' = compiling
      PROVE  ClaimsHaveOwner'
  <2>1. Claimants' = Claimants
    BY <1>0, <1>c, <1>d, <1>o
  <2>2. t \notin Claimants
    BY <1>c, <1>o
  <2> QED BY <1>c, <1>o, <2>1, <2>2, ClaimsKept, Zenon
<1>e. ASSUME NEW t \in Threads, NEW place, pc' = [pc EXCEPT ![t] = place],
             pc[t] \in {"admit", "compiling", "publish"}, place \in {"idle", "mark"},
             \A u \in Threads : u # t => key'[u] = key[u], compiling' = compiling \ {key[t]}
      PROVE  ClaimsHaveOwner'
  <2>1. Claimants' = Claimants \ {t} /\ t \in Claimants
    BY <1>0, <1>c, <1>d, <1>e
  <2> QED BY <1>c, <1>e, <2>1, ClaimEnded, Zenon
<1>r. ASSUME NEW t \in Threads, NEW H, Return(t, H)
      PROVE  /\ pc' = [pc EXCEPT ![t] = "idle"]
             /\ \A u \in Threads : u # t => key'[u] = key[u]
  BY <1>0, <1>r, Zenon DEF Return
<1>1. ASSUME NEW t \in Threads, CallStep(t) PROVE ClaimsHaveOwner'
  <2>1. CASE Hit(t) \/ FailedBefore(t)
    BY <2>1, <1>o, <1>r DEF Hit, FailedBefore
  <2>2. CASE Claim(t)
    <3>0. pc[t] = "lookup" /\ key[t] \notin compiling
      BY <2>2, Zenon DEF Claim
    <3>1. CASE Return(t, {}) /\ UNCHANGED compiling
      BY <3>0, <3>1, <1>o, <1>r
    <3>2. CASE /\ compiling' = compiling \cup {key[t]}
               /\ pc' = [pc EXCEPT ![t] = "admit"]
               /\ UNCHANGED <<key, held, calls>>
      <4>1. Claimants' = Claimants \cup {t}
        BY <1>0, <1>c, <1>d, <3>2
      <4> QED BY <3>0, <3>2, <4>1, ClaimAdded
    <3> QED BY <2>2, <3>1, <3>2, ClaimParts, Zenon
  <2>3. CASE Acquire(t) \/ Enqueue(t) \/ LeaveQueue(t) \/ CompileSucceeds(t)
    BY <2>3, <1>m DEF Acquire, Enqueue, LeaveQueue, CompileSucceeds
  <2>4. CASE QueueFull(t)
    BY <2>4, <1>e, <1>r DEF QueueFull
  <2>5. CASE CompileFails(t)
    BY <2>5, <1>e, Zenon DEF CompileFails
  <2>6. CASE MarkFailed(t)
    BY <2>6, <1>o, Zenon DEF MarkFailed
  <2>7. CASE ClearTargets(t)
    BY <2>7, <1>o, <1>r DEF ClearTargets
  <2>8. CASE Publish(t)
    <3>1. pc[t] = "publish" /\ Return(t, {gen[t]}) /\ compiling' = compiling \ {key[t]}
      BY <2>8, PublishParts, Zenon DEF Publish
    <3> QED BY <3>1, <1>e, <1>r
  <2> QED BY <1>1, <2>1, <2>2, <2>3, <2>4, <2>5, <2>6, <2>7, <2>8, Zenon DEF CallStep
<1>2. ASSUME NEW t \in Threads, CompilePanics(t) PROVE ClaimsHaveOwner'
  BY <1>2, <1>m, Zenon DEF CompilePanics
<1>3. ASSUME NEW t \in Threads, NEW k \in Keys, Call(t, k) PROVE ClaimsHaveOwner'
  BY <1>0, <1>3, <1>o, Zenon DEF Call
<1>4. ASSUME UNCHANGED <<pc, key, compiling>> PROVE ClaimsHaveOwner'
  BY <1>4, ClaimsKept, Zenon DEF Claimants, Compilers
<1> QED
  BY <1>1, <1>2, <1>3, <1>4, Zenon DEF Next, Declare, TakePublished, DropHandle, vars

\* No early return of compile_once_with_scratch_admission leaves its key in
\* compiling, and none takes out the key of another call: who waits for a key
\* waits for a call that is compiling it, or for one that panicked.
THEOREM ClaimsAreReleased == Spec => []ClaimsHaveOwner
<1>1. Init => ClaimsHaveOwner
  BY DEF Init, ClaimsHaveOwner, Claimants, Compilers
<1>2. ManagerInv /\ ClaimsHaveOwner /\ [Next]_vars => ClaimsHaveOwner'
  BY OwnerStep, Zenon DEF ManagerInv
<1> QED BY <1>1, <1>2, ManagerInvariant, PTL DEF Spec
-----------------------------------------------------------------------------
(***************************************************************************)
(* Sums over finite sets.  Induction over the size of a set is written     *)
(* with a set of numbers, whose complement would have a least member.      *)
(***************************************************************************)
\* A set of numbers that has a member has a least one.
LEMMA LeastNumber ==
  ASSUME NEW T, T \subseteq Nat, T # {}
  PROVE  \E x \in T : \A y \in T : ~(y < x)
<1> DEFINE R == OpToRel(<, Nat)
<1>1. IsWellFoundedOn(R, Nat)
  BY NatLessThanWellFounded, Zenon
<1>2. \A x, y \in Nat : y < x => <<y, x>> \in R
  BY DEF OpToRel
<1> HIDE DEF R
<1>3. \E x \in T : \A y \in T : ~(<<y, x>> \in R)
  BY <1>1, WFMin, Zenon
<1> QED
  BY <1>2, <1>3, Zenon

\* Induction over the numbers, for a set in place of a predicate.
LEMMA NumbersInduction ==
  ASSUME NEW N, 0 \in N, \A n \in Nat : n \in N => n + 1 \in N
  PROVE  Nat \subseteq N
<1> SUFFICES ASSUME Nat \ N # {} PROVE FALSE
  OBVIOUS
<1> DEFINE T == Nat \ N
<1>1. T \subseteq Nat /\ T # {}
  OBVIOUS
<1> HIDE DEF T
<1>2. PICK x \in T : \A y \in T : ~(y < x)
  BY <1>1, LeastNumber, Zenon
<1> USE DEF T
<1>3. x # 0
  BY <1>2
<1>4. x - 1 \in Nat /\ x - 1 \in N
  BY <1>2, <1>3
<1> QED
  BY <1>2, <1>4

\* What MapThenSumSet folds over: a function on the subsets of S.
Picked(s) == CHOOSE x \in s : TRUE
IsSum(f, w, S) ==
  f = [s \in SUBSET S |-> IF s = {} THEN 0 ELSE w[Picked(s)] + f[s \ {Picked(s)}]]

\* MapThenSumSet is the value at S of a function over the subsets of S.
LEMMA SumIs ==
  ASSUME NEW w, NEW S
  PROVE  SumOf(w, S) = (CHOOSE f : IsSum(f, w, S))[S]
BY Zenon DEF SumOf, MapThenSumSet, MapThenFoldSet, IsSum, Picked

\* A subset of a finite set and the subsets with one member less.
LEMMA SubsetParts ==
  ASSUME NEW S, IsFiniteSet(S), NEW s \in SUBSET S
  PROVE  /\ IsFiniteSet(s) /\ Cardinality(s) \in Nat /\ Cardinality(s) <= Cardinality(S)
         /\ Cardinality(s) = 0 <=> s = {}
         /\ \A x \in s : s \ {x} \in SUBSET S /\ Cardinality(s \ {x}) = Cardinality(s) - 1
         /\ s # {} => Picked(s) \in s
<1>1. IsFiniteSet(s) /\ Cardinality(s) <= Cardinality(S)
  BY FS_Subset
<1>2. Cardinality(s) \in Nat /\ (Cardinality(s) = 0 <=> s = {})
  BY <1>1, FS_CardinalityType, FS_EmptySet
<1>3. \A x \in s : Cardinality(s \ {x}) = Cardinality(s) - 1
  BY <1>1, FS_RemoveElement
<1>4. s # {} => Picked(s) \in s
  BY DEF Picked
<1> QED
  BY <1>1, <1>2, <1>3, <1>4

\* There is such a function.
LEMMA SumExists ==
  ASSUME NEW S, IsFiniteSet(S), NEW w, \A x \in S : w[x] \in Nat
  PROVE  \E f \in [SUBSET S -> Nat] : IsSum(f, w, S)
<1> DEFINE Next1(f, s) == IF s = {} THEN 0 ELSE w[Picked(s)] + f[s \ {Picked(s)}]
           Upto(f, n) == \A s \in SUBSET S : Cardinality(s) <= n => f[s] = Next1(f, s)
           N == {n \in Nat : \E f \in [SUBSET S -> Nat] : Upto(f, n)}
<1>0. ASSUME NEW f \in [SUBSET S -> Nat], NEW s \in SUBSET S PROVE Next1(f, s) \in Nat
  BY SubsetParts
<1>1. 0 \in N
  <2> DEFINE z == [s \in SUBSET S |-> 0]
  <2>1. Upto(z, 0)
    <3> SUFFICES ASSUME NEW s \in SUBSET S, Cardinality(s) <= 0 PROVE s = {}
      BY Zenon
    <3> QED
      BY SubsetParts
  <2>2. z \in [SUBSET S -> Nat]
    BY Zenon
  <2> QED
    BY <2>1, <2>2, Zenon
<1>2. ASSUME NEW n \in Nat, n \in N PROVE n + 1 \in N
  <2>1. PICK f \in [SUBSET S -> Nat] : Upto(f, n)
    BY <1>2, Zenon
  <2> DEFINE g == [s \in SUBSET S |-> Next1(f, s)]
  <2>2. g \in [SUBSET S -> Nat]
    BY <1>0, Zenon
  <2>3. ASSUME NEW s \in SUBSET S, Cardinality(s) <= n + 1 PROVE g[s] = Next1(g, s)
    <3>1. CASE s = {}
      BY <3>1
    <3>2. CASE s # {}
      <4> DEFINE t == s \ {Picked(s)}
      <4>1. t \in SUBSET S /\ Cardinality(t) <= n
        BY <2>3, <3>2, SubsetParts
      <4>2. g[t] = f[t]
        BY <2>1, <4>1, Zenon
      <4> QED
        BY <3>2, <4>1, <4>2
    <3> QED
      BY <3>1, <3>2
  <2> HIDE DEF g
  <2>4. Upto(g, n + 1)
    BY <2>3, Zenon
  <2>5. n + 1 \in Nat
    OBVIOUS
  <2> QED
    BY <2>2, <2>4, <2>5, Zenon
<1> HIDE DEF N
<1>3. Cardinality(S) \in N
  <2>1. Cardinality(S) \in Nat
    BY FS_CardinalityType
  <2> QED
    BY <1>1, <1>2, <2>1, NumbersInduction
<1>4. PICK f \in [SUBSET S -> Nat] : Upto(f, Cardinality(S))
  BY <1>3, Zenon DEF N
<1>5. \A s \in SUBSET S : f[s] = Next1(f, s)
  BY <1>4, SubsetParts
<1>6. f = [s \in SUBSET S |-> Next1(f, s)]
  BY <1>5
<1> QED
  BY <1>6, Zenon DEF IsSum

\* And only one, which looks at the numbers of the subset alone.
LEMMA SumUnique ==
  ASSUME NEW T, IsFiniteSet(T), NEW S, T \subseteq S, NEW v, NEW w,
         \A x \in T : v[x] = w[x],
         NEW f, IsSum(f, w, S), NEW g, IsSum(g, v, T)
  PROVE  \A s \in SUBSET T : f[s] = g[s]
<1> DEFINE N == {n \in Nat : \A s \in SUBSET T : Cardinality(s) <= n => f[s] = g[s]}
<1>1. /\ \A s \in SUBSET T : f[s] = IF s = {} THEN 0 ELSE w[Picked(s)] + f[s \ {Picked(s)}]
      /\ \A s \in SUBSET T : g[s] = IF s = {} THEN 0 ELSE v[Picked(s)] + g[s \ {Picked(s)}]
  BY Zenon DEF IsSum
<1>2. 0 \in N
  <2>1. ASSUME NEW s \in SUBSET T, Cardinality(s) <= 0 PROVE f[s] = g[s]
    <3>1. s = {}
      BY <2>1, SubsetParts
    <3> QED
      BY <1>1, <3>1, Zenon
  <2> QED
    BY <2>1
<1>3. ASSUME NEW n \in Nat, n \in N PROVE n + 1 \in N
  <2>1. ASSUME NEW s \in SUBSET T, Cardinality(s) <= n + 1 PROVE f[s] = g[s]
    <3>1. CASE s = {}
      BY <1>1, <3>1, Zenon
    <3>2. CASE s # {}
      <4> DEFINE t == s \ {Picked(s)}
      <4>1. t \in SUBSET T /\ Cardinality(t) <= n /\ Picked(s) \in T
        BY <2>1, <3>2, SubsetParts
      <4>2. f[t] = g[t]
        BY <1>3, <4>1
      <4> QED
        BY <1>1, <3>2, <4>1, <4>2, Zenon
    <3> QED
      BY <3>1, <3>2
  <2> QED
    BY <2>1
<1> HIDE DEF N
<1>4. Cardinality(T) \in N
  <2>1. Cardinality(T) \in Nat
    BY FS_CardinalityType
  <2> QED
    BY <1>2, <1>3, <2>1, NumbersInduction
<1>5. ASSUME NEW s \in SUBSET T PROVE f[s] = g[s]
  <2>1. Cardinality(s) <= Cardinality(T)
    BY SubsetParts
  <2> QED
    BY <1>4, <2>1 DEF N
<1> QED
  BY <1>5

\* The member taken first does not matter.
AnyOrder(f, w, S) == \A s \in SUBSET S : \A k \in s : f[s] = w[k] + f[s \ {k}]

\* The members can be taken in any order.
LEMMA SumOrder ==
  ASSUME NEW S, IsFiniteSet(S), NEW w, \A x \in S : w[x] \in Nat,
         NEW f \in [SUBSET S -> Nat], IsSum(f, w, S)
  PROVE  AnyOrder(f, w, S)
<1> DEFINE Takes(s) == \A k \in s : f[s] = w[k] + f[s \ {k}]
           N == {n \in Nat : \A s \in SUBSET S : Cardinality(s) <= n => Takes(s)}
<1>1. \A s \in SUBSET S : f[s] = IF s = {} THEN 0 ELSE w[Picked(s)] + f[s \ {Picked(s)}]
  BY Zenon DEF IsSum
<1>2. 0 \in N
  <2>1. ASSUME NEW s \in SUBSET S, Cardinality(s) <= 0 PROVE Takes(s)
    <3>1. s = {}
      BY <2>1, SubsetParts
    <3> QED
      BY <3>1, Zenon
  <2> QED
    BY <2>1
<1>3. ASSUME NEW n \in Nat, n \in N PROVE n + 1 \in N
  <2>1. ASSUME NEW s \in SUBSET S, Cardinality(s) <= n + 1, NEW k \in s
        PROVE  f[s] = w[k] + f[s \ {k}]
    <3> DEFINE c == Picked(s)
               t == s \ {c}
               u == s \ {k}
    <3>0. c \in s /\ f[s] = w[c] + f[t]
      BY <1>1, SubsetParts, Zenon
    <3>1. CASE k = c
      BY <3>0, <3>1, Zenon
    <3>2. CASE k # c
      <4>1. /\ t \in SUBSET S /\ Cardinality(t) <= n /\ k \in t
            /\ u \in SUBSET S /\ Cardinality(u) <= n /\ c \in u
        BY <2>1, <3>0, <3>2, SubsetParts
      <4>2. f[t] = w[k] + f[t \ {k}] /\ f[u] = w[c] + f[u \ {c}]
        BY <1>3, <4>1, Zenon
      <4>3. t \ {k} = u \ {c} /\ t \ {k} \in SUBSET S
        OBVIOUS
      <4>4. w[k] \in Nat /\ w[c] \in Nat /\ f[t \ {k}] \in Nat
        BY <3>0, <4>3, Zenon
      <4>5. f[u] = w[c] + f[t \ {k}]
        BY <4>2, <4>3, Zenon
      <4>6. ASSUME NEW a \in Nat, NEW b \in Nat, NEW d \in Nat
            PROVE  a + (b + d) = b + (a + d)
        OBVIOUS
      <4>7. f[s] = w[c] + (w[k] + f[t \ {k}])
        BY <3>0, <4>2, Zenon
      <4>8. w[c] + (w[k] + f[t \ {k}]) = w[k] + (w[c] + f[t \ {k}])
        BY <4>4, <4>6, Zenon
      <4> QED
        BY <4>5, <4>7, <4>8, Zenon
    <3> QED
      BY <3>1, <3>2
  <2>2. \A s \in SUBSET S : Cardinality(s) <= n + 1 => Takes(s)
    BY <2>1, Zenon
  <2> HIDE DEF Takes
  <2> QED
    BY <2>2
<1> HIDE DEF N
<1>4. Cardinality(S) \in N
  <2>1. Cardinality(S) \in Nat
    BY FS_CardinalityType
  <2> QED
    BY <1>2, <1>3, <2>1, NumbersInduction
<1>5. ASSUME NEW s \in SUBSET S PROVE Takes(s)
  <2>1. Cardinality(s) <= Cardinality(S)
    BY SubsetParts
  <2> HIDE DEF Takes
  <2> QED
    BY <1>4, <2>1 DEF N
<1> QED
  BY <1>5, Zenon DEF AnyOrder

\* A larger set has no smaller sum.
LEMMA SumGrows ==
  ASSUME NEW S, IsFiniteSet(S), NEW w, \A x \in S : w[x] \in Nat,
         NEW f \in [SUBSET S -> Nat], IsSum(f, w, S)
  PROVE  \A s \in SUBSET S : f[s] <= f[S]
<1>5. \A s \in SUBSET S : \A k \in s : f[s] = w[k] + f[s \ {k}]
  <2>1. AnyOrder(f, w, S)
    BY SumOrder, Zenon
  <2> QED
    BY <2>1, Zenon DEF AnyOrder
<1> DEFINE M == {n \in Nat : \A s \in SUBSET S :
                               Cardinality(S \ s) <= n => f[s] <= f[S]}
<1>6. 0 \in M
  <2>1. ASSUME NEW s \in SUBSET S, Cardinality(S \ s) <= 0 PROVE f[s] <= f[S]
    <3> DEFINE d == S \ s
    <3>1. d \in SUBSET S /\ Cardinality(d) <= 0
      BY <2>1, Zenon
    <3>2. d = {}
      <4> HIDE DEF d
      <4> QED
        BY <3>1, SubsetParts
    <3>3. s = S /\ f[S] \in Nat
      BY <3>2, Zenon
    <3> QED
      BY <3>3
  <2> QED
    BY <2>1
<1>7. ASSUME NEW n \in Nat, n \in M PROVE n + 1 \in M
  <2>1. ASSUME NEW s \in SUBSET S, Cardinality(S \ s) <= n + 1 PROVE f[s] <= f[S]
    <3>1. CASE s = S
      BY <3>1
    <3>2. CASE s # S
      <4>1. PICK k \in S \ s : TRUE
        BY <3>2, Zenon
      <4> DEFINE t == s \cup {k}
      <4>2. t \in SUBSET S /\ S \ t = (S \ s) \ {k} /\ t \ {k} = s /\ k \in t
        BY <4>1
      <4>3. Cardinality(S \ t) <= n
        <5>1. S \ s \in SUBSET S
          OBVIOUS
        <5> QED
          BY <2>1, <4>1, <4>2, <5>1, SubsetParts
      <4>4. f[t] <= f[S]
        BY <1>7, <4>2, <4>3
      <4>5. f[t] = w[k] + f[s]
        BY <1>5, <4>2, Zenon
      <4>6. w[k] \in Nat /\ f[s] \in Nat /\ f[S] \in Nat
        BY <4>1
      <4> HIDE DEF t
      <4> QED
        BY <4>4, <4>5, <4>6
    <3> QED
      BY <3>1, <3>2
  <2> QED
    BY <2>1
<1> HIDE DEF M
<1>8. \A n \in Nat : n \in M
  BY <1>6, <1>7, NumbersInduction
<1>9. ASSUME NEW s \in SUBSET S PROVE f[s] <= f[S]
  <2>1. S \ s \in SUBSET S
    OBVIOUS
  <2>2. Cardinality(S \ s) \in M /\ Cardinality(S \ s) \in Nat
    BY <1>8, <2>1, SubsetParts
  <2> QED
    BY <2>2 DEF M
<1> QED
  BY <1>9, Zenon

\* The function that MapThenSumSet chooses.
LEMMA ChosenSum ==
  ASSUME NEW S, IsFiniteSet(S), NEW w, \A x \in S : w[x] \in Nat
  PROVE  \E f \in [SUBSET S -> Nat] : IsSum(f, w, S) /\ SumOf(w, S) = f[S]
<1> DEFINE c == CHOOSE f : IsSum(f, w, S)
<1>1. PICK f \in [SUBSET S -> Nat] : IsSum(f, w, S)
  BY SumExists, Zenon
<1>2. IsSum(c, w, S)
  BY <1>1, Zenon
<1>3. SumOf(w, S) = c[S]
  BY SumIs, Zenon
<1> HIDE DEF c
<1>4. \A s \in SUBSET S : c[s] = f[s]
  BY <1>1, <1>2, SumUnique
<1> QED
  BY <1>1, <1>3, <1>4, Zenon

\* The sum depends on the numbers of the members alone.
LEMMA SumSame ==
  ASSUME NEW S, IsFiniteSet(S), NEW v, NEW w, \A x \in S : v[x] = w[x] /\ w[x] \in Nat
  PROVE  SumOf(v, S) = SumOf(w, S)
<1>1. PICK f \in [SUBSET S -> Nat] : IsSum(f, w, S) /\ SumOf(w, S) = f[S]
  BY ChosenSum, Zenon
<1>2. PICK g \in [SUBSET S -> Nat] : IsSum(g, v, S) /\ SumOf(v, S) = g[S]
  <2>1. \A x \in S : v[x] \in Nat
    BY Zenon
  <2> QED
    BY <2>1, ChosenSum, Zenon
<1>3. \A s \in SUBSET S : f[s] = g[s]
  BY <1>1, <1>2, SumUnique
<1> QED
  BY <1>1, <1>2, <1>3, Zenon

\* A part has no larger sum.
LEMMA SumPart ==
  ASSUME NEW S, IsFiniteSet(S), NEW w, \A x \in S : w[x] \in Nat, NEW T \in SUBSET S
  PROVE  SumOf(w, S) \in Nat /\ SumOf(w, T) \in Nat /\ SumOf(w, T) <= SumOf(w, S)
<1>1. PICK f \in [SUBSET S -> Nat] : IsSum(f, w, S) /\ SumOf(w, S) = f[S]
  BY ChosenSum, Zenon
<1>2. IsFiniteSet(T)
  BY FS_Subset
<1>3. PICK g \in [SUBSET T -> Nat] : IsSum(g, w, T) /\ SumOf(w, T) = g[T]
  BY <1>2, ChosenSum, Zenon
<1>4. f[T] = g[T]
  <2>1. \A s \in SUBSET T : f[s] = g[s]
    BY <1>1, <1>2, <1>3, SumUnique
  <2> QED
    BY <2>1, Zenon
<1>5. f[T] <= f[S]
  BY <1>1, SumGrows, Zenon
<1> QED
  BY <1>1, <1>3, <1>4, <1>5

\* One member counts once.
LEMMA SumWithout ==
  ASSUME NEW S, IsFiniteSet(S), NEW w, \A x \in S : w[x] \in Nat, NEW k \in S
  PROVE  SumOf(w, S) = w[k] + SumOf(w, S \ {k})
<1> DEFINE T == S \ {k}
<1>1. PICK f \in [SUBSET S -> Nat] : IsSum(f, w, S) /\ SumOf(w, S) = f[S]
  BY ChosenSum, Zenon
<1>2. IsFiniteSet(T) /\ T \subseteq S
  BY FS_Subset
<1>3. PICK g \in [SUBSET T -> Nat] : IsSum(g, w, T) /\ SumOf(w, T) = g[T]
  BY <1>2, ChosenSum, Zenon
<1>4. f[T] = g[T]
  <2>1. \A s \in SUBSET T : f[s] = g[s]
    BY <1>1, <1>2, <1>3, SumUnique
  <2> QED
    BY <2>1, Zenon
<1>5. f[S] = w[k] + f[T]
  <2>1. AnyOrder(f, w, S) /\ S \in SUBSET S
    BY <1>1, SumOrder, Zenon
  <2> QED
    BY <2>1, Zenon DEF AnyOrder
<1> QED
  BY <1>1, <1>3, <1>4, <1>5, Zenon

\* Nothing sums to zero.
LEMMA SumEmpty == ASSUME NEW w PROVE SumOf(w, {}) = 0
<1>1. IsFiniteSet({})
  BY FS_EmptySet
<1>2. PICK f \in [SUBSET {} -> Nat] : IsSum(f, w, {}) /\ SumOf(w, {}) = f[{}]
  BY <1>1, ChosenSum, Zenon
<1> QED
  BY <1>2, Zenon DEF IsSum
-----------------------------------------------------------------------------
(***************************************************************************)
(* CodeIsBounded is not inductive: a compilation adds bytes long after its *)
(* claim was tested.  BoundOK counts the code of every key that was        *)
(* admitted and is not compiled yet, and no key is admitted twice.         *)
(***************************************************************************)
\* The keys whose code passed the test of the limit and is not counted yet.
Working == {"admit", "queued", "compiling"}
Pending == {key[t] : t \in {u \in Threads : pc[u] \in Working}}

\* The generations that are owned.
Live == Owned(generations, cache, pub) \cap DOMAIN bytes

\* What is counted and what may still be added stay below the bound.
BoundOK == SumOf(bytes, Live) + SumOf(Size, Pending) < CodeLimit + SumOf(Size, Keys)

\* The active generations are listed.
ActiveOK == \A m \in Modes : active[m] \in generations

\* Generations that go leave no more code than there was.
LEMMA LiveSum ==
  ASSUME NEW b \in Seq(Nat), NEW S \in SUBSET DOMAIN b, NEW T \in SUBSET S
  PROVE  /\ IsFiniteSet(S) /\ \A g \in S : b[g] \in Nat
         /\ SumOf(b, S) \in Nat /\ SumOf(b, T) \in Nat /\ SumOf(b, T) <= SumOf(b, S)
<1>1. DOMAIN b = 1 .. Len(b) /\ Len(b) \in Nat
  OBVIOUS
<1>2. IsFiniteSet(S)
  <2>1. IsFiniteSet(1 .. Len(b))
    BY <1>1, FS_Interval
  <2> QED BY <1>1, <2>1, FS_Subset
<1>3. \A g \in S : b[g] \in Nat
  BY <1>1
<1> QED BY <1>2, <1>3, SumPart, Zenon

\* Fewer keys have no larger code.
LEMMA SizeSum ==
  ASSUME NEW S \in SUBSET Keys, NEW T \in SUBSET S
  PROVE  /\ IsFiniteSet(S) /\ \A k \in S : Size[k] \in Nat
         /\ SumOf(Size, S) \in Nat /\ SumOf(Size, T) \in Nat
         /\ SumOf(Size, T) <= SumOf(Size, S)
<1>1. IsFiniteSet(S)
  BY KeysAreFinite, FS_Subset
<1>2. \A k \in S : Size[k] \in Nat
  BY KeysAssumption
<1> QED BY <1>1, <1>2, SumPart, Zenon

\* Only calls compile, and each has a key.
LEMMA PendingKeys == CallOK => Pending \subseteq Keys
BY Zenon DEF CallOK, Pending, Working

\* A call that moves on is not counted again.
LEMMA PendingMoves ==
  ASSUME CallOK, NEW t \in Threads, NEW place,
         pc' = [pc EXCEPT ![t] = place], \A u \in Threads \ {t} : key'[u] = key[u],
         place \in Working => pc[t] \in Working /\ key'[t] = key[t]
  PROVE  Pending' \subseteq Pending
<1>1. \A u \in Threads : pc'[u] = IF u = t THEN place ELSE pc[u]
  BY Zenon DEF CallOK
<1>2. ASSUME NEW u \in Threads, pc'[u] \in Working PROVE pc[u] \in Working /\ key'[u] = key[u]
  BY <1>1, <1>2, Zenon
<1> QED BY <1>2, Zenon DEF Pending

\* Every owner owns.
LEMMA OwnedHas ==
  ASSUME NEW list, NEW handles, NEW pubs, NEW O, O = Owned(list, handles, pubs)
  PROVE  /\ list \subseteq O \cup {0}
         /\ \A k \in Keys : handles[k] \in O \cup {0}
         /\ \A f \in Functions, r \in Tiers : pubs[f][r] \in O \cup {0}
         /\ \A t \in Threads : gen[t] \in O \cup {0}
         /\ held \subseteq O \cup {0}
BY DEF Owned

\* And nobody else does.
LEMMA OwnedWithin ==
  ASSUME NEW O,
         generations' \subseteq O \cup {0},
         \A k \in Keys : cache'[k] \in O \cup {0},
         \A f \in Functions, r \in Tiers : pub'[f][r] \in O \cup {0},
         \A t \in Threads : gen'[t] \in O \cup {0},
         held' \subseteq O \cup {0}
  PROVE  Owned(generations, cache, pub)' \subseteq O
BY DEF Owned

\* A step that adds no owner, no code and no compilation keeps the bound.
LEMMA Shrinks ==
  ASSUME ManagerInv, BoundOK, bytes' = bytes,
         Owned(generations, cache, pub)' \subseteq Owned(generations, cache, pub),
         Pending' \subseteq Pending
  PROVE  BoundOK'
<1>1. Live' \in SUBSET Live /\ Live \in SUBSET DOMAIN bytes
  BY Zenon DEF Live
<1>2. bytes \in Seq(Nat)
  BY Zenon DEF ManagerInv, CodeOK
<1>3. /\ SumOf(bytes, Live) \in Nat /\ SumOf(bytes, Live') \in Nat
      /\ SumOf(bytes, Live') <= SumOf(bytes, Live)
  BY <1>1, <1>2, LiveSum, Zenon
<1>4. Pending \in SUBSET Keys /\ Pending' \in SUBSET Pending
  BY PendingKeys, Zenon DEF ManagerInv
<1>5. /\ SumOf(Size, Pending) \in Nat /\ SumOf(Size, Pending') \in Nat
      /\ SumOf(Size, Pending') <= SumOf(Size, Pending)
  BY <1>4, SizeSum, Zenon
<1>6. CodeLimit \in Nat /\ SumOf(Size, Keys) \in Nat
  BY SizeSum, LimitsAssumption
<1>7. SumOf(bytes, Live') + SumOf(Size, Pending') < CodeLimit + SumOf(Size, Keys)
  BY <1>3, <1>5, <1>6 DEF BoundOK
<1> QED BY <1>7, Zenon DEF BoundOK

\* Such a step, where the maps of the manager stay.
LEMMA QuietStep ==
  ASSUME ManagerInv, ActiveOK, BoundOK,
         UNCHANGED <<bytes, generations, active, cache, pub>>,
         \A t \in Threads : gen'[t] \in {gen[t], 0},
         held' \subseteq held \cup Owned(generations, cache, pub),
         Pending' \subseteq Pending
  PROVE  ActiveOK' /\ BoundOK'
<1> DEFINE O == Owned(generations, cache, pub)
<1>1. Owned(generations, cache, pub)' \subseteq O
  <2>1. /\ generations \subseteq O \cup {0}
        /\ \A k \in Keys : cache[k] \in O \cup {0}
        /\ \A f \in Functions, r \in Tiers : pub[f][r] \in O \cup {0}
        /\ \A t \in Threads : gen[t] \in O \cup {0}
        /\ held \subseteq O \cup {0}
    BY OwnedHas, Zenon
  <2> HIDE DEF O
  <2>2. held' \subseteq O \cup {0}
    BY <2>1, Zenon DEF O
  <2>3. \A t \in Threads : gen'[t] \in O \cup {0}
    BY <2>1, Zenon
  <2> QED BY <2>1, <2>2, <2>3, OwnedWithin, Zenon
<1>2. BoundOK'
  BY <1>1, Shrinks, Zenon
<1> QED BY <1>2, Zenon DEF ActiveOK

\* No active generation is evicted.
LEMMA EvictedIdle ==
  ASSUME NEW list, NEW act, NEW handles, NEW pubs, NEW m \in Modes
  PROVE  act[m] \notin Evicted(list, act, handles, pubs)
BY Zenon DEF Evicted

\* What a claim evicts and what it tests.
LEMMA ClaimTests ==
  ASSUME NEW t \in Threads, Claim(t)
  PROVE  \E E :
    /\ \A m \in Modes : active[m] \notin E
    /\ generations' = generations \ E
    /\ cache' = Without(cache, E)
    /\ pub' = WithoutPubs(pub, E)
    /\ UNCHANGED <<bytes, active>>
    /\ \/ Return(t, {})
       \/ /\ ~OverLimit(generations \ E, Without(cache, E), WithoutPubs(pub, E))
          /\ gen' = [gen EXCEPT ![t] = active[Mode[key[t]]]]
          /\ UNCHANGED <<key, held>>
<1> DEFINE E == Evicted(generations, active, cache, pub)
<1>1. \A m \in Modes : active[m] \notin E
  BY EvictedIdle, Zenon
<1> HIDE DEF E
<1>2. /\ generations' = generations \ E
      /\ cache' = Without(cache, E)
      /\ pub' = WithoutPubs(pub, E)
      /\ UNCHANGED <<bytes, active>>
      /\ \/ Return(t, {})
         \/ /\ ~OverLimit(generations \ E, Without(cache, E), WithoutPubs(pub, E))
            /\ gen' = [gen EXCEPT ![t] = active[Mode[key[t]]]]
            /\ UNCHANGED <<key, held>>
  BY Zenon DEF Claim, E
<1> QED BY <1>1, <1>2, Zenon

\* What a publication that replaces its generation evicts.
LEMMA PublishReplaces ==
  ASSUME NEW t \in Threads, Publish(t)
  PROVE  \/ \E E :
              /\ \A m \in Modes : active'[m] \notin E
              /\ bytes' = Append(bytes, 0)
              /\ active' = [active EXCEPT ![Mode[key[t]]] = Len(bytes) + 1]
              /\ generations' = (generations \cup {Len(bytes) + 1}) \ E
              /\ cache' = Without([cache EXCEPT ![key[t]] = gen[t]], E)
              /\ pub' = WithoutPubs(PublishPubs(key[t], gen[t]), E)
         \/ /\ cache' = [cache EXCEPT ![key[t]] = gen[t]]
            /\ pub' = PublishPubs(key[t], gen[t])
            /\ UNCHANGED <<bytes, active, generations>>
<1> DEFINE list == generations \cup {Len(bytes) + 1}
           act == [active EXCEPT ![Mode[key[t]]] = Len(bytes) + 1]
           handles == [cache EXCEPT ![key[t]] = gen[t]]
           pubs == PublishPubs(key[t], gen[t])
           E == Evicted(list, act, handles, pubs)
<1>1. \A m \in Modes : act[m] \notin E
  BY EvictedIdle, Zenon
<1>2. \/ /\ bytes' = Append(bytes, 0)
         /\ active' = act
         /\ generations' = list \ E
         /\ cache' = Without(handles, E)
         /\ pub' = WithoutPubs(pubs, E)
      \/ /\ cache' = handles
         /\ pub' = pubs
         /\ UNCHANGED <<bytes, active, generations>>
  BY Zenon DEF Publish
<1> HIDE DEF E
<1> QED BY <1>1, <1>2, Zenon

\* A claim is refused, or the code left is within the limit before its own
\* compilation is counted.
LEMMA ClaimBound ==
  ASSUME ManagerInv, ManagerInv', ActiveOK, BoundOK, NEW t \in Threads, Claim(t)
  PROVE  ActiveOK' /\ BoundOK'
<1>1. PICK E :
        /\ \A m \in Modes : active[m] \notin E
        /\ generations' = generations \ E
        /\ cache' = Without(cache, E)
        /\ pub' = WithoutPubs(pub, E)
        /\ UNCHANGED <<bytes, active>>
        /\ \/ Return(t, {})
           \/ /\ ~OverLimit(generations \ E, Without(cache, E), WithoutPubs(pub, E))
              /\ gen' = [gen EXCEPT ![t] = active[Mode[key[t]]]]
              /\ UNCHANGED <<key, held>>
  BY ClaimTests, Zenon
<1>2. ActiveOK'
  BY <1>1, Zenon DEF ActiveOK
<1> DEFINE O == Owned(generations, cache, pub)
           N == Owned(generations \ E, Without(cache, E), WithoutPubs(pub, E))
<1>3. CASE Return(t, {})
  <2>1. Pending' \subseteq Pending
    <3>1. /\ pc' = [pc EXCEPT ![t] = "idle"] /\ key' = [key EXCEPT ![t] = NoKey]
          /\ "idle" \notin Working
      BY <1>3, Zenon DEF Return, Working
    <3>2. CallOK /\ \A u \in Threads \ {t} : key'[u] = key[u]
      BY <3>1, Zenon DEF ManagerInv, CallOK
    <3> QED BY <3>1, <3>2, PendingMoves, Zenon
  <2>2. Owned(generations, cache, pub)' \subseteq O
    <3>1. /\ generations \subseteq O \cup {0}
          /\ \A k \in Keys : cache[k] \in O \cup {0}
          /\ \A f \in Functions, r \in Tiers : pub[f][r] \in O \cup {0}
          /\ \A u \in Threads : gen[u] \in O \cup {0}
          /\ held \subseteq O \cup {0}
      BY OwnedHas, Zenon
    <3> HIDE DEF O
    <3>2. /\ generations' \subseteq O \cup {0}
          /\ \A k \in Keys : cache'[k] \in O \cup {0}
          /\ \A f \in Functions, r \in Tiers : pub'[f][r] \in O \cup {0}
      BY <1>1, <3>1, Zenon DEF Without, WithoutPubs
    <3>3. (\A u \in Threads : gen'[u] \in O \cup {0}) /\ held' \subseteq O \cup {0}
      BY <1>3, <3>1, Zenon DEF Return, ManagerInv, CodeOK
    <3> QED BY <3>2, <3>3, OwnedWithin, Zenon
  <2>3. bytes' = bytes
    BY <1>1, Zenon
  <2> QED BY <1>2, <2>1, <2>2, <2>3, Shrinks, Zenon
<1>4. CASE /\ ~OverLimit(generations \ E, Without(cache, E), WithoutPubs(pub, E))
           /\ gen' = [gen EXCEPT ![t] = active[Mode[key[t]]]]
           /\ UNCHANGED <<key, held>>
  <2>1. key[t] \in Keys /\ Mode[key[t]] \in Modes
    BY KeysAssumption, Zenon DEF Claim, ManagerInv, CallOK
  <2>2. Owned(generations, cache, pub)' \subseteq N
    <3>1. /\ generations \ E \subseteq N \cup {0}
          /\ \A k \in Keys : Without(cache, E)[k] \in N \cup {0}
          /\ \A f \in Functions, r \in Tiers : WithoutPubs(pub, E)[f][r] \in N \cup {0}
          /\ \A u \in Threads : gen[u] \in N \cup {0}
          /\ held \subseteq N \cup {0}
      BY OwnedHas, Zenon
    <3> HIDE DEF N
    <3>2. active[Mode[key[t]]] \in N \cup {0}
      BY <1>1, <2>1, <3>1, Zenon DEF ActiveOK
    <3>3. \A u \in Threads : gen'[u] \in N \cup {0}
      BY <1>4, <3>1, <3>2, Zenon DEF ManagerInv, CodeOK
    <3> QED BY <1>1, <1>4, <3>1, <3>3, OwnedWithin, Zenon
  <2> DEFINE L == N \cap DOMAIN bytes
  <2>3. SumOf(bytes, L) < CodeLimit
    <3>1. SumOf(bytes, L) \in Nat
      <4>1. bytes \in Seq(Nat) /\ L \in SUBSET DOMAIN bytes
        BY Zenon DEF ManagerInv, CodeOK
      <4> HIDE DEF L
      <4> QED BY <4>1, LiveSum, Zenon
    <3>2. ~(SumOf(bytes, L) >= CodeLimit)
      BY <1>4, Zenon DEF OverLimit, BytesLive
    <3> HIDE DEF L
    <3> QED BY <3>1, <3>2, LimitsAssumption
  <2>4. SumOf(bytes, Live') \in Nat /\ SumOf(bytes, L) \in Nat
        /\ SumOf(bytes, Live') <= SumOf(bytes, L)
    <3>1. bytes \in Seq(Nat) /\ L \in SUBSET DOMAIN bytes /\ Live' \in SUBSET L
      BY <1>1, <2>2, Zenon DEF ManagerInv, CodeOK, Live
    <3> HIDE DEF L
    <3> QED BY <3>1, LiveSum, Zenon
  <2>5. /\ SumOf(Size, Keys) \in Nat /\ SumOf(Size, Pending') \in Nat
        /\ SumOf(Size, Pending') <= SumOf(Size, Keys)
    <3>1. Pending' \in SUBSET Keys
      BY Zenon DEF ManagerInv, CallOK, Pending, Working
    <3> QED BY <3>1, SizeSum, Zenon
  <2> HIDE DEF L
  <2>6. SumOf(bytes, Live') + SumOf(Size, Pending') < CodeLimit + SumOf(Size, Keys)
    BY <2>3, <2>4, <2>5, LimitsAssumption
  <2>7. bytes' = bytes
    BY <1>1, Zenon
  <2> QED BY <1>2, <2>6, <2>7, Zenon DEF BoundOK
<1> QED BY <1>1, <1>3, <1>4, Zenon

\* Code that is added was counted while it was compiled, and its key is
\* compiled by no other call.
LEMMA CompileBound ==
  ASSUME ManagerInv, ManagerInv', ActiveOK, BoundOK, NEW t \in Threads, CompileSucceeds(t)
  PROVE  ActiveOK' /\ BoundOK'
<1> DEFINE k == key[t]
           g == gen[t]
           n == Size[key[t]]
           Rest == Pending \ {k}
<1>1. /\ pc[t] = "compiling" /\ pc' = [pc EXCEPT ![t] = "publish"]
      /\ bytes' = [bytes EXCEPT ![g] = @ + n]
      /\ UNCHANGED <<key, gen, held, generations, active, cache, pub>>
  BY Zenon DEF CompileSucceeds
<1>2. ActiveOK'
  BY <1>1, Zenon DEF ActiveOK
<1>3. k \in Pending /\ Pending \in SUBSET Keys /\ n \in Nat
  <2>1. k \in Pending
    BY <1>1, Zenon DEF Pending, Working
  <2>2. Pending \subseteq Keys
    BY PendingKeys, Zenon DEF ManagerInv
  <2>3. n \in Nat
    BY <2>1, <2>2, KeysAssumption
  <2> QED BY <2>1, <2>2, <2>3, Zenon
<1>4. Pending' \in SUBSET Rest
  <2>1. ASSUME NEW u \in Threads, pc'[u] \in Working PROVE key'[u] = key[u] /\ key[u] \in Rest
    <3>1. u # t /\ pc[u] \in Working
      BY <1>1, <2>1, Zenon DEF Working, ManagerInv, CallOK
    <3>2. u \in Compilers /\ t \in Compilers
      BY <1>1, <3>1, Zenon DEF Compilers, Working
    <3>3. key[u] # key[t]
      BY <3>1, <3>2, Zenon DEF ManagerInv, CallOK, OneCompilePerKey
    <3> QED BY <1>1, <3>1, <3>3, Zenon DEF Pending
  <2> HIDE DEF Rest
  <2> QED BY <2>1, Zenon DEF Pending
<1>5. /\ SumOf(Size, Pending) = n + SumOf(Size, Rest)
      /\ SumOf(Size, Rest) \in Nat /\ SumOf(Size, Pending') \in Nat
      /\ SumOf(Size, Pending') <= SumOf(Size, Rest)
  <2>1. SumOf(Size, Pending) = n + SumOf(Size, Rest)
    <3>1. IsFiniteSet(Pending) /\ \A x \in Pending : Size[x] \in Nat
      BY <1>3, SizeSum, Zenon
    <3> QED BY <1>3, <3>1, SumWithout, Zenon
  <2>2. Rest \in SUBSET Keys
    BY <1>3, Zenon
  <2> HIDE DEF Rest
  <2> QED BY <1>4, <2>1, <2>2, SizeSum, Zenon
<1>6. /\ bytes \in Seq(Nat) /\ bytes' \in Seq(Nat) /\ DOMAIN bytes' = DOMAIN bytes
      /\ \A x \in DOMAIN bytes : bytes'[x] = IF x = g THEN bytes[x] + n ELSE bytes[x]
  BY <1>1, Zenon DEF ManagerInv, CodeOK
<1>7. Live' = Live /\ Live \in SUBSET DOMAIN bytes
  BY <1>1, <1>6 DEF Live, Owned
<1>8. /\ IsFiniteSet(Live) /\ \A x \in Live : bytes[x] \in Nat /\ bytes'[x] \in Nat
      /\ SumOf(bytes, Live) \in Nat /\ SumOf(bytes', Live) \in Nat
  <2>1. /\ IsFiniteSet(Live) /\ \A x \in Live : bytes[x] \in Nat
        /\ SumOf(bytes, Live) \in Nat
    BY <1>6, <1>7, LiveSum, Zenon
  <2>2. (\A x \in Live : bytes'[x] \in Nat) /\ SumOf(bytes', Live) \in Nat
    BY <1>6, <1>7, LiveSum, Zenon
  <2> QED BY <2>1, <2>2, Zenon
<1>9. SumOf(bytes', Live) <= SumOf(bytes, Live) + n
  <2>1. CASE g \in Live
    <3> DEFINE Others == Live \ {g}
    <3>1. /\ SumOf(bytes, Live) = bytes[g] + SumOf(bytes, Others)
          /\ SumOf(bytes', Live) = bytes'[g] + SumOf(bytes', Others)
      BY <1>8, <2>1, SumWithout, Zenon
    <3>2. Others \in SUBSET Live /\ g \notin Others /\ IsFiniteSet(Others)
      BY <1>8, FS_Subset
    <3> HIDE DEF Others
    <3>3. SumOf(bytes', Others) = SumOf(bytes, Others)
      <4>1. \A x \in Others : bytes'[x] = bytes[x] /\ bytes[x] \in Nat
        BY <1>6, <1>7, <1>8, <3>2, Zenon
      <4> QED BY <3>2, <4>1, SumSame, Zenon
    <3>4. bytes'[g] = bytes[g] + n /\ bytes[g] \in Nat
      BY <1>6, <1>7, <1>8, <2>1, Zenon
    <3>5. SumOf(bytes, Others) \in Nat
      BY <1>6, <1>7, <3>2, LiveSum, Zenon
    <3> HIDE DEF g, n
    <3> QED BY <1>3, <3>1, <3>3, <3>4, <3>5
  <2>2. CASE g \notin Live
    <3>1. \A x \in Live : bytes'[x] = bytes[x] /\ bytes[x] \in Nat
      BY <1>6, <1>7, <1>8, <2>2, Zenon
    <3>2. SumOf(bytes', Live) = SumOf(bytes, Live)
      BY <1>8, <3>1, SumSame, Zenon
    <3> HIDE DEF g, n
    <3> QED BY <1>3, <1>8, <3>2
  <2> QED BY <2>1, <2>2, Zenon
<1>10. CodeLimit \in Nat /\ SumOf(Size, Keys) \in Nat
  BY SizeSum, LimitsAssumption
<1> HIDE DEF Rest, n, g, k
<1>11. SumOf(bytes', Live) + SumOf(Size, Pending') < CodeLimit + SumOf(Size, Keys)
  BY <1>3, <1>5, <1>8, <1>9, <1>10 DEF BoundOK
<1> QED BY <1>2, <1>7, <1>11, Zenon DEF BoundOK

\* A publication moves the call's own generation into the maps, and a new
\* generation has no code.
LEMMA PublishBound ==
  ASSUME ManagerInv, ManagerInv', ActiveOK, BoundOK, NEW t \in Threads, Publish(t)
  PROVE  ActiveOK' /\ BoundOK'
<1> DEFINE O == Owned(generations, cache, pub)
           n == Len(bytes) + 1
           handles == [cache EXCEPT ![key[t]] = gen[t]]
           pubs == PublishPubs(key[t], gen[t])
<1>0. key[t] \in Keys /\ Mode[key[t]] \in Modes /\ Return(t, {gen[t]})
  BY KeysAssumption, Zenon DEF Publish, ManagerInv, CallOK
<1>1. Pending' \subseteq Pending
  <2>1. /\ pc' = [pc EXCEPT ![t] = "idle"] /\ key' = [key EXCEPT ![t] = NoKey]
        /\ "idle" \notin Working
    BY <1>0, Zenon DEF Return, Working
  <2>2. CallOK /\ \A u \in Threads \ {t} : key'[u] = key[u]
    BY <2>1, Zenon DEF ManagerInv, CallOK
  <2> QED BY <2>1, <2>2, PendingMoves, Zenon
<1>2. /\ generations \subseteq O \cup {0}
      /\ \A k \in Keys : cache[k] \in O \cup {0}
      /\ \A f \in Functions, r \in Tiers : pub[f][r] \in O \cup {0}
      /\ \A u \in Threads : gen[u] \in O \cup {0}
      /\ held \subseteq O \cup {0}
  BY OwnedHas, Zenon
<1> HIDE DEF O
<1>3. /\ \A k \in Keys : handles[k] \in O \cup {0}
      /\ \A f \in Functions, r \in Tiers : pubs[f][r] \in O \cup {0}
  <2>1. \A k \in Keys : handles[k] = IF k = key[t] THEN gen[t] ELSE cache[k]
    BY Zenon DEF ManagerInv, CodeOK
  <2>2. \A f \in Functions, r \in Tiers : pubs[f][r] \in {gen[t], pub[f][r]}
    BY Zenon DEF PublishPubs, ManagerInv, LinkOK
  <2> HIDE DEF handles, pubs
  <2> QED BY <1>2, <2>1, <2>2, Zenon
<1>4. (\A u \in Threads : gen'[u] \in O \cup {0}) /\ held' \subseteq O \cup {0}
  BY <1>0, <1>2, Zenon DEF Return, ManagerInv, CodeOK
<1>5. CASE cache' = handles /\ pub' = pubs /\ UNCHANGED <<bytes, active, generations>>
  <2>1. Owned(generations, cache, pub)' \subseteq O
    BY <1>2, <1>3, <1>4, <1>5, OwnedWithin, Zenon
  <2>2. BoundOK'
    BY <1>1, <1>5, <2>1, Shrinks, Zenon DEF O
  <2> QED BY <1>5, <2>2, Zenon DEF ActiveOK
<1>6. ASSUME NEW E,
             \A m \in Modes : active'[m] \notin E,
             bytes' = Append(bytes, 0),
             active' = [active EXCEPT ![Mode[key[t]]] = n],
             generations' = (generations \cup {n}) \ E,
             cache' = Without(handles, E),
             pub' = WithoutPubs(pubs, E)
      PROVE  ActiveOK' /\ BoundOK'
  <2> HIDE DEF n, handles, pubs
  <2>1. ActiveOK'
    <3>1. \A m \in Modes : active'[m] \in generations \cup {n}
      BY <1>6, Zenon DEF ActiveOK, ManagerInv, CodeOK
    <3> QED BY <1>6, <3>1 DEF ActiveOK
  <2>2. Owned(generations, cache, pub)' \subseteq O \cup {n}
    <3> DEFINE P == O \cup {n}
    <3>1. generations' \subseteq P \cup {0}
      BY <1>2, <1>6, Zenon
    <3>2. /\ \A k \in Keys : cache'[k] \in P \cup {0}
          /\ \A f \in Functions, r \in Tiers : pub'[f][r] \in P \cup {0}
      BY <1>3, <1>6, Zenon DEF Without, WithoutPubs
    <3>3. (\A u \in Threads : gen'[u] \in P \cup {0}) /\ held' \subseteq P \cup {0}
      BY <1>4, Zenon
    <3> HIDE DEF P
    <3>4. Owned(generations, cache, pub)' \subseteq P
      BY <3>1, <3>2, <3>3, OwnedWithin, Zenon
    <3> QED BY <3>4, Zenon DEF P
  <2>3. /\ bytes \in Seq(Nat) /\ bytes' \in Seq(Nat)
        /\ DOMAIN bytes' = DOMAIN bytes \cup {n} /\ n \notin DOMAIN bytes
        /\ bytes'[n] = 0 /\ \A x \in DOMAIN bytes : bytes'[x] = bytes[x]
    <3>1. bytes \in Seq(Nat)
      BY Zenon DEF ManagerInv, CodeOK
    <3> QED BY <1>6, <3>1 DEF n
  <2> DEFINE L == Live \cup {n}
  <2>4. Live' \in SUBSET L /\ L \in SUBSET DOMAIN bytes' /\ n \notin Live
        /\ Live \in SUBSET DOMAIN bytes /\ L \ {n} = Live
    <3>1. Live' \in SUBSET L
      BY <2>2, <2>3, Zenon DEF Live, O
    <3>2. Live \in SUBSET DOMAIN bytes /\ n \notin Live
      BY <2>3, Zenon DEF Live
    <3> QED BY <2>3, <3>1, <3>2, Zenon
  <2>5. SumOf(bytes', L) = SumOf(bytes, Live) /\ SumOf(bytes, Live) \in Nat
    <3>1. /\ IsFiniteSet(Live) /\ SumOf(bytes, Live) \in Nat
          /\ \A x \in Live : bytes[x] \in Nat
      BY <2>3, <2>4, LiveSum, Zenon
    <3>2. IsFiniteSet(L) /\ (\A x \in L : bytes'[x] \in Nat) /\ n \in L
      <4>1. n \in L
        OBVIOUS
      <4> HIDE DEF L
      <4> QED BY <2>3, <2>4, <4>1, LiveSum, Zenon
    <3> HIDE DEF L
    <3>3. SumOf(bytes', L) = bytes'[n] + SumOf(bytes', Live)
      BY <2>4, <3>2, SumWithout, Zenon
    <3>4. SumOf(bytes', Live) = SumOf(bytes, Live)
      <4>1. \A x \in Live : bytes'[x] = bytes[x] /\ bytes[x] \in Nat
        BY <2>3, <2>4, <3>1, Zenon
      <4> QED BY <3>1, <4>1, SumSame, Zenon
    <3> QED BY <2>3, <3>1, <3>3, <3>4
  <2> HIDE DEF L
  <2>6. SumOf(bytes', Live') \in Nat /\ SumOf(bytes', Live') <= SumOf(bytes', L)
    BY <2>3, <2>4, LiveSum, Zenon
  <2>7. /\ SumOf(Size, Pending) \in Nat /\ SumOf(Size, Pending') \in Nat
        /\ SumOf(Size, Pending') <= SumOf(Size, Pending)
    <3>1. Pending \in SUBSET Keys /\ Pending' \in SUBSET Pending
      BY <1>1, PendingKeys, Zenon DEF ManagerInv
    <3> QED BY <3>1, SizeSum, Zenon
  <2>8. CodeLimit \in Nat /\ SumOf(Size, Keys) \in Nat
    BY SizeSum, LimitsAssumption
  <2>9. SumOf(bytes', Live') + SumOf(Size, Pending') < CodeLimit + SumOf(Size, Keys)
    BY <2>5, <2>6, <2>7, <2>8 DEF BoundOK
  <2> QED BY <2>1, <2>9, Zenon DEF BoundOK
<1> QED BY <1>5, <1>6, PublishReplaces, Zenon

\* Every step keeps the bound.
LEMMA BoundStep ==
  ASSUME ManagerInv, ManagerInv', ActiveOK, BoundOK, [Next]_vars
  PROVE  ActiveOK' /\ BoundOK'
<1> DEFINE O == Owned(generations, cache, pub)
           Same == UNCHANGED <<bytes, generations, active, cache, pub>>
           Fewer == \A t \in Threads : gen'[t] \in {gen[t], 0}
<1>q. ASSUME Same, Fewer, held' \subseteq held \cup O, Pending' \subseteq Pending
      PROVE  ActiveOK' /\ BoundOK'
  BY <1>q, QuietStep, Zenon
<1>t. gen \in [Threads -> Nat] /\ CallOK
  BY Zenon DEF ManagerInv, CodeOK
<1>r. ASSUME NEW t \in Threads, NEW H, Return(t, H), H \subseteq O, Same
      PROVE  ActiveOK' /\ BoundOK'
  <2>1. /\ pc' = [pc EXCEPT ![t] = "idle"] /\ key' = [key EXCEPT ![t] = NoKey]
        /\ "idle" \notin Working /\ held' \subseteq held \cup O
        /\ gen' = [gen EXCEPT ![t] = 0]
    BY <1>r, Zenon DEF Return, Working
  <2>2. (\A u \in Threads \ {t} : key'[u] = key[u]) /\ Fewer
    BY <1>t, <2>1, Zenon DEF CallOK
  <2>3. Pending' \subseteq Pending
    BY <1>t, <2>1, <2>2, PendingMoves, Zenon
  <2> QED BY <1>q, <1>r, <2>1, <2>2, <2>3, Zenon
<1>m. ASSUME NEW t \in Threads, NEW place, pc' = [pc EXCEPT ![t] = place], key' = key,
             place \in Working => pc[t] \in Working, Same, Fewer, held' = held
      PROVE  ActiveOK' /\ BoundOK'
  <2>1. Pending' \subseteq Pending
    BY <1>m, <1>t, PendingMoves, Zenon
  <2>2. held' \subseteq held \cup O
    BY <1>m, Zenon
  <2> QED BY <1>m, <1>q, <2>1, <2>2, Zenon
<1>o. ASSUME NEW g, g \in O \cup {0}, g # 0 PROVE {g} \subseteq O
  BY <1>o, Zenon
<1>1. ASSUME NEW t \in Threads, CallStep(t) PROVE ActiveOK' /\ BoundOK'
  <2>1. CASE Hit(t)
    <3>1. Return(t, {cache[key[t]]}) /\ Same /\ key[t] \in Keys /\ cache[key[t]] # 0
      BY <1>t, <2>1, Zenon DEF Hit, code, CallOK
    <3>2. {cache[key[t]]} \subseteq O
      BY <3>1 DEF Owned
    <3> HIDE DEF O, Same
    <3> QED BY <1>r, <3>1, <3>2, Zenon
  <2>2. CASE FailedBefore(t) \/ QueueFull(t) \/ ClearTargets(t)
    <3>1. Return(t, {}) /\ Same
      BY <2>2, Zenon DEF FailedBefore, QueueFull, ClearTargets, code
    <3>2. {} \subseteq O
      BY Zenon
    <3> HIDE DEF O, Same
    <3> QED BY <1>r, <3>1, <3>2
  <2>3. CASE Claim(t)
    BY <2>3, ClaimBound, Zenon
  <2>4. CASE Acquire(t) \/ Enqueue(t) \/ LeaveQueue(t) \/ CompileFails(t) \/ MarkFailed(t)
    <3>1. /\ Same /\ key' = key /\ held' = held /\ gen' = gen
          /\ \E place : /\ pc' = [pc EXCEPT ![t] = place]
                        /\ place \in Working => pc[t] \in Working
      <4>1. /\ Same /\ key' = key /\ held' = held /\ gen' = gen
        BY <2>4, Zenon DEF Acquire, Enqueue, LeaveQueue, CompileFails, MarkFailed, code
      <4>2. \/ pc[t] \in Working /\ \E place : pc' = [pc EXCEPT ![t] = place]
            \/ pc' = [pc EXCEPT ![t] = "clear"]
        BY <2>4, Zenon DEF Acquire, Enqueue, LeaveQueue, CompileFails, MarkFailed, Working
      <4>3. "clear" \notin Working
        BY Zenon DEF Working
      <4> QED BY <4>1, <4>2, <4>3, Zenon
    <3>2. Fewer
      BY <3>1, Zenon
    <3> HIDE DEF Same, Fewer
    <3> QED BY <1>m, <3>1, <3>2, Zenon
  <2>5. CASE CompileSucceeds(t)
    BY <2>5, CompileBound, Zenon
  <2>6. CASE Publish(t)
    BY <2>6, PublishBound, Zenon
  <2> QED BY <1>1, <2>1, <2>2, <2>3, <2>4, <2>5, <2>6, Zenon DEF CallStep
<1>2. ASSUME NEW t \in Threads, CompilePanics(t) PROVE ActiveOK' /\ BoundOK'
  <2>1. /\ Same /\ key' = key /\ held' = held /\ gen' = [gen EXCEPT ![t] = 0]
        /\ pc' = [pc EXCEPT ![t] = "dead"] /\ "dead" \notin Working
    BY <1>2, Zenon DEF CompilePanics, Working
  <2>2. Fewer
    BY <1>t, <2>1, Zenon
  <2> HIDE DEF Same, Fewer
  <2> QED BY <1>m, <2>1, <2>2, Zenon
<1>3. ASSUME NEW t \in Threads, NEW k \in Keys, Call(t, k) PROVE ActiveOK' /\ BoundOK'
  <2>1. /\ Same /\ held' = held /\ gen' = gen
        /\ pc' = [pc EXCEPT ![t] = "lookup"] /\ "lookup" \notin Working
        /\ key' = [key EXCEPT ![t] = k]
    BY <1>3, Zenon DEF Call, Working, code
  <2>2. Fewer /\ held' \subseteq held \cup O
    BY <2>1, Zenon
  <2>3. Pending' \subseteq Pending
    <3>1. \A u \in Threads \ {t} : key'[u] = key[u]
      BY <1>t, <2>1, Zenon DEF CallOK
    <3> QED BY <1>t, <2>1, <3>1, PendingMoves, Zenon
  <2> HIDE DEF Same, Fewer, O
  <2> QED BY <1>q, <2>1, <2>2, <2>3, Zenon
<1>4. ASSUME UNCHANGED <<pc, key, gen, code>>, held' \subseteq held \cup O
      PROVE  ActiveOK' /\ BoundOK'
  <2>1. Same /\ Fewer /\ Pending' \subseteq Pending
    BY <1>4, Zenon DEF code, Pending
  <2> HIDE DEF Same, Fewer, O
  <2> QED BY <1>4, <1>q, <2>1, Zenon
<1>5. ASSUME NEW f \in Functions, TakePublished(f) PROVE ActiveOK' /\ BoundOK'
  <2>1. UNCHANGED <<pc, key, gen, code>> /\ held' \subseteq held \cup O
    BY <1>5 DEF TakePublished, Owned
  <2> HIDE DEF O
  <2> QED BY <1>4, <2>1, Zenon
<1>6. ASSUME \/ \E f \in Functions : Declare(f)
             \/ \E g \in held : DropHandle(g)
             \/ UNCHANGED vars
      PROVE  ActiveOK' /\ BoundOK'
  <2>1. UNCHANGED <<pc, key, gen, code>> /\ held' \subseteq held
    BY <1>6, Zenon DEF Declare, DropHandle, vars, code
  <2>2. held' \subseteq held \cup O
    BY <2>1, Zenon
  <2> HIDE DEF O
  <2> QED BY <1>4, <2>1, <2>2, Zenon
<1> QED BY <1>1, <1>2, <1>3, <1>5, <1>6, Zenon DEF Next

\* Executable memory is bounded: what a test admits is counted until it is
\* compiled, so the code beyond the limit is at most one piece for each key.
THEOREM CodeStaysBounded == Spec => []CodeIsBounded
<1>1. Init => ActiveOK /\ BoundOK
  <2> SUFFICES ASSUME Init PROVE ActiveOK /\ BoundOK
    OBVIOUS
  <2>1. ActiveOK
    BY DEF Init, ActiveOK, Modes
  <2>2. Pending = {}
    BY Zenon DEF Init, Pending, Working
  <2>3. bytes \in Seq(Nat) /\ DOMAIN bytes = {1, 2} /\ \A x \in {1, 2} : bytes[x] = 0
    BY DEF Init
  <2>4. SumOf(bytes, {1, 2}) = 0
    <3>1. IsFiniteSet({1, 2}) /\ \A x \in {1, 2} : bytes[x] \in Nat
      <4>1. {1, 2} \in SUBSET DOMAIN bytes
        BY <2>3, Zenon
      <4> QED BY <2>3, <4>1, LiveSum, Zenon
    <3>2. {1, 2} \ {1} = {2} /\ {2} \ {2} = {}
      OBVIOUS
    <3>3. SumOf(bytes, {1, 2}) = bytes[1] + SumOf(bytes, {2})
      BY <3>1, <3>2, SumWithout, Zenon
    <3>4. SumOf(bytes, {2}) = bytes[2] + SumOf(bytes, {})
      <4>1. {2} \in SUBSET DOMAIN bytes
        BY <2>3, Zenon
      <4>2. IsFiniteSet({2}) /\ \A x \in {2} : bytes[x] \in Nat
        BY <2>3, <4>1, LiveSum, Zenon
      <4> QED BY <3>2, <4>2, SumWithout, Zenon
    <3>5. SumOf(bytes, {}) = 0
      BY SumEmpty, Zenon
    <3> QED BY <2>3, <3>3, <3>4, <3>5
  <2>5. SumOf(bytes, Live) \in Nat /\ SumOf(bytes, Live) <= SumOf(bytes, {1, 2})
    <3>1. Live \in SUBSET {1, 2} /\ {1, 2} \in SUBSET DOMAIN bytes
      BY <2>3, Zenon DEF Live
    <3> QED BY <2>3, <3>1, LiveSum, Zenon
  <2>6. SumOf(Size, Pending) = 0 /\ SumOf(Size, Keys) \in Nat
    BY <2>2, SumEmpty, SizeSum, Zenon
  <2>7. BoundOK
    BY <2>4, <2>5, <2>6, LimitsAssumption DEF BoundOK
  <2> QED BY <2>1, <2>7, Zenon
<1>2. ManagerInv /\ ManagerInv' /\ ActiveOK /\ BoundOK /\ [Next]_vars => ActiveOK' /\ BoundOK'
  BY BoundStep, Zenon
<1>3. ManagerInv /\ BoundOK => CodeIsBounded
  <2> SUFFICES ASSUME ManagerInv, BoundOK PROVE CodeIsBounded
    OBVIOUS
  <2>1. SumOf(bytes, Live) \in Nat
    <3>1. bytes \in Seq(Nat) /\ Live \in SUBSET DOMAIN bytes
      BY Zenon DEF ManagerInv, CodeOK, Live
    <3> QED BY <3>1, LiveSum, Zenon
  <2>2. SumOf(Size, Pending) \in Nat /\ SumOf(Size, Keys) \in Nat
    <3>1. Pending \in SUBSET Keys
      BY PendingKeys, Zenon DEF ManagerInv
    <3> QED BY <3>1, SizeSum, Zenon
  <2>3. SumOf(bytes, Live) < CodeLimit + SumOf(Size, Keys)
    BY <2>1, <2>2, LimitsAssumption DEF BoundOK
  <2> QED BY <2>3, Zenon DEF CodeIsBounded, BytesLive, Live
<1> QED BY <1>1, <1>2, <1>3, ManagerInvariant, PTL DEF Spec
=============================================================================
