------------------------ MODULE NativeTieringProofs ------------------------
(***************************************************************************)
(* Proofs about NativeTiering for every set of functions, every number of  *)
(* requests and every budget.                                              *)
(*                                                                         *)
(* The budget is conserved because a job that ends turns its reservation   *)
(* into a compiled function, and it still has one because no other job for *)
(* its key exists (OneJobPerKey): only the job itself takes it back.       *)
(*                                                                         *)
(* The last part is about reservations that lose their job: how that comes *)
(* about, and that it is never undone.                                     *)
(***************************************************************************)
EXTENDS NativeTiering, RecencyLists, FiniteSetTheorems

\* The worker's batch names each key once, and it is in a job only with one.
WorkerInv ==
  /\ Distinct(batch)
  /\ batch = <<>> => stage = "check"
  /\ RunningIsBatch

TieringInv ==
  /\ TypeOK
  /\ FunctionBudget
  /\ TimeBudget
  /\ FailuresAreFinal
  /\ WorkerInv
  /\ OneJobPerKey

\* Reservations are finite, so they can be counted.
LEMMA Reservations ==
  ASSUME NEW S \in SUBSET Keys
  PROVE  IsFiniteSet(S) /\ Cardinality(S) \in Nat
BY TieringConstants, FS_Subset, FS_CardinalityType

\* Initially nothing is scheduled.
LEMMA TieringInit == Init => TieringInv
<1> SUFFICES ASSUME Init PROVE TieringInv
  OBVIOUS
<1>1. None \in [Keys -> 0 .. MaxHeat]
  BY TieringConstants DEF None
<1>2. Idle \in RequestState
  BY <1>1, TieringConstants DEF Idle, RequestState
<1>3. TypeOK
  BY <1>1, <1>2, EmptySeq DEF Init, TypeOK, Stages
<1>4. FunctionBudget /\ TimeBudget /\ FailuresAreFinal
  BY TieringConstants, FS_EmptySet DEF Init, FunctionBudget, TimeBudget, FailuresAreFinal
<1>5. WorkerInv
  BY EmptySeq DEF Init, WorkerInv, Distinct, RunningIsBatch, ToSet
<1>6. Hot(None) = {} /\ ToSet(<<>>) = {}
  BY EmptySeq DEF Hot, None, ToSet
<1>7. /\ \A r \in Requests : Submitting(r) = {}
      /\ Hot(pending) = {} /\ Unfinished = {}
  BY <1>6 DEF Init, Submitting, Idle, Unfinished
<1> QED
  BY <1>3, <1>4, <1>5, <1>7 DEF TieringInv, OneJobPerKey

\* A step that leaves the reservations, the jobs and the budgets alone.
LEMMA QuietStep ==
  ASSUME TieringInv, TypeOK',
         UNCHANGED <<scheduled, failed, compiled, used, pending, running, batch, stage>>,
         \A r \in Requests : Submitting(r)' = Submitting(r)
  PROVE  TieringInv'
<1>1. Hot(pending)' = Hot(pending) /\ Unfinished' = Unfinished
  BY DEF Hot, Unfinished
<1>2. OneJobPerKey'
  BY <1>1 DEF TieringInv, OneJobPerKey
<1> QED
  BY <1>2 DEF TieringInv, FunctionBudget, TimeBudget, FailuresAreFinal, WorkerInv,
              Distinct, RunningIsBatch

\* Counting an entry, selecting hot functions and probing the compile cache
\* reserve nothing.
LEMMA CandidateStep ==
  ASSUME TieringInv, NEW r \in Requests,
         \/ \E k \in Keys : Decide(r, k) \/ Probe(r, k)
         \/ \E hot \in [Keys -> 0 .. MaxHeat] : SelectHot(r, hot)
  PROVE  TieringInv'
<1> DEFINE old == req[r]
<1>0. old \in RequestState /\ TypeOK
  BY DEF TieringInv, TypeOK
<1>1. ASSUME NEW s \in RequestState, req' = [req EXCEPT ![r] = s], s.work = old.work,
             entries' \in [Keys -> 0 .. MaxHeat],
             UNCHANGED <<scheduled, failed, compiled, used, cached, pending, running, batch, stage>>
      PROVE  TieringInv'
  <2>1. TypeOK'
    BY <1>1 DEF TieringInv, TypeOK
  <2>2. \A q \in Requests : req'[q].work = req[q].work
    BY <1>1 DEF TieringInv, TypeOK
  <2>3. \A q \in Requests : Submitting(q)' = Submitting(q)
    BY <2>2 DEF Submitting, Hot
  <2> QED
    BY <1>1, <2>1, <2>3, QuietStep
<1>2. ASSUME NEW k \in Keys, Decide(r, k) PROVE TieringInv'
  <2> DEFINE s == [old EXCEPT !.cand = [old.cand EXCEPT ![k] = entries[k] + 1]]
  <2>1. entries[k] + 1 \in 0 .. MaxHeat
    BY <1>0, <1>2, TieringConstants DEF TypeOK, Decide
  <2>2. s \in RequestState /\ s.work = old.work
    BY <1>0, <2>1 DEF RequestState
  <2>3. req' = [req EXCEPT ![r] = s]
    BY <1>0, <1>2 DEF Decide, RequestState, TypeOK
  <2>4. entries' \in [Keys -> 0 .. MaxHeat]
    BY <1>0, <1>2, <2>1 DEF Decide, TypeOK
  <2> HIDE DEF s
  <2> QED
    BY <1>1, <1>2, <2>2, <2>3, <2>4, Zenon DEF Decide, scheduler
<1>3. ASSUME NEW hot \in [Keys -> 0 .. MaxHeat], SelectHot(r, hot) PROVE TieringInv'
  <2> DEFINE s == [old EXCEPT !.cand = hot]
  <2>1. s \in RequestState /\ s.work = old.work
    BY <1>0 DEF RequestState
  <2>2. req' = [req EXCEPT ![r] = s]
    BY <1>0, <1>3 DEF SelectHot, RequestState, TypeOK
  <2> HIDE DEF s
  <2> QED
    BY <1>0, <1>1, <1>3, <2>1, <2>2, Zenon DEF SelectHot, scheduler, tiering, TypeOK
<1>4. ASSUME NEW k \in Keys, Probe(r, k) PROVE TieringInv'
  <2> DEFINE c == [old.cand EXCEPT ![k] = 0]
             s1 == [old EXCEPT !.cand = c]
             s2 == [old EXCEPT !.cand = c, !.at = k, !.heat = old.cand[k]]
  <2>1. c \in [Keys -> 0 .. MaxHeat] /\ old.cand[k] \in 0 .. MaxHeat
    BY <1>0, TieringConstants DEF RequestState
  <2>2. s1 \in RequestState /\ s1.work = old.work /\ s2 \in RequestState /\ s2.work = old.work
    BY <1>0, <2>1, Zenon DEF RequestState
  <2>3. req' = [req EXCEPT ![r] = s1] \/ req' = [req EXCEPT ![r] = s2]
    BY <1>0, <1>4, Zenon DEF Probe, RequestState, TypeOK
  <2>4. entries' \in [Keys -> 0 .. MaxHeat]
        /\ UNCHANGED <<scheduled, failed, compiled, used, cached, pending, running, batch, stage>>
    BY <1>0, <1>4, Zenon DEF Probe, scheduler, tiering, TypeOK
  <2> HIDE DEF s1, s2
  <2> QED
    BY <1>1, <2>2, <2>3, <2>4
<1> QED
  BY <1>2, <1>3, <1>4

\* A claim reserves a key that no job holds, within the budget.
LEMMA ClaimStep ==
  ASSUME TieringInv, NEW r \in Requests, Claim(r)
  PROVE  TieringInv'
<1> DEFINE old == req[r]
           k == req[r].at
<1>0. /\ old \in RequestState /\ TypeOK /\ k \in Keys
      /\ scheduled \subseteq Keys /\ compiled \in Nat /\ MaxFunctions \in Nat
  BY TieringConstants, Zenon DEF TieringInv, TypeOK, RequestState, Claim
<1> DEFINE free == ~Unclaimable(k) /\ ~OverBudget
           w == IF free THEN old.heat ELSE old.work[k]
           s == [old EXCEPT !.at = NoKey, !.heat = 0, !.work = [old.work EXCEPT ![k] = w]]
<1>1. w \in 0 .. MaxHeat
  <2> HIDE DEF free
  <2> QED
    BY <1>0 DEF RequestState
<1>2. req' = [req EXCEPT ![r] = s]
  <2>1. req' = [req EXCEPT ![r].at = NoKey, ![r].heat = 0, ![r].work[k] = w]
    BY DEF Claim
  <2> HIDE DEF w
  <2> QED
    BY <1>0, <2>1, Zenon DEF RequestState, TypeOK
<1>3. s \in RequestState /\ s.work = [old.work EXCEPT ![k] = w]
  <2> HIDE DEF w
  <2>1. [old.work EXCEPT ![k] = w] \in [Keys -> 0 .. MaxHeat] /\ 0 \in 0 .. MaxHeat
    BY <1>0, <1>1, TieringConstants DEF RequestState
  <2> QED
    BY <1>0, <2>1, Zenon DEF RequestState
<1>4. req' = [req EXCEPT ![r] = s]
  BY <1>2
<1> HIDE DEF s
<1>5. UNCHANGED <<entries, failed, compiled, used, cached, pending, running, batch, stage>>
  BY DEF Claim, scheduler
<1>6. Hot(pending)' = Hot(pending) /\ Unfinished' = Unfinished
  BY <1>5 DEF Hot, Unfinished
<1>7. \A q \in Requests : q # r => Submitting(q)' = Submitting(q)
  BY <1>4 DEF Submitting, Hot, TieringInv, TypeOK
<1>8. Submitting(r)' = {j \in Keys : s.work[j] > 0}
  BY <1>0, <1>4 DEF Submitting, Hot, TypeOK
<1>9. CASE ~Unclaimable(k) /\ ~OverBudget
  <2>1. scheduled' = scheduled \cup {k} /\ k \notin scheduled /\ k \notin failed
    BY <1>9 DEF Claim, Unclaimable
  <2>2. Submitting(r)' \subseteq Submitting(r) \cup {k}
    BY <1>0, <1>3, <1>8 DEF Submitting, Hot, RequestState
  <2>3. TypeOK'
    BY <1>0, <1>3, <1>4, <1>5, <2>1 DEF TypeOK
  <2>4. FunctionBudget'
    <3>1. Cardinality(scheduled \cup {k}) = Cardinality(scheduled) + 1
      BY <1>0, <2>1, Reservations, FS_AddElement
    <3>2. compiled + Cardinality(scheduled) < MaxFunctions
      BY <1>0, <1>9, Reservations DEF OverBudget
    <3> QED
      BY <1>0, <1>5, <2>1, <3>1, <3>2, Reservations DEF FunctionBudget
  <2>5. FailuresAreFinal' /\ TimeBudget' /\ WorkerInv'
    BY <1>5, <2>1 DEF TieringInv, FailuresAreFinal, TimeBudget, WorkerInv, Distinct, RunningIsBatch
  <2>6. OneJobPerKey'
    BY <1>6, <1>7, <2>1, <2>2 DEF TieringInv, OneJobPerKey
  <2> QED
    BY <2>3, <2>4, <2>5, <2>6 DEF TieringInv
<1>10. CASE ~(~Unclaimable(k) /\ ~OverBudget)
  <2>1. scheduled' = scheduled /\ w = old.work[k]
    BY <1>2, <1>10 DEF Claim
  <2>2. s.work = old.work
    BY <1>0, <1>3, <2>1 DEF RequestState
  <2>3. Submitting(r)' = Submitting(r)
    BY <1>8, <2>2 DEF Submitting, Hot
  <2>4. TypeOK'
    BY <1>0, <1>3, <1>4, <1>5, <2>1 DEF TypeOK
  <2> QED
    BY <1>5, <1>7, <2>1, <2>3, <2>4, QuietStep
<1> QED
  BY <1>9, <1>10

\* A submission moves the job from the request to the pending ones, or drops
\* it when the key is still running.
LEMMA SubmitStep ==
  ASSUME TieringInv, NEW r \in Requests, NEW k \in Keys, Submit(r, k)
  PROVE  TieringInv'
<1> DEFINE old == req[r]
           s == [old EXCEPT !.work = [old.work EXCEPT ![k] = 0]]
<1>0. old \in RequestState /\ TypeOK /\ old.work[k] \in 0 .. MaxHeat /\ old.work[k] > 0
  BY DEF TieringInv, TypeOK, RequestState, Submit
<1>1. s \in RequestState /\ s.work = [old.work EXCEPT ![k] = 0]
  <2>1. [old.work EXCEPT ![k] = 0] \in [Keys -> 0 .. MaxHeat]
    BY <1>0, TieringConstants DEF RequestState
  <2> QED
    BY <1>0, <2>1 DEF RequestState
<1>2. req' = [req EXCEPT ![r] = s]
  BY <1>0 DEF Submit, RequestState, TypeOK
<1> HIDE DEF s
<1>3. UNCHANGED <<entries, scheduled, failed, compiled, used, cached, running, batch, stage>>
  BY DEF Submit, tiering
<1>4. pending' \in [Keys -> 0 .. MaxHeat] /\ Hot(pending)' \subseteq Hot(pending) \cup {k}
  <2>1. pending' = pending \/ pending' = [pending EXCEPT ![k] = pending[k]]
        \/ pending' = [pending EXCEPT ![k] = old.work[k]]
    BY Zenon DEF Submit, Submitted
  <2> QED
    BY <1>0, <2>1 DEF TypeOK, Hot
<1>5. Unfinished' = Unfinished
  BY <1>3 DEF Unfinished
<1>6. \A q \in Requests : q # r => Submitting(q)' = Submitting(q)
  BY <1>2 DEF Submitting, Hot, TieringInv, TypeOK
<1>7. Submitting(r)' = Submitting(r) \ {k} /\ k \in Submitting(r)
  <2>1. req'[r].work = [old.work EXCEPT ![k] = 0]
    BY <1>0, <1>1, <1>2 DEF TypeOK
  <2> QED
    BY <1>0, <2>1 DEF Submitting, Hot, RequestState
<1>8. TypeOK'
  BY <1>0, <1>1, <1>2, <1>3, <1>4 DEF TypeOK
<1>9. OneJobPerKey'
  <2>1. /\ k \in scheduled /\ k \notin Unfinished
        /\ \A q \in Requests : q # r => k \notin Submitting(q)
    BY <1>7 DEF TieringInv, OneJobPerKey
  <2> QED
    BY <1>3, <1>4, <1>5, <1>6, <1>7, <2>1 DEF TieringInv, OneJobPerKey
<1> QED
  BY <1>3, <1>8, <1>9 DEF TieringInv, FunctionBudget, TimeBudget, FailuresAreFinal, WorkerInv,
                          Distinct, RunningIsBatch

\* The worker moves pending jobs into its batch.
LEMMA TakeStep ==
  ASSUME TieringInv, TakeBatch
  PROVE  TieringInv'
<1>1. PICK b \in [1 .. BatchSize -> Keys] :
        /\ IsBatch(b) /\ batch' = b /\ pending' = LeftPending(b) /\ running' = running \cup ToSet(b)
  BY DEF TakeBatch
<1>2. /\ batch = <<>> /\ stage = "check" /\ running = {} /\ Hot(pending) # {}
      /\ UNCHANGED <<entries, scheduled, failed, compiled, used, cached, stage, req>>
  BY EmptySeq DEF TakeBatch, TieringInv, WorkerInv, RunningIsBatch, ToSet, tiering
<1>3. BatchSize \in Nat \ {0}
  <2>1. Hot(pending) \in SUBSET Keys
    BY DEF Hot
  <2>2. Cardinality(Hot(pending)) \in Nat \ {0}
    BY <1>2, <2>1, Reservations, FS_EmptySet
  <2> QED
    BY <2>2, TieringConstants DEF BatchSize
<1>4. b \in Seq(Keys) /\ Len(b) = BatchSize /\ b # <<>> /\ DOMAIN b = 1 .. Len(b)
  BY <1>3, EmptySeq
<1>5. Distinct(b)
  <2> SUFFICES ASSUME NEW i \in 1 .. Len(b), NEW j \in 1 .. Len(b), b[i] = b[j]
               PROVE  i = j
    BY DEF Distinct
  <2>1. ~(i < j) /\ ~(j < i)
    BY <1>1, <1>4 DEF IsBatch
  <2> QED
    BY <1>3, <1>4, <2>1
<1>6. pending' \in [Keys -> 0 .. MaxHeat] /\ Hot(pending)' = Hot(pending) \ ToSet(b)
  BY <1>1, TieringConstants DEF LeftPending, Hot, TieringInv, TypeOK
<1>7. Unfinished' = ToSet(b) /\ ToSet(b) \subseteq Hot(pending) /\ ToSet(b) \subseteq Keys
  BY <1>1, <1>2 DEF Unfinished, IsBatch, Hot
<1>8. \A r \in Requests : Submitting(r)' = Submitting(r)
  BY <1>2 DEF Submitting, Hot
<1>9. TypeOK'
  BY <1>1, <1>2, <1>4, <1>6, <1>7 DEF TieringInv, TypeOK
<1>10. OneJobPerKey'
  BY <1>2, <1>6, <1>7, <1>8 DEF TieringInv, OneJobPerKey
<1>11. WorkerInv'
  BY <1>1, <1>2, <1>4, <1>5 DEF WorkerInv, RunningIsBatch
<1> QED
  BY <1>2, <1>9, <1>10, <1>11 DEF TieringInv, FunctionBudget, TimeBudget, FailuresAreFinal

\* The head of the batch and the rest of it.
LEMMA HeadJob ==
  ASSUME TieringInv, stage # "check" \/ batch # <<>>
  PROVE  /\ batch # <<>> /\ Head(batch) \in Keys /\ Tail(batch) \in Seq(Keys)
         /\ Distinct(Tail(batch)) /\ Head(batch) \in ToSet(batch)
         /\ ToSet(Tail(batch)) = ToSet(batch) \ {Head(batch)}
<1>1. batch # <<>> /\ batch \in Seq(Keys) /\ Distinct(batch)
  BY DEF TieringInv, WorkerInv, TypeOK
<1>2. /\ Tail(batch) \in Seq(Keys) /\ Distinct(Tail(batch)) /\ Head(batch) \in ToSet(batch)
      /\ ToSet(Tail(batch)) = ToSet(batch) \ {Head(batch)}
  BY <1>1, EvictFront
<1> QED
  BY <1>1, <1>2, HeadTailProperties

\* A job that tests its budgets, compiles, ends or dies.
LEMMA JobStep ==
  ASSUME TieringInv, StartJob \/ Compile \/ Panic \/ (\E us \in 0 .. MaxJobUs : FinishJob(us))
  PROVE  TieringInv'
<1> DEFINE h == Head(batch)
<1>0. /\ batch # <<>> /\ h \in Keys /\ h \in ToSet(batch)
      /\ ToSet(Tail(batch)) = ToSet(batch) \ {h}
  BY HeadJob DEF StartJob, Compile, Panic, FinishJob
<1> HIDE DEF h
<1>1. UNCHANGED <<entries, pending, running, batch, req>>
  BY DEF StartJob, Compile, Panic, FinishJob, tiering
<1>2. /\ Hot(pending)' = Hot(pending)
      /\ \A r \in Requests : Submitting(r)' = Submitting(r)
  BY <1>1 DEF Hot, Submitting
<1>3. stage' # "check" /\ stage' \in Stages
  BY DEF StartJob, Compile, Panic, FinishJob, Stages
<1>4. Unfinished = ToSet(batch) /\ h \in scheduled
  BY <1>0 DEF StartJob, Compile, Panic, FinishJob, Unfinished, TieringInv, OneJobPerKey
<1>5. WorkerInv'
  BY <1>0, <1>1 DEF TieringInv, WorkerInv, Distinct, RunningIsBatch
<1>6. Unfinished' = IF stage' = "release" THEN ToSet(batch) \ {h} ELSE ToSet(batch)
  BY <1>0, <1>1, Zenon DEF Unfinished
<1>7. /\ scheduled \subseteq Keys /\ compiled \in Nat /\ used \in Nat /\ MaxFunctions \in Nat
      /\ MaxUs \in Nat /\ MaxJobUs \in Nat
      /\ IsFiniteSet(scheduled) /\ Cardinality(scheduled) \in Nat
      /\ Cardinality(scheduled \ {h}) = Cardinality(scheduled) - 1
  BY <1>4, TieringConstants, Reservations, FS_RemoveElement, Zenon DEF TieringInv, TypeOK
<1>8. ASSUME scheduled' = scheduled \/ (scheduled' = scheduled \ {h} /\ stage' = "release")
      PROVE  OneJobPerKey'
  <2>1. h \notin Hot(pending) /\ \A r \in Requests : h \notin Submitting(r)
    BY <1>0, <1>4 DEF TieringInv, OneJobPerKey
  <2>2. Unfinished' \subseteq Unfinished /\ (stage' = "release" => h \notin Unfinished')
    BY <1>4, <1>6
  <2>3. CASE scheduled' = scheduled
    BY <1>2, <2>2, <2>3 DEF TieringInv, OneJobPerKey
  <2>4. CASE scheduled' = scheduled \ {h} /\ stage' = "release"
    BY <1>2, <2>1, <2>2, <2>4 DEF TieringInv, OneJobPerKey
  <2> QED
    BY <1>8, <2>3, <2>4
<1>9. CASE StartJob
  <2>1. UNCHANGED <<failed, compiled, used, cached>>
        /\ (scheduled' = scheduled \/ (scheduled' = scheduled \ {h} /\ stage' = "release"))
    <3>1. CASE JobOverBudget
      BY <1>9, <3>1 DEF StartJob, h
    <3>2. CASE ~JobOverBudget
      <4>1. scheduled' = scheduled
        BY <1>9, <3>2 DEF StartJob
      <4> QED
        BY <1>9, <4>1 DEF StartJob
    <3> QED
      BY <3>1, <3>2
  <2>2. TypeOK'
    BY <1>1, <1>3, <2>1 DEF TieringInv, TypeOK
  <2>3. FunctionBudget' /\ FailuresAreFinal'
    <3>1. scheduled' \subseteq scheduled /\ Cardinality(scheduled') <= Cardinality(scheduled)
      <4>1. CASE scheduled' = scheduled
        BY <1>7, <4>1
      <4>2. CASE scheduled' = scheduled \ {h}
        BY <1>7, <4>2
      <4> QED
        BY <2>1, <4>1, <4>2
    <3>2. Cardinality(scheduled') \in Nat
      BY <1>7, <3>1, Reservations
    <3> QED
      BY <1>7, <2>1, <3>1, <3>2 DEF TieringInv, FunctionBudget, FailuresAreFinal
  <2>4. TimeBudget'
    BY <1>7, <1>9, <2>1 DEF TieringInv, TimeBudget, StartJob, JobOverBudget, OutOfTime
  <2> QED
    BY <1>5, <1>8, <2>1, <2>2, <2>3, <2>4 DEF TieringInv
<1>10. CASE Compile \/ Panic
  <2>1. UNCHANGED <<scheduled, failed, compiled, used>> /\ cached' \subseteq Keys
    BY <1>0, <1>10 DEF Compile, Panic, tiering, TieringInv, TypeOK, h
  <2>2. TypeOK'
    BY <1>1, <1>3, <2>1 DEF TieringInv, TypeOK
  <2>3. FunctionBudget' /\ FailuresAreFinal'
    BY <2>1 DEF TieringInv, FunctionBudget, FailuresAreFinal
  <2>4. TimeBudget'
    BY <1>10, <2>1 DEF TieringInv, TimeBudget, Compile, Panic
  <2>5. scheduled' = scheduled
    BY <2>1
  <2>6. OneJobPerKey'
    BY <1>8, <2>5
  <2> QED
    BY <1>5, <2>2, <2>3, <2>4, <2>6 DEF TieringInv
<1>11. ASSUME NEW us \in 0 .. MaxJobUs, FinishJob(us) PROVE TieringInv'
  <2>1. /\ scheduled' = scheduled \ {h} /\ stage' = "release" /\ used' = used + us
        /\ compiled' \in {compiled, compiled + 1}
        /\ failed' \in {failed, failed \cup {h}} /\ cached' = cached
    BY <1>11 DEF FinishJob, h
  <2>2. TypeOK'
    BY <1>0, <1>1, <1>3, <1>7, <2>1 DEF TieringInv, TypeOK
  <2>3. FunctionBudget' /\ FailuresAreFinal'
    BY <1>7, <2>1 DEF TieringInv, FunctionBudget, FailuresAreFinal
  <2>4. used < MaxUs
    BY <1>11 DEF FinishJob, TieringInv, TimeBudget
  <2>5. TimeBudget'
    BY <1>7, <2>1, <2>4 DEF TimeBudget
  <2> QED
    BY <1>5, <1>8, <2>1, <2>2, <2>3, <2>5 DEF TieringInv
<1> QED
  BY <1>9, <1>10, <1>11

\* The worker lets go of a job that has ended.
LEMMA ReleaseStep ==
  ASSUME TieringInv, Release
  PROVE  TieringInv'
<1>1. /\ batch # <<>> /\ Tail(batch) \in Seq(Keys) /\ Distinct(Tail(batch))
      /\ ToSet(Tail(batch)) = ToSet(batch) \ {Head(batch)}
  BY HeadJob DEF Release
<1>2. /\ stage = "release" /\ stage' = "check" /\ batch' = Tail(batch)
      /\ running' = running \ {Head(batch)}
      /\ UNCHANGED <<entries, scheduled, failed, compiled, used, cached, pending, req>>
  BY DEF Release, RunningAfter, tiering
<1>3. /\ Hot(pending)' = Hot(pending) /\ Unfinished' = Unfinished
      /\ \A r \in Requests : Submitting(r)' = Submitting(r)
  BY <1>2 DEF Hot, Submitting, Unfinished
<1>4. TypeOK'
  BY <1>1, <1>2 DEF TieringInv, TypeOK, Stages
<1>5. WorkerInv'
  BY <1>1, <1>2 DEF TieringInv, WorkerInv, RunningIsBatch
<1>6. OneJobPerKey'
  BY <1>2, <1>3 DEF TieringInv, OneJobPerKey
<1>7. FunctionBudget' /\ FailuresAreFinal' /\ TimeBudget'
  BY <1>2 DEF TieringInv, FunctionBudget, FailuresAreFinal, TimeBudget
<1> QED
  BY <1>4, <1>5, <1>6, <1>7 DEF TieringInv

\* Every step keeps the invariant.
LEMMA TieringStep == TieringInv /\ [Next]_vars => TieringInv'
<1> SUFFICES ASSUME TieringInv, [Next]_vars PROVE TieringInv'
  OBVIOUS
<1>1. CASE UNCHANGED vars
  <2>1. \A r \in Requests : Submitting(r)' = Submitting(r)
    BY <1>1 DEF vars, Submitting, Hot
  <2>2. TypeOK'
    BY <1>1 DEF vars, TieringInv, TypeOK
  <2> QED
    BY <1>1, <2>1, <2>2, QuietStep DEF vars
<1>2. ASSUME NEW k \in Keys, CacheChanges(k) PROVE TieringInv'
  <2>1. \A r \in Requests : Submitting(r)' = Submitting(r)
    BY <1>2 DEF CacheChanges, Submitting, Hot
  <2>2. TypeOK'
    BY <1>2 DEF CacheChanges, tiering, scheduler, TieringInv, TypeOK
  <2> QED
    BY <1>2, <2>1, <2>2, QuietStep DEF CacheChanges, tiering, scheduler
<1>3. CASE Next
  BY <1>2, <1>3, CandidateStep, ClaimStep, SubmitStep, TakeStep, JobStep, ReleaseStep
     DEF Next, RequestStep, Worker
<1> QED
  BY <1>1, <1>3

\* The inductive invariant.
THEOREM TieringInvariant == Spec => []TieringInv
BY TieringInit, TieringStep, PTL DEF Spec

\* The tiering and scheduler states keep their types.
THEOREM TieringTypeCorrect == Spec => []TypeOK
<1>1. TieringInv => TypeOK
  BY DEF TieringInv
<1> QED
  BY <1>1, TieringInvariant, PTL

\* compiled and reserved functions stay within native_max_functions.
THEOREM FunctionBudgetHolds == Spec => []FunctionBudget
<1>1. TieringInv => FunctionBudget
  BY DEF TieringInv
<1> QED
  BY <1>1, TieringInvariant, PTL

\* native_max_compile_us is exceeded by at most one job.
THEOREM TimeBudgetHolds == Spec => []TimeBudget
<1>1. TieringInv => TimeBudget
  BY DEF TieringInv
<1> QED
  BY <1>1, TieringInvariant, PTL

\* From claim to end, a key has one job, which holds its reservation.
THEOREM JobsAreUnique == Spec => []OneJobPerKey
<1>1. TieringInv => OneJobPerKey
  BY DEF TieringInv
<1> QED
  BY <1>1, TieringInvariant, PTL

\* For any batch size, the running marks are those of the jobs the optimizing
\* thread has taken and not released.
THEOREM RunningMatchesBatch == Spec => []RunningIsBatch
<1>1. TieringInv => RunningIsBatch
  BY DEF TieringInv, WorkerInv
<1> QED
  BY <1>1, TieringInvariant, PTL

\* A key whose compilation failed is not claimed again.
THEOREM FailedStayFailed == Spec => []FailuresAreFinal
<1>1. TieringInv => FailuresAreFinal
  BY DEF TieringInv
<1> QED
  BY <1>1, TieringInvariant, PTL
-----------------------------------------------------------------------------
(***************************************************************************)
(* Reservations that no job holds.                                         *)
(***************************************************************************)
\* A candidate that passed the first tests of its claim is hot.
CandidatesAreHot == \A r \in Requests : req[r].at # NoKey => req[r].heat > 0

\* What a request that decides, selects or probes changes.
LEMMA CandidateKeeps ==
  ASSUME TieringInv, CandidatesAreHot, NEW r \in Requests,
         \/ \E k \in Keys : Decide(r, k) \/ Probe(r, k)
         \/ \E hot \in [Keys -> 0 .. MaxHeat] : SelectHot(r, hot)
  PROVE  /\ UNCHANGED <<scheduled, pending, running, batch, stage>>
         /\ \A q \in Requests : req'[q].work = req[q].work
         /\ CandidatesAreHot'
<1> DEFINE old == req[r]
<1>0. old \in RequestState /\ req \in [Requests -> RequestState]
  BY DEF TieringInv, TypeOK
<1>1. ASSUME NEW s, req' = [req EXCEPT ![r] = s], s.work = old.work,
             s.at # NoKey => s.heat > 0
      PROVE  /\ \A q \in Requests : req'[q].work = req[q].work
             /\ CandidatesAreHot'
  BY <1>0, <1>1, Zenon DEF CandidatesAreHot
<1>2. UNCHANGED <<scheduled, pending, running, batch, stage>>
  BY Zenon DEF Decide, Probe, SelectHot, tiering, scheduler
<1>3. ASSUME NEW k \in Keys, Decide(r, k)
      PROVE  /\ \A q \in Requests : req'[q].work = req[q].work
             /\ CandidatesAreHot'
  <2> DEFINE s == [old EXCEPT !.cand = [old.cand EXCEPT ![k] = entries[k] + 1]]
  <2>1. s.work = old.work /\ s.at = old.at /\ s.heat = old.heat
    BY <1>0 DEF RequestState
  <2>2. req' = [req EXCEPT ![r] = s]
    BY <1>0, <1>3 DEF Decide, RequestState
  <2>3. old.at # NoKey => old.heat > 0
    BY Zenon DEF CandidatesAreHot
  <2> HIDE DEF s
  <2> QED
    BY <1>1, <2>1, <2>2, <2>3, Zenon
<1>4. ASSUME NEW hot \in [Keys -> 0 .. MaxHeat], SelectHot(r, hot)
      PROVE  /\ \A q \in Requests : req'[q].work = req[q].work
             /\ CandidatesAreHot'
  <2> DEFINE s == [old EXCEPT !.cand = hot]
  <2>1. s.work = old.work /\ s.at = old.at /\ s.heat = old.heat
    BY <1>0 DEF RequestState
  <2>2. req' = [req EXCEPT ![r] = s]
    BY <1>0, <1>4 DEF SelectHot, RequestState
  <2>3. old.at # NoKey => old.heat > 0
    BY Zenon DEF CandidatesAreHot
  <2> HIDE DEF s
  <2> QED
    BY <1>1, <2>1, <2>2, <2>3, Zenon
<1>5. ASSUME NEW k \in Keys, Probe(r, k)
      PROVE  /\ \A q \in Requests : req'[q].work = req[q].work
             /\ CandidatesAreHot'
  <2> DEFINE c == [old.cand EXCEPT ![k] = 0]
             s1 == [old EXCEPT !.cand = c]
             s2 == [old EXCEPT !.cand = c, !.at = k, !.heat = old.cand[k]]
  <2>1. /\ s1.work = old.work /\ s1.at = old.at
        /\ s2.work = old.work /\ s2.heat = old.cand[k]
    BY <1>0 DEF RequestState
  <2>2. req' = [req EXCEPT ![r] = s1] \/ req' = [req EXCEPT ![r] = s2]
    BY <1>0, <1>5, Zenon DEF Probe, RequestState
  <2>3. old.at = NoKey /\ old.cand[k] > 0
    BY <1>5, Zenon DEF Probe
  <2> HIDE DEF s1, s2
  <2> QED
    BY <1>1, <2>1, <2>2, <2>3, Zenon
<1> QED
  BY <1>2, <1>3, <1>4, <1>5, Zenon

\* What a claim changes: a free key within the budget is reserved and gets work.
LEMMA ClaimMoves ==
  ASSUME TieringInv, CandidatesAreHot, NEW r \in Requests, Claim(r)
  PROVE  /\ UNCHANGED <<pending, running, batch, stage>>
         /\ \A q \in Requests : q # r => Submitting(q)' = Submitting(q)
         /\ \/ scheduled' = scheduled /\ Submitting(r)' = Submitting(r)
            \/ \E k \in Keys \ scheduled :
                 scheduled' = scheduled \cup {k} /\ Submitting(r)' = Submitting(r) \cup {k}
         /\ CandidatesAreHot'
<1> DEFINE old == req[r]
           k == req[r].at
           free == ~Unclaimable(k) /\ ~OverBudget
           w == IF free THEN old.heat ELSE old.work[k]
           s == [old EXCEPT !.at = NoKey, !.heat = 0, !.work = [old.work EXCEPT ![k] = w]]
<1>0. /\ old \in RequestState /\ req \in [Requests -> RequestState] /\ k \in Keys
      /\ old.heat > 0
  BY Zenon DEF TieringInv, TypeOK, RequestState, Claim, CandidatesAreHot
<1>1. UNCHANGED <<pending, running, batch, stage>>
  BY Zenon DEF Claim, scheduler
<1>2. scheduled' = IF free THEN scheduled \cup {k} ELSE scheduled
  BY Zenon DEF Claim
<1>3. free => k \notin scheduled
  BY Zenon DEF Unclaimable
<1>4. req' = [req EXCEPT ![r] = s]
  <2>1. req' = [req EXCEPT ![r].at = NoKey, ![r].heat = 0, ![r].work[k] = w]
    BY DEF Claim
  <2> HIDE DEF w
  <2> QED
    BY <1>0, <2>1, Zenon DEF RequestState
<1>5. s.work = [old.work EXCEPT ![k] = w] /\ s.at = NoKey
  <2> HIDE DEF w
  <2> QED
    BY <1>0 DEF RequestState
<1>6. (free => w = old.heat) /\ (~free => w = old.work[k])
  OBVIOUS
<1> HIDE DEF s, w, free
<1>7. \A q \in Requests : q # r => Submitting(q)' = Submitting(q)
  BY <1>0, <1>4 DEF Submitting, Hot
<1>8. Submitting(r)' = {j \in Keys : s.work[j] > 0}
  BY <1>0, <1>4 DEF Submitting, Hot
<1>9. CandidatesAreHot'
  BY <1>0, <1>4, <1>5, Zenon DEF CandidatesAreHot
<1>10. CASE free
  <2>1. Submitting(r)' = Submitting(r) \cup {k}
    BY <1>0, <1>5, <1>6, <1>8, <1>10 DEF Submitting, Hot, RequestState
  <2> QED
    BY <1>0, <1>1, <1>2, <1>3, <1>7, <1>9, <1>10, <2>1
<1>11. CASE ~free
  <2>1. Submitting(r)' = Submitting(r)
    BY <1>0, <1>5, <1>6, <1>8, <1>11 DEF Submitting, Hot, RequestState
  <2> QED
    BY <1>1, <1>2, <1>7, <1>9, <1>11, <2>1
<1> QED
  BY <1>10, <1>11

\* What a submission changes.  A key whose job has ended may still be running.
LEMMA SubmitMoves ==
  ASSUME TieringInv, CandidatesAreHot, NEW r \in Requests, NEW k \in Keys, Submit(r, k)
  PROVE  /\ UNCHANGED <<scheduled, running, batch, stage>>
         /\ \A q \in Requests : q # r => Submitting(q)' = Submitting(q)
         /\ Submitting(r)' = Submitting(r) \ {k} /\ k \in Submitting(r)
         /\ \/ Hot(pending)' = Hot(pending) \cup {k}
            \/ /\ Hot(pending)' = Hot(pending)
               /\ k = Head(batch) /\ stage = "release"
         /\ CandidatesAreHot'
<1> DEFINE old == req[r]
           s == [old EXCEPT !.work = [old.work EXCEPT ![k] = 0]]
<1>0. /\ old \in RequestState /\ req \in [Requests -> RequestState]
      /\ old.work[k] \in 0 .. MaxHeat /\ old.work[k] > 0 /\ old.at = NoKey
      /\ pending \in [Keys -> 0 .. MaxHeat]
  BY DEF TieringInv, TypeOK, RequestState, Submit
<1>1. s.work = [old.work EXCEPT ![k] = 0] /\ s.at = old.at
  BY <1>0 DEF RequestState
<1>2. req' = [req EXCEPT ![r] = s]
  BY <1>0 DEF Submit, RequestState
<1> HIDE DEF s
<1>3. UNCHANGED <<scheduled, running, batch, stage>>
  BY Zenon DEF Submit, tiering
<1>4. \A q \in Requests : q # r => Submitting(q)' = Submitting(q)
  BY <1>0, <1>2 DEF Submitting, Hot
<1>5. Submitting(r)' = Submitting(r) \ {k} /\ k \in Submitting(r)
  <2>1. req'[r].work = [old.work EXCEPT ![k] = 0]
    BY <1>0, <1>1, <1>2, Zenon
  <2> QED
    BY <1>0, <2>1 DEF Submitting, Hot, RequestState
<1>6. CandidatesAreHot'
  BY <1>0, <1>1, <1>2, Zenon DEF CandidatesAreHot
<1>7. CASE k \in running
  <2>1. Hot(pending)' = Hot(pending)
    BY <1>7 DEF Submit, Submitted, Hot
  <2>2. k \in ToSet(batch) /\ k \notin Unfinished
    BY <1>5, <1>7, Zenon DEF TieringInv, WorkerInv, RunningIsBatch, OneJobPerKey
  <2>3. stage = "release" /\ k \notin ToSet(Tail(batch))
    BY <2>2, Zenon DEF Unfinished
  <2>4. k = Head(batch)
    BY <2>2, <2>3, HeadJob
  <2> QED
    BY <1>3, <1>4, <1>5, <1>6, <2>1, <2>3, <2>4, Zenon
<1>8. CASE k \notin running
  <2>1. pending' = [pending EXCEPT ![k] = IF pending[k] > old.work[k] THEN pending[k]
                                          ELSE old.work[k]]
    BY <1>0, <1>8, Zenon DEF Submit, Submitted
  <2>2. Hot(pending)' = Hot(pending) \cup {k}
    BY <1>0, <2>1 DEF Hot
  <2> QED
    BY <1>3, <1>4, <1>5, <1>6, <2>2, Zenon
<1> QED
  BY <1>7, <1>8

\* The ways a key may lose its job.
LosesJob(k) ==
  \/ Panic
  \/ /\ \E r \in Requests : Submit(r, k)
     /\ stage = "dead" \/ (stage = "release" /\ k = Head(batch))

\* A step reserves a key for a job, ends a job with its reservation, or loses
\* jobs; otherwise the same keys have jobs.
LEMMA ReservationMoves ==
  ASSUME TieringInv, CandidatesAreHot, [Next]_vars
  PROVE  /\ CandidatesAreHot'
         /\ \/ scheduled' = scheduled /\ \A j \in Keys : HasJob(j)' <=> HasJob(j)
            \/ \E k \in Keys \ scheduled :
                 /\ scheduled' = scheduled \cup {k}
                 /\ \A j \in Keys : HasJob(j)' <=> HasJob(j) \/ j = k
            \/ \E k \in Keys :
                 /\ HasJob(k) /\ scheduled' = scheduled \ {k}
                 /\ \A j \in Keys : j # k => (HasJob(j)' <=> HasJob(j))
            \/ /\ scheduled' = scheduled
               /\ \A j \in Keys :
                    (HasJob(j)' => HasJob(j)) /\ (HasJob(j) => HasJob(j)' \/ LosesJob(j))
<1> DEFINE Goal == /\ CandidatesAreHot'
                   /\ \/ scheduled' = scheduled /\ \A j \in Keys : HasJob(j)' <=> HasJob(j)
                      \/ \E k \in Keys \ scheduled :
                           /\ scheduled' = scheduled \cup {k}
                           /\ \A j \in Keys : HasJob(j)' <=> HasJob(j) \/ j = k
                      \/ \E k \in Keys :
                           /\ HasJob(k) /\ scheduled' = scheduled \ {k}
                           /\ \A j \in Keys : j # k => (HasJob(j)' <=> HasJob(j))
                      \/ /\ scheduled' = scheduled
                         /\ \A j \in Keys :
                              /\ HasJob(j)' => HasJob(j)
                              /\ HasJob(j) => HasJob(j)' \/ LosesJob(j)
<1>q. ASSUME CandidatesAreHot', scheduled' = scheduled,
             \A r \in Requests : Submitting(r)' = Submitting(r),
             Queued' = Queued
      PROVE  Goal
  BY <1>q, Zenon DEF HasJob
<1>s. ASSUME UNCHANGED <<pending, batch, stage>>
      PROVE  Queued' = Queued
  BY <1>s, Zenon DEF Queued, Unfinished, Hot
<1>h. ASSUME UNCHANGED req
      PROVE  CandidatesAreHot' /\ \A r \in Requests : Submitting(r)' = Submitting(r)
  BY <1>h, Zenon DEF CandidatesAreHot, Submitting, Hot
<1>1. ASSUME NEW r \in Requests,
             \/ \E k \in Keys : Decide(r, k) \/ Probe(r, k)
             \/ \E hot \in [Keys -> 0 .. MaxHeat] : SelectHot(r, hot)
      PROVE  Goal
  <2>1. /\ UNCHANGED <<scheduled, pending, running, batch, stage>>
        /\ \A q \in Requests : req'[q].work = req[q].work
        /\ CandidatesAreHot'
    BY <1>1, CandidateKeeps, Zenon
  <2>2. \A q \in Requests : Submitting(q)' = Submitting(q)
    BY <2>1, Zenon DEF Submitting, Hot
  <2> QED
    BY <1>q, <1>s, <2>1, <2>2, Zenon
<1>2. ASSUME NEW r \in Requests, Claim(r) PROVE Goal
  <2>1. /\ UNCHANGED <<pending, running, batch, stage>>
        /\ \A q \in Requests : q # r => Submitting(q)' = Submitting(q)
        /\ \/ scheduled' = scheduled /\ Submitting(r)' = Submitting(r)
           \/ \E k \in Keys \ scheduled :
                scheduled' = scheduled \cup {k} /\ Submitting(r)' = Submitting(r) \cup {k}
        /\ CandidatesAreHot'
    BY <1>2, ClaimMoves, Zenon
  <2>2. Queued' = Queued
    BY <1>s, <2>1, Zenon
  <2>3. CASE scheduled' = scheduled /\ Submitting(r)' = Submitting(r)
    BY <1>q, <2>1, <2>2, <2>3, Zenon
  <2>4. ASSUME NEW k \in Keys \ scheduled, scheduled' = scheduled \cup {k},
               Submitting(r)' = Submitting(r) \cup {k}
        PROVE  Goal
    <3>1. ASSUME NEW j \in Keys PROVE HasJob(j)' <=> HasJob(j) \/ j = k
      BY <2>1, <2>2, <2>4, Zenon DEF HasJob
    <3> QED
      BY <2>1, <2>4, <3>1, Zenon
  <2> QED
    BY <2>1, <2>3, <2>4, Zenon
<1>3. ASSUME NEW r \in Requests, NEW k \in Keys, Submit(r, k) PROVE Goal
  <2>1. /\ UNCHANGED <<scheduled, running, batch, stage>>
        /\ \A q \in Requests : q # r => Submitting(q)' = Submitting(q)
        /\ Submitting(r)' = Submitting(r) \ {k} /\ k \in Submitting(r)
        /\ \/ Hot(pending)' = Hot(pending) \cup {k}
           \/ /\ Hot(pending)' = Hot(pending)
              /\ k = Head(batch) /\ stage = "release"
        /\ CandidatesAreHot'
    BY <1>3, SubmitMoves, Zenon
  <2>2. Unfinished' = Unfinished
    BY <2>1, Zenon DEF Unfinished
  <2>3. HasJob(k)
    BY <2>1, Zenon DEF HasJob
  <2>4. ASSUME NEW j \in Keys, j # k PROVE HasJob(j)' <=> HasJob(j)
    <3>1. j \in Queued' <=> j \in Queued
      BY <2>1, <2>2, <2>4, Zenon DEF Queued
    <3> QED
      BY <2>1, <2>4, <3>1, Zenon DEF HasJob
  <2>5. HasJob(k)' \/ LosesJob(k)
    <3>1. CASE Hot(pending)' = Hot(pending) \cup {k} /\ stage # "dead"
      BY <2>1, <3>1, Zenon DEF HasJob, Queued
    <3>2. CASE stage = "dead" \/ (k = Head(batch) /\ stage = "release")
      BY <1>3, <3>2, Zenon DEF LosesJob
    <3> QED
      BY <2>1, <3>1, <3>2, Zenon
  <2> QED
    BY <2>1, <2>3, <2>4, <2>5, Zenon
<1>4. CASE TakeBatch
  <2>1. PICK b : IsBatch(b) /\ batch' = b /\ pending' = LeftPending(b)
    BY <1>4, Zenon DEF TakeBatch
  <2>2. /\ stage = "check" /\ batch = <<>>
        /\ UNCHANGED <<scheduled, stage, req>>
    BY <1>4, Zenon DEF TakeBatch, TieringInv, WorkerInv, tiering
  <2>3. Unfinished = {} /\ Unfinished' = ToSet(b) /\ ToSet(b) \subseteq Hot(pending)
    BY <2>1, <2>2, EmptySeq DEF Unfinished, IsBatch, ToSet
  <2>4. Hot(pending)' = Hot(pending) \ ToSet(b)
    BY <2>1 DEF LeftPending, Hot
  <2>5. Queued' = Queued
    BY <2>2, <2>3, <2>4 DEF Queued
  <2> QED
    BY <1>h, <1>q, <2>2, <2>5, Zenon
<1>5. ASSUME StartJob \/ Compile \/ Panic \/ (\E us \in 0 .. MaxJobUs : FinishJob(us))
      PROVE  Goal
  <2> DEFINE h == Head(batch)
  <2>0. /\ h \in Keys /\ h \in ToSet(batch) /\ ToSet(Tail(batch)) = ToSet(batch) \ {h}
    BY <1>5, HeadJob DEF StartJob, Compile, Panic, FinishJob
  <2> HIDE DEF h
  <2>1. UNCHANGED <<pending, batch, req>>
    BY <1>5, Zenon DEF StartJob, Compile, Panic, FinishJob
  <2>2. Unfinished = ToSet(batch) /\ h \in scheduled /\ stage # "dead"
    BY <1>5, <2>0 DEF StartJob, Compile, Panic, FinishJob, Unfinished, TieringInv, OneJobPerKey
  <2>3. Unfinished' = IF stage' = "release" THEN ToSet(batch) \ {h} ELSE ToSet(batch)
    BY <2>0, <2>1, Zenon DEF Unfinished
  <2>4. /\ CandidatesAreHot' /\ \A r \in Requests : Submitting(r)' = Submitting(r)
        /\ Hot(pending)' = Hot(pending)
    BY <1>h, <2>1, Zenon DEF Hot
  <2>6. CASE stage' \notin {"release", "dead"}
    <3>1. scheduled' = scheduled
      BY <1>5, <2>6, Zenon DEF StartJob, Compile, Panic, FinishJob, tiering
    <3>2. Queued' = Queued
      BY <2>2, <2>3, <2>4, <2>6, Zenon DEF Queued
    <3> QED
      BY <1>q, <2>4, <3>1, <3>2, Zenon
  <2>7. CASE stage' = "release"
    <3>1. scheduled' = scheduled \ {h}
      <4>1. CASE StartJob
        <5>1. JobOverBudget
          BY <2>2, <2>7, <4>1, Zenon DEF StartJob, h
        <5> QED
          BY <4>1, <5>1, Zenon DEF StartJob, h
      <4>2. CASE \E us \in 0 .. MaxJobUs : FinishJob(us)
        BY <4>2, Zenon DEF FinishJob, h
      <4>3. CASE Compile \/ Panic
        BY <2>7, <4>3 DEF Compile, Panic
      <4> QED
        BY <1>5, <4>1, <4>2, <4>3, Zenon
    <3>2. h \in Queued /\ \A j \in Keys : j # h => (j \in Queued' <=> j \in Queued)
      BY <2>0, <2>2, <2>3, <2>4, <2>7 DEF Queued
    <3>3. HasJob(h) /\ \A j \in Keys : j # h => (HasJob(j)' <=> HasJob(j))
      BY <2>4, <3>2, Zenon DEF HasJob
    <3> QED
      BY <2>0, <2>4, <3>1, <3>3, Zenon
  <2>8. CASE stage' = "dead"
    <3>1. Panic
      BY <1>5, <2>8, Zenon DEF StartJob, Compile, FinishJob
    <3>2. scheduled' = scheduled /\ \A j \in Keys : LosesJob(j)
      BY <3>1, Zenon DEF Panic, tiering, LosesJob
    <3>3. \A j \in Keys : HasJob(j)' => HasJob(j)
      BY <2>4, <2>8, Zenon DEF HasJob, Queued
    <3> QED
      BY <2>4, <3>2, <3>3, Zenon
  <2> QED
    BY <2>6, <2>7, <2>8, Zenon
<1>6. CASE Release
  <2>1. /\ stage = "release" /\ stage' = "check" /\ batch' = Tail(batch)
        /\ UNCHANGED <<scheduled, pending, req>>
    BY <1>6, Zenon DEF Release, tiering
  <2>2. Queued' = Queued
    BY <2>1 DEF Queued, Unfinished, Hot
  <2> QED
    BY <1>h, <1>q, <2>1, <2>2, Zenon
<1>7. ASSUME (\E k \in Keys : CacheChanges(k)) \/ UNCHANGED vars PROVE Goal
  <2>1. UNCHANGED <<scheduled, pending, batch, stage, req>>
    BY <1>7, Zenon DEF CacheChanges, tiering, scheduler, vars
  <2> QED
    BY <1>h, <1>q, <1>s, <2>1, Zenon
<1>8. Goal
  BY <1>1, <1>2, <1>3, <1>4, <1>5, <1>6, <1>7, Zenon DEF Next, RequestStep, Worker
<1> QED
  BY <1>8

\* Candidates that passed the first tests are hot.
THEOREM CandidatesStayHot == Spec => []CandidatesAreHot
<1>1. Init => CandidatesAreHot
  BY DEF Init, CandidatesAreHot, Idle
<1>2. TieringInv /\ CandidatesAreHot /\ [Next]_vars => CandidatesAreHot'
  BY ReservationMoves, Zenon
<1> QED
  BY <1>1, <1>2, TieringInvariant, PTL DEF Spec

\* The submission of a key that the worker has not released is, with a panic and
\* the submissions after it, the only way for a scheduled function to be left
\* without a job that may run.
THEOREM JobsAreLostByRace == Spec => LossesHaveCause
<1>1. ASSUME TieringInv, CandidatesAreHot, [Next]_vars
      PROVE  [\A k \in Lost' \ Lost :
                \/ Panic
                \/ /\ \E r \in Requests : Submit(r, k)
                   /\ stage = "dead" \/ (stage = "release" /\ k = Head(batch))]_vars
  <2> SUFFICES ASSUME NEW k \in Lost' \ Lost PROVE LosesJob(k)
    BY DEF LosesJob
  <2>1. k \in scheduled' /\ ~HasJob(k)' /\ (k \in scheduled => HasJob(k))
    BY Zenon DEF Lost
  <2>2. scheduled \subseteq Keys
    BY <1>1, Zenon DEF TieringInv, TypeOK
  <2> QED
    BY <1>1, <2>1, <2>2, ReservationMoves, Zenon
<1> QED
  BY <1>1, TieringInvariant, CandidatesStayHot, PTL DEF Spec, LossesHaveCause

\* What is lost that way stays reserved for the life of the process.
THEOREM LostReservationsStay == Spec => LossesAreForGood
<1>1. ASSUME TieringInv, CandidatesAreHot, [Next]_vars PROVE [Lost \subseteq Lost']_vars
  <2> SUFFICES ASSUME NEW k \in Lost PROVE k \in Lost'
    OBVIOUS
  <2>1. k \in scheduled /\ ~HasJob(k) /\ k \in Keys
    BY <1>1, Zenon DEF Lost, TieringInv, TypeOK
  <2>2. k \in scheduled' /\ ~HasJob(k)'
    BY <1>1, <2>1, ReservationMoves, Zenon
  <2> QED
    BY <2>2, Zenon DEF Lost
<1> QED
  BY <1>1, TieringInvariant, CandidatesStayHot, PTL DEF Spec, LossesAreForGood
=============================================================================
