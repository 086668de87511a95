------------------------ MODULE RequestPipelineProofs ------------------------
(***************************************************************************)
(* Proofs about RequestPipeline, for every number of requests and every    *)
(* pair of limits.  The two semaphores are counted by one argument: each   *)
(* step leaves the owners of a semaphore's permits as they are, adds one   *)
(* owner and takes a permit, or removes one and returns a permit.  Which   *)
(* of the three it is depends on where the job of the request is, which is *)
(* what the inductive invariant records.                                   *)
(*                                                                         *)
(* The second half is about the worker pool on its own, PoolSpec, and      *)
(* shows that the server implements it.                                    *)
(***************************************************************************)
EXTENDS RequestPipeline, FiniteSetTheorems, SequenceTheorems, TLAPS

\* The stages in which no job exists yet.
Early == {"new", "admission", "body", "router", "routing", "compile", "cpu"} \cup Queued

PoolTypes ==
  /\ caller \in [Requests -> CallerStates]
  /\ mailbox \in [Workers -> Seq(Requests)]
  /\ pc \in [Workers -> WorkerStates]
  /\ job \in [Workers -> Requests \cup {NoJob}]

\* A request that has not reached the pool has no job.
NoJobYet == \A r \in Requests : stage[r] \in Early => phase[r] = "none" /\ caller[r] = "new"

\* A caller that still owns its closure.
ClosureOwned ==
  \A r \in Requests :
    caller[r] \in {"waiting", "granted"} => phase[r] = "queued" /\ stage[r] = "pool"

InlineInPool == \A r \in Requests : caller[r] = "inline" => stage[r] = "pool"

\* A job in a channel has not started.
SentQueued ==
  \A w \in Workers : \A i \in 1 .. Len(mailbox[w]) :
    phase[mailbox[w][i]] = "queued" /\ caller[mailbox[w][i]] \in {"sent", "gone"}

SentOnce ==
  \A w1, w2 \in Workers : \A i \in 1 .. Len(mailbox[w1]) : \A j \in 1 .. Len(mailbox[w2]) :
    mailbox[w1][i] = mailbox[w2][j] => w1 = w2 /\ i = j

\* A job that a worker has received has started; once the worker is idle
\* again, it has returned.
Started ==
  \A w \in Workers :
    /\ pc[w] \in {"running", "pushed", "released"} => job[w] \in Requests
    /\ pc[w] = "running" => phase[job[w]] \in {"seed", "php", "final", "returned", "dropped"}
    /\ pc[w] \in {"pushed", "released"} => phase[job[w]] = "returned"

DoneReturned == \A r \in Requests : caller[r] = "done" => phase[r] = "returned"

Local ==
  /\ TypeOK
  /\ PoolTypes
  /\ NoJobYet
  /\ ClosureOwned
  /\ InlineInPool
  /\ SentQueued
  /\ SentOnce
  /\ Started
  /\ DoneReturned
  /\ UploadsOwned
  /\ AnswerAfterCleanup

PipeInv == Local /\ CpuPermitsConserved /\ InFlightConserved

\* One step of a semaphore with n free permits owned by S.
Moves(S, S2, n, n2) ==
  \/ S2 = S /\ n2 = n
  \/ \E r \in Requests : r \notin S /\ S2 = S \cup {r} /\ n2 = n - 1
  \/ \E r \in Requests : r \in S /\ S2 = S \ {r} /\ n2 = n + 1
-----------------------------------------------------------------------------
\* Such a step keeps the sum of free and owned permits.
LEMMA MovesBalance ==
  ASSUME NEW S \in SUBSET Requests, NEW S2, NEW n \in Int, NEW n2, NEW L \in Int,
         n + Cardinality(S) = L, Moves(S, S2, n, n2)
  PROVE  n2 + Cardinality(S2) = L
<1>1. IsFiniteSet(S)
  BY RequestsFinite, FS_Subset
<1>2. Cardinality(S) \in Nat
  BY <1>1, FS_CardinalityType
<1>3. CASE S2 = S /\ n2 = n
  BY <1>3
<1>4. ASSUME NEW r \in Requests, r \notin S, S2 = S \cup {r}, n2 = n - 1
      PROVE  n2 + Cardinality(S2) = L
  <2>1. Cardinality(S2) = Cardinality(S) + 1
    BY <1>1, <1>4, FS_AddElement
  <2> QED
    BY <2>1, <1>2, <1>4
<1>5. ASSUME NEW r \in Requests, r \in S, S2 = S \ {r}, n2 = n + 1
      PROVE  n2 + Cardinality(S2) = L
  <2>1. Cardinality(S2) = Cardinality(S) - 1
    BY <1>1, <1>5, FS_RemoveElement
  <2> QED
    BY <2>1, <1>2, <1>5
<1> QED
  BY <1>3, <1>4, <1>5 DEF Moves

\* A server that has just started satisfies the invariant.
LEMMA PipeInit == Init => PipeInv
<1> SUFFICES ASSUME Init PROVE PipeInv
  OBVIOUS
<1>1. CpuLimit \in Nat /\ InFlightLimit \in Nat
  BY LimitsPositive
<1>2. Local
  <2>1. mailbox = [w \in Workers |-> <<>>] /\ pc = [w \in Workers |-> "recv"]
        /\ caller = [r \in Requests |-> "new"] /\ job = [w \in Workers |-> NoJob]
    BY DEF Init, PoolInit, Workers
  <2>2. PoolTypes
    BY <2>1 DEF PoolTypes, CallerStates, WorkerStates
  <2>3. SentQueued /\ SentOnce
    BY <2>1 DEF SentQueued, SentOnce
  <2> QED
    BY <1>1, <2>1, <2>2, <2>3
    DEF Init, Local, TypeOK, Stages, Phases, NoJobYet, ClosureOwned, InlineInPool, Started,
        DoneReturned, UploadsOwned, AnswerAfterCleanup
<1>3. CpuHolders = {} /\ InFlight = {}
  BY DEF Init, CpuHolders, InFlight, Admitted, Queued
<1> QED
  BY <1>1, <1>2, <1>3, FS_EmptySet DEF Init, PipeInv, CpuPermitsConserved, InFlightConserved

-----------------------------------------------------------------------------
\* A step of the handler that leaves its job alone.
LEMMA StageMove ==
  ASSUME Local, NEW r \in Requests, NEW s \in Stages, Go(r, s),
         UNCHANGED <<phase, uploads, pool>>, inFlight' \in Nat, cpu' \in Nat,
         s \in Early => stage[r] \in Early,
         s # "pool" => caller[r] \notin {"waiting", "granted", "inline"},
         s = "answered" => phase[r] \in {"none", "returned"}
  PROVE  Local'
<1>0. TypeOK /\ NoJobYet /\ ClosureOwned /\ InlineInPool /\ AnswerAfterCleanup
  BY DEF Local
<1>1. UNCHANGED <<caller, mailbox, pc, job>>
  BY DEF pool
<1>2. PoolTypes' /\ SentQueued' /\ SentOnce' /\ Started' /\ DoneReturned' /\ UploadsOwned'
  BY <1>1 DEF Local, PoolTypes, SentQueued, SentOnce, Started, DoneReturned, UploadsOwned
<1>3. stage \in [Requests -> Stages] /\ stage' = [stage EXCEPT ![r] = s]
  BY <1>0 DEF TypeOK, Go
<1>4. TypeOK'
  BY <1>0, <1>3 DEF TypeOK
<1>5. NoJobYet'
  BY <1>0, <1>1, <1>3 DEF NoJobYet
<1>6. ClosureOwned'
  BY <1>0, <1>1, <1>3 DEF ClosureOwned
<1>7. InlineInPool'
  BY <1>0, <1>1, <1>3 DEF InlineInPool
<1>8. AnswerAfterCleanup'
  BY <1>0, <1>3 DEF AnswerAfterCleanup
<1> QED
  BY <1>2, <1>4, <1>5, <1>6, <1>7, <1>8, Zenon DEF Local

\* What a step owes the invariant.
Preserves ==
  /\ Local'
  /\ Moves(CpuHolders, CpuHolders', cpu, cpu')
  /\ Moves(InFlight, InFlight', inFlight, inFlight')

\* A step that sends and receives nothing leaves every job in one place.
LEMMA SentOnceKept ==
  ASSUME SentOnce, UNCHANGED mailbox
  PROVE  SentOnce'
BY DEF SentOnce

\* A step of a request whose job is in no channel, and that sends and receives
\* nothing, leaves the jobs in the channels as they are.
LEMMA SentQueuedKept ==
  ASSUME SentQueued, UNCHANGED mailbox, NEW r,
         \A w \in Workers : \A i \in 1 .. Len(mailbox[w]) :
           mailbox[w][i] \in Requests /\ mailbox[w][i] # r,
         \A q \in Requests \ {r} : phase'[q] = phase[q] /\ caller'[q] = caller[q]
  PROVE  SentQueued'
BY DEF SentQueued

\* The handler's own steps: admission, body, compilation, queueing, routing.
LEMMA HandlerAlone ==
  ASSUME Local, NEW r \in Requests,
         \/ Arrive(r) \/ Admit(r) \/ Overload(r)
         \/ AnswerEarly(r) \/ BodyTimeout(r) \/ BodyRead(r)
         \/ Compiled(r) \/ CompileError(r) \/ QueueCpu(r) \/ CpuTimeout(r)
         \/ RouterEnd(r) \/ HandlerPanic(r) \/ PoolReply(r) \/ Disconnect(r)
  PROVE  Preserves
<1>0. /\ stage \in [Requests -> Stages] /\ inFlight \in Nat /\ cpu \in Nat
      /\ phase \in [Requests -> Phases]
      /\ NoJobYet /\ ClosureOwned /\ InlineInPool /\ DoneReturned
  BY DEF Local, TypeOK
<1>1. UNCHANGED <<phase, uploads, pool>>
  BY DEF Arrive, Admit, Overload, AnswerEarly, BodyTimeout, BodyRead, Compiled, CompileError,
         QueueCpu, CpuTimeout, RouterEnd, HandlerPanic, PoolReply, Disconnect
<1>2. PICK s \in Stages :
         /\ Go(r, s)
         /\ s \in Early => stage[r] \in Early
         /\ s # "routing"
         /\ stage[r] \in Early \/ (stage[r] = "pool" /\ caller[r] \in {"done", "failed"})
         /\ s = "answered" => stage[r] \in Early \/ caller[r] = "done"
         /\ s # "pool"
         /\ cpu' = IF stage[r] = "routing" THEN cpu + 1 ELSE cpu
         /\ \/ stage[r] \in Admitted /\ s \in Admitted /\ inFlight' = inFlight
            \/ stage[r] \in Admitted /\ s \notin Admitted /\ inFlight' = inFlight + 1
            \/ stage[r] \notin Admitted /\ s \in Admitted /\ inFlight' = inFlight - 1 /\ inFlight > 0
            \/ stage[r] \notin Admitted /\ s \notin Admitted /\ inFlight' = inFlight
  <2> USE <1>0 DEF Stages, Early, Admitted, Queued, Final, Leave
  <2>1. CASE Arrive(r)
    BY <2>1 DEF Arrive
  <2>2. CASE Admit(r)
    BY <2>2 DEF Admit
  <2>3. CASE Overload(r)
    BY <2>3 DEF Overload
  <2>4. CASE AnswerEarly(r)
    BY <2>4 DEF AnswerEarly
  <2>5. CASE BodyTimeout(r)
    BY <2>5 DEF BodyTimeout
  <2>6. CASE BodyRead(r)
    BY <2>6 DEF BodyRead
  <2>7. CASE Compiled(r)
    BY <2>7 DEF Compiled
  <2>8. CASE CompileError(r)
    BY <2>8 DEF CompileError
  <2>9. CASE QueueCpu(r)
    BY <2>9, Zenon DEF QueueCpu
  <2>10. CASE CpuTimeout(r)
    BY <2>10 DEF CpuTimeout
  <2>11. CASE RouterEnd(r)
    BY <2>11 DEF RouterEnd
  <2>12. CASE HandlerPanic(r)
    BY <2>12 DEF HandlerPanic
  <2>13. CASE PoolReply(r)
    BY <2>13 DEF PoolReply
  <2>14. CASE Disconnect(r)
    BY <2>14 DEF Disconnect
  <2> QED
    BY <2>1, <2>2, <2>3, <2>4, <2>5, <2>6, <2>7, <2>8, <2>9, <2>10, <2>11, <2>12, <2>13, <2>14, Zenon
<1>3. stage' = [stage EXCEPT ![r] = s]
  BY <1>2 DEF Go
<1>4. Local'
  <2>1. caller[r] \notin {"waiting", "granted", "inline"}
    BY <1>0, <1>2 DEF NoJobYet
  <2>2. s = "answered" => phase[r] \in {"none", "returned"}
    BY <1>0, <1>2 DEF NoJobYet, DoneReturned
  <2>3. inFlight' \in Nat /\ cpu' \in Nat
    BY <1>0, <1>2
  <2> QED
    BY <1>1, <1>2, <2>1, <2>2, <2>3, StageMove, Zenon
<1>5. Moves(CpuHolders, CpuHolders', cpu, cpu')
  <2>1. stage[r] = "routing" => phase[r] = "none"
    BY <1>0 DEF NoJobYet, Early
  <2>2. CASE stage[r] = "routing"
    <3>1. r \in CpuHolders /\ CpuHolders' = CpuHolders \ {r}
      BY <1>0, <1>1, <1>2, <1>3, <2>1, <2>2, Zenon DEF CpuHolders
    <3> QED
      BY <3>1, <1>2, <2>2, Zenon DEF Moves
  <2>3. CASE stage[r] # "routing"
    <3>1. CpuHolders' = CpuHolders
      BY <1>0, <1>1, <1>2, <1>3, <2>3, Zenon DEF CpuHolders
    <3> QED
      BY <3>1, <1>2, <2>3 DEF Moves
  <2> QED
    BY <2>2, <2>3
<1>6. Moves(InFlight, InFlight', inFlight, inFlight')
  <2>1. CASE stage[r] \in Admitted /\ s \in Admitted
    BY <1>0, <1>2, <1>3, <2>1, Zenon DEF InFlight, Moves
  <2>2. CASE stage[r] \in Admitted /\ s \notin Admitted
    <3>1. r \in InFlight /\ InFlight' = InFlight \ {r}
      BY <1>0, <1>3, <2>2 DEF InFlight
    <3> QED
      BY <3>1, <1>2, <2>2 DEF Moves
  <2>3. CASE stage[r] \notin Admitted /\ s \in Admitted
    <3>1. r \notin InFlight /\ InFlight' = InFlight \cup {r}
      BY <1>0, <1>3, <2>3 DEF InFlight
    <3> QED
      BY <3>1, <1>2, <2>3, Zenon DEF Moves
  <2>4. CASE stage[r] \notin Admitted /\ s \notin Admitted
    BY <1>0, <1>2, <1>3, <2>4, Zenon DEF InFlight, Moves
  <2> QED
    BY <2>1, <2>2, <2>3, <2>4, Zenon
<1> QED
  BY <1>4, <1>5, <1>6 DEF Preserves

-----------------------------------------------------------------------------
\* A job that has started is not in any channel, its request is past the
\* early stages and its client has no answer.
LEMMA RunningJob ==
  ASSUME Local, NEW r \in Requests, phase[r] \in {"seed", "php", "final"}
  PROVE  /\ stage[r] \notin Early
         /\ stage[r] # "answered"
         /\ caller[r] \notin {"waiting", "granted", "done"}
         /\ \A w \in Workers : \A i \in 1 .. Len(mailbox[w]) : mailbox[w][i] # r
         /\ \A w \in Workers : pc[w] \in {"pushed", "released"} => job[w] # r
<1>1. stage[r] \notin Early
  BY DEF Local, NoJobYet
<1>2. stage[r] # "answered"
  BY DEF Local, AnswerAfterCleanup
<1>3. caller[r] \notin {"waiting", "granted", "done"}
  BY DEF Local, ClosureOwned, DoneReturned
<1>4. \A w \in Workers : \A i \in 1 .. Len(mailbox[w]) : mailbox[w][i] # r
  BY DEF Local, SentQueued
<1>5. \A w \in Workers : pc[w] \in {"pushed", "released"} => job[w] # r
  BY DEF Local, Started
<1> QED
  BY <1>1, <1>2, <1>3, <1>4, <1>5, Zenon

\* A step of the job itself: seed, script, finalisation.
LEMMA JobAlone ==
  ASSUME Local, NEW r \in Requests, JobStep(r)
  PROVE  Preserves
<1>0. /\ stage \in [Requests -> Stages] /\ inFlight \in Nat /\ cpu \in Nat
      /\ phase \in [Requests -> Phases] /\ uploads \subseteq Requests
      /\ PoolTypes /\ NoJobYet /\ ClosureOwned /\ InlineInPool /\ SentQueued /\ SentOnce
      /\ Started /\ DoneReturned /\ UploadsOwned /\ AnswerAfterCleanup
  BY DEF Local, TypeOK
<1>1. /\ UNCHANGED <<stage, inFlight, caller, mailbox, pc, job>>
      /\ phase[r] \in {"seed", "php", "final"}
  BY DEF JobStep, Seed, SeedFails, ScriptEnds, Finalize, pool
<1>2. PICK p \in {"php", "final", "returned"} :
        /\ phase' = [phase EXCEPT ![r] = p]
        /\ uploads' \subseteq uploads \cup {r}
        /\ p = "returned" => r \notin uploads'
        /\ \/ phase[r] = "seed" /\ p = "php" /\ cpu' = cpu
           \/ phase[r] = "seed" /\ p = "returned" /\ cpu' = cpu + 1
           \/ phase[r] = "php" /\ p = "final" /\ cpu' = cpu + 1
           \/ phase[r] = "final" /\ p = "returned" /\ cpu' = cpu
  <2>1. CASE Seed(r)
    BY <2>1 DEF Seed
  <2>2. CASE SeedFails(r)
    BY <1>0, <2>2 DEF SeedFails, UploadsOwned
  <2>3. CASE ScriptEnds(r)
    BY <2>3 DEF ScriptEnds
  <2>4. CASE Finalize(r)
    BY <2>4 DEF Finalize
  <2> QED
    BY <2>1, <2>2, <2>3, <2>4, Zenon DEF JobStep
<1>3. /\ stage[r] \notin Early /\ stage[r] # "answered"
      /\ caller[r] \notin {"waiting", "granted", "done"}
      /\ \A w \in Workers : \A i \in 1 .. Len(mailbox[w]) : mailbox[w][i] # r
      /\ \A w \in Workers : pc[w] \in {"pushed", "released"} => job[w] # r
  BY <1>1, RunningJob
<1>4. Local'
  <2>1. TypeOK'
    BY <1>0, <1>1, <1>2 DEF TypeOK, Phases
  <2>2. PoolTypes' /\ SentOnce' /\ InlineInPool'
    BY <1>0, <1>1 DEF PoolTypes, SentOnce, InlineInPool
  <2>3. NoJobYet' /\ ClosureOwned' /\ DoneReturned' /\ AnswerAfterCleanup'
    BY <1>0, <1>1, <1>2, <1>3, Zenon DEF NoJobYet, ClosureOwned, DoneReturned, AnswerAfterCleanup
  <2>4. SentQueued'
    <3> SUFFICES ASSUME NEW w \in Workers, NEW i \in 1 .. Len(mailbox[w])
                 PROVE  /\ phase'[mailbox[w][i]] = "queued"
                        /\ caller[mailbox[w][i]] \in {"sent", "gone"}
      BY <1>1 DEF SentQueued
    <3>1. mailbox[w][i] \in Requests
      BY <1>0, ElementOfSeq DEF PoolTypes
    <3> QED
      BY <1>0, <1>2, <1>3, <3>1, Zenon DEF SentQueued
  <2>5. Started'
    BY <1>0, <1>1, <1>2, <1>3, Zenon DEF Started
  <2>6. UploadsOwned'
    BY <1>0, <1>2 DEF UploadsOwned
  <2> QED
    BY <2>1, <2>2, <2>3, <2>4, <2>5, <2>6, Zenon DEF Local
<1>5. Moves(CpuHolders, CpuHolders', cpu, cpu')
  <2>0. stage[r] # "routing"
    BY <1>3 DEF Early
  <2>1. CASE cpu' = cpu
    <3>1. CpuHolders' = CpuHolders
      BY <1>0, <1>1, <1>2, <2>0, <2>1 DEF CpuHolders
    <3> QED
      BY <3>1, <2>1 DEF Moves
  <2>2. CASE cpu' = cpu + 1
    <3>1. r \in CpuHolders /\ CpuHolders' = CpuHolders \ {r}
      BY <1>0, <1>1, <1>2, <2>0, <2>2 DEF CpuHolders
    <3> QED
      BY <3>1, <2>2 DEF Moves
  <2> QED
    BY <1>2, <2>1, <2>2
<1>6. InFlight' = InFlight
  BY <1>1 DEF InFlight
<1> QED
  BY <1>1, <1>4, <1>5, <1>6, Zenon DEF Preserves, Moves

-----------------------------------------------------------------------------
\* The permit goes to the router, or into the closure given to the pool.
LEMMA CpuTaken ==
  ASSUME Local, NEW r \in Requests, TryCpu(r) \/ CpuGranted(r)
  PROVE  Preserves
<1>0. /\ stage \in [Requests -> Stages] /\ inFlight \in Nat /\ cpu \in Nat
      /\ phase \in [Requests -> Phases] /\ uploads \subseteq Requests
      /\ PoolTypes /\ NoJobYet /\ ClosureOwned /\ InlineInPool /\ SentQueued /\ SentOnce
      /\ Started /\ DoneReturned /\ UploadsOwned /\ AnswerAfterCleanup
  BY DEF Local, TypeOK
<1>1. caller \in [Requests -> CallerStates]
  BY <1>0 DEF PoolTypes
<1>2. WithPermit(r) /\ cpu > 0 /\ stage[r] \in {"router", "cpu"} \cup Queued
  BY DEF TryCpu, CpuGranted
<1>3. cpu' = cpu - 1 /\ cpu' \in Nat /\ UNCHANGED <<inFlight, uploads>>
  BY <1>0, <1>2 DEF WithPermit
<1>4. stage[r] \in Early /\ stage[r] # "routing" /\ stage[r] \in Admitted
  BY <1>2 DEF Early, Queued, Admitted
<1>5. phase[r] = "none" /\ caller[r] = "new"
  BY <1>0, <1>4 DEF NoJobYet
<1>6. CASE Go(r, "routing") /\ UNCHANGED <<phase, pool>>
  <2>1. stage' = [stage EXCEPT ![r] = "routing"]
    BY <1>6 DEF Go
  <2>2. Local'
    BY <1>0, <1>3, <1>4, <1>5, <1>6, StageMove, Zenon DEF Early, Stages, Admitted
  <2>3. r \notin CpuHolders /\ CpuHolders' = CpuHolders \cup {r}
    BY <1>0, <1>4, <1>5, <1>6, <2>1, Zenon DEF CpuHolders
  <2>4. InFlight' = InFlight
    BY <1>0, <1>4, <2>1 DEF InFlight, Admitted
  <2> QED
    BY <1>3, <2>2, <2>3, <2>4 DEF Preserves, Moves
<1>7. CASE Go(r, "pool") /\ phase' = [phase EXCEPT ![r] = "queued"] /\ Execute(r)
  <2>1. /\ stage' = [stage EXCEPT ![r] = "pool"]
        /\ caller' = [caller EXCEPT ![r] = "waiting"]
        /\ UNCHANGED <<mailbox, pc, job>>
    BY <1>7 DEF Go, Execute
  <2>2. TypeOK'
    BY <1>0, <1>3, <1>7, <2>1 DEF TypeOK, Stages, Admitted, Phases
  <2>3. PoolTypes'
    BY <1>0, <2>1 DEF PoolTypes, CallerStates
  <2>4. NoJobYet' /\ ClosureOwned' /\ InlineInPool' /\ DoneReturned' /\ AnswerAfterCleanup'
    BY <1>0, <1>1, <1>5, <1>7, <2>1, Zenon
    DEF NoJobYet, ClosureOwned, InlineInPool, DoneReturned, AnswerAfterCleanup, Early, Queued
  <2>5. SentQueued' /\ SentOnce'
    <3>1. \A w \in Workers : \A i \in 1 .. Len(mailbox[w]) :
            mailbox[w][i] \in Requests /\ mailbox[w][i] # r
      BY <1>0, <1>5, ElementOfSeq DEF PoolTypes, SentQueued
    <3>2. \A q \in Requests \ {r} : phase'[q] = phase[q] /\ caller'[q] = caller[q]
      BY <1>0, <1>1, <1>7, <2>1, Zenon
    <3>3. SentQueued'
      BY <1>0, <2>1, <3>1, <3>2, SentQueuedKept, Zenon
    <3>4. SentOnce'
      BY <1>0, <2>1, SentOnceKept
    <3> QED
      BY <3>3, <3>4
  <2>6. Started'
    BY <1>0, <1>5, <1>7, <2>1 DEF Started
  <2>7. UploadsOwned'
    BY <1>0, <1>3, <1>5, <1>7 DEF UploadsOwned
  <2>8. Local'
    BY <2>2, <2>3, <2>4, <2>5, <2>6, <2>7, Zenon DEF Local
  <2>9. r \notin CpuHolders /\ CpuHolders' = CpuHolders \cup {r}
    BY <1>0, <1>4, <1>5, <1>7, <2>1, Zenon DEF CpuHolders
  <2>10. InFlight' = InFlight
    BY <1>0, <1>4, <2>1 DEF InFlight, Admitted
  <2> QED
    BY <1>3, <2>8, <2>9, <2>10 DEF Preserves, Moves
<1> QED
  BY <1>2, <1>6, <1>7 DEF WithPermit

\* A step that changes neither stages, phases nor permits of the semaphores
\* changes no owner.
LEMMA OwnersUnchanged ==
  ASSUME Local', UNCHANGED <<inFlight, cpu>>,
         CpuHolders' = CpuHolders, InFlight' = InFlight
  PROVE  Preserves
BY DEF Preserves, Moves

\* The caller gets a worker, or none.
LEMMA PoolCaller ==
  ASSUME Local, NEW r \in Requests, PoolAcquire(r) \/ PoolDispatch(r) \/ RunInline(r)
  PROVE  Preserves
<1>0. /\ stage \in [Requests -> Stages] /\ inFlight \in Nat /\ cpu \in Nat
      /\ phase \in [Requests -> Phases] /\ uploads \subseteq Requests
      /\ PoolTypes /\ NoJobYet /\ ClosureOwned /\ InlineInPool /\ SentQueued /\ SentOnce
      /\ Started /\ DoneReturned /\ UploadsOwned /\ AnswerAfterCleanup
  BY DEF Local, TypeOK
<1>1. caller \in [Requests -> CallerStates]
  BY <1>0 DEF PoolTypes
<1>2. CASE PoolAcquire(r)
  <2>1. /\ UNCHANGED <<stage, inFlight, cpu, phase, uploads, mailbox, pc, job>>
        /\ caller[r] = "waiting" /\ caller' = [caller EXCEPT ![r] = "granted"]
    BY <1>2 DEF PoolAcquire, Acquire
  <2>2. TypeOK' /\ UploadsOwned' /\ AnswerAfterCleanup' /\ SentOnce' /\ Started'
    <3>1. TypeOK' /\ UploadsOwned' /\ AnswerAfterCleanup'
      BY <1>0, <2>1 DEF TypeOK, UploadsOwned, AnswerAfterCleanup
    <3>2. SentOnce'
      BY <1>0, <2>1, SentOnceKept
    <3>3. Started'
      BY <1>0, <2>1 DEF Started
    <3> QED
      BY <3>1, <3>2, <3>3
  <2>3. PoolTypes'
    BY <1>0, <2>1 DEF PoolTypes, CallerStates
  <2>4. NoJobYet' /\ ClosureOwned' /\ InlineInPool' /\ DoneReturned'
    BY <1>0, <1>1, <2>1 DEF NoJobYet, ClosureOwned, InlineInPool, DoneReturned
  <2>5. SentQueued'
    <3>1. \A w \in Workers : \A i \in 1 .. Len(mailbox[w]) :
            mailbox[w][i] \in Requests /\ mailbox[w][i] # r
      BY <1>0, <2>1, ElementOfSeq DEF PoolTypes, SentQueued
    <3> QED
      BY <1>0, <1>1, <2>1, <3>1, Zenon DEF SentQueued
  <2> QED
    BY <2>1, <2>2, <2>3, <2>4, <2>5, OwnersUnchanged, Zenon DEF Local, CpuHolders, InFlight
<1>3. CASE PoolDispatch(r)
  <2>1. PICK w \in Workers : DispatchTo(r, w)
    BY <1>3 DEF PoolDispatch
  <2>2. /\ UNCHANGED <<stage, inFlight, cpu, phase, uploads, pc, job>>
        /\ caller[r] = "granted" /\ caller' = [caller EXCEPT ![r] = "sent"]
        /\ mailbox' = [mailbox EXCEPT ![w] = Append(@, r)]
    BY <1>3, <2>1 DEF PoolDispatch, DispatchTo
  <2>3. phase[r] = "queued"
    BY <1>0, <2>2 DEF ClosureOwned
  <2>4. TypeOK' /\ UploadsOwned' /\ AnswerAfterCleanup' /\ Started'
    BY <1>0, <2>2 DEF TypeOK, UploadsOwned, AnswerAfterCleanup, Started
  <2>5. PoolTypes'
    BY <1>0, <2>2, AppendProperties DEF PoolTypes, CallerStates
  <2>6. NoJobYet' /\ ClosureOwned' /\ InlineInPool' /\ DoneReturned'
    BY <1>0, <1>1, <2>2 DEF NoJobYet, ClosureOwned, InlineInPool, DoneReturned
  <2>7. \A v \in Workers : \A i \in 1 .. Len(mailbox[v]) :
          mailbox[v][i] \in Requests /\ mailbox[v][i] # r
    BY <1>0, <2>2, ElementOfSeq DEF PoolTypes, SentQueued
  <2>8. \A v \in Workers : \A i \in 1 .. Len(mailbox'[v]) :
          \/ i \in 1 .. Len(mailbox[v]) /\ mailbox'[v][i] = mailbox[v][i]
          \/ v = w /\ i = Len(mailbox[v]) + 1 /\ mailbox'[v][i] = r
    <3> SUFFICES ASSUME NEW v \in Workers, NEW i \in 1 .. Len(mailbox'[v])
                 PROVE  \/ i \in 1 .. Len(mailbox[v]) /\ mailbox'[v][i] = mailbox[v][i]
                        \/ v = w /\ i = Len(mailbox[v]) + 1 /\ mailbox'[v][i] = r
      OBVIOUS
    <3>1. mailbox[v] \in Seq(Requests) /\ mailbox \in [Workers -> Seq(Requests)]
      BY <1>0 DEF PoolTypes
    <3>2. CASE v # w
      BY <2>2, <3>1, <3>2
    <3>3. CASE v = w
      <4>1. mailbox'[v] = Append(mailbox[v], r)
        BY <2>2, <3>1, <3>3
      <4>2. Len(mailbox'[v]) = Len(mailbox[v]) + 1 /\ Len(mailbox[v]) \in Nat
        BY <3>1, <4>1, AppendProperties, LenProperties
      <4>3. CASE i = Len(mailbox[v]) + 1
        <5>1. mailbox'[v][i] = r
          BY <3>1, <4>1, <4>3, AppendProperties
        <5> QED
          BY <3>3, <4>3, <5>1
      <4>4. CASE i \in 1 .. Len(mailbox[v])
        <5>1. mailbox'[v][i] = mailbox[v][i]
          BY <3>1, <4>1, <4>4, AppendProperties
        <5> QED
          BY <4>4, <5>1
      <4> QED
        BY <4>2, <4>3, <4>4
    <3> QED
      BY <3>2, <3>3, Zenon
  <2>9. SentQueued'
    BY <1>0, <1>1, <2>2, <2>3, <2>7, <2>8 DEF SentQueued
  <2>10. SentOnce'
    <3> SUFFICES ASSUME NEW v1 \in Workers, NEW v2 \in Workers,
                        NEW i \in 1 .. Len(mailbox'[v1]), NEW j \in 1 .. Len(mailbox'[v2]),
                        mailbox'[v1][i] = mailbox'[v2][j]
                 PROVE  v1 = v2 /\ i = j
      BY DEF SentOnce
    <3>1. \/ i \in 1 .. Len(mailbox[v1]) /\ mailbox'[v1][i] = mailbox[v1][i]
          \/ v1 = w /\ i = Len(mailbox[v1]) + 1 /\ mailbox'[v1][i] = r
      BY <2>8
    <3>2. \/ j \in 1 .. Len(mailbox[v2]) /\ mailbox'[v2][j] = mailbox[v2][j]
          \/ v2 = w /\ j = Len(mailbox[v2]) + 1 /\ mailbox'[v2][j] = r
      BY <2>8
    <3>3. CASE i \in 1 .. Len(mailbox[v1]) /\ j \in 1 .. Len(mailbox[v2])
               /\ mailbox'[v1][i] = mailbox[v1][i] /\ mailbox'[v2][j] = mailbox[v2][j]
      <4>1. mailbox[v1][i] = mailbox[v2][j]
        BY <3>3, Zenon
      <4>2. SentOnce
        BY <1>0
      <4> QED
        BY <3>3, <4>1, <4>2 DEF SentOnce
    <3>4. CASE mailbox'[v1][i] = r
      BY <2>7, <3>1, <3>2, <3>4, Zenon
    <3>5. CASE mailbox'[v1][i] # r
      BY <3>1, <3>2, <3>3, <3>5, Zenon
    <3> QED
      BY <3>4, <3>5
  <2> QED
    BY <2>2, <2>4, <2>5, <2>6, <2>9, <2>10, OwnersUnchanged, Zenon DEF Local, CpuHolders, InFlight
<1>4. CASE RunInline(r)
  <2>1. /\ UNCHANGED <<stage, inFlight, cpu, uploads, mailbox, pc, job>>
        /\ caller[r] = "granted" /\ caller' = [caller EXCEPT ![r] = "inline"]
        /\ phase' = [phase EXCEPT ![r] = "seed"]
    BY <1>4 DEF RunInline, DispatchInline
  <2>2. phase[r] = "queued" /\ stage[r] = "pool"
    BY <1>0, <2>1 DEF ClosureOwned
  <2>3. TypeOK' /\ SentOnce'
    <3>1. TypeOK'
      BY <1>0, <2>1 DEF TypeOK, Phases
    <3>2. SentOnce'
      BY <1>0, <2>1, SentOnceKept
    <3> QED
      BY <3>1, <3>2
  <2>4. PoolTypes'
    BY <1>0, <2>1 DEF PoolTypes, CallerStates
  <2>5. NoJobYet' /\ ClosureOwned' /\ InlineInPool' /\ DoneReturned' /\ AnswerAfterCleanup'
    BY <1>0, <1>1, <2>1, <2>2, Zenon
    DEF NoJobYet, ClosureOwned, InlineInPool, DoneReturned, AnswerAfterCleanup, Early, Queued
  <2>6. SentQueued'
    <3>1. \A w \in Workers : \A i \in 1 .. Len(mailbox[w]) :
            mailbox[w][i] \in Requests /\ mailbox[w][i] # r
      BY <1>0, <2>1, ElementOfSeq, Zenon DEF PoolTypes, SentQueued
    <3> QED
      BY <1>0, <1>1, <2>1, <3>1, Zenon DEF SentQueued
  <2>7. Started' /\ UploadsOwned'
    BY <1>0, <2>1, <2>2 DEF Started, UploadsOwned
  <2>8. CpuHolders' = CpuHolders /\ InFlight' = InFlight
    BY <1>0, <2>1, <2>2 DEF CpuHolders, InFlight
  <2> QED
    BY <2>1, <2>3, <2>4, <2>5, <2>6, <2>7, <2>8, OwnersUnchanged, Zenon DEF Local
<1> QED
  BY <1>2, <1>3, <1>4

-----------------------------------------------------------------------------
\* The worker takes the job out of its channel.
LEMMA WorkerStarts ==
  ASSUME Local, NEW w \in Workers, StartJob(w)
  PROVE  Preserves
<1>0. /\ stage \in [Requests -> Stages] /\ inFlight \in Nat /\ cpu \in Nat
      /\ phase \in [Requests -> Phases] /\ uploads \subseteq Requests
      /\ PoolTypes /\ NoJobYet /\ ClosureOwned /\ InlineInPool /\ SentQueued /\ SentOnce
      /\ Started /\ DoneReturned /\ UploadsOwned /\ AnswerAfterCleanup
  BY DEF Local, TypeOK
<1>1. /\ caller \in [Requests -> CallerStates] /\ mailbox \in [Workers -> Seq(Requests)]
      /\ pc \in [Workers -> WorkerStates]
      /\ job \in [Workers -> Requests \cup {NoJob}]
  BY <1>0 DEF PoolTypes
<1> DEFINE r == Head(mailbox[w])
<1>2. /\ UNCHANGED <<stage, inFlight, cpu, uploads, caller>>
      /\ pc[w] = "recv" /\ mailbox[w] # <<>>
      /\ job' = [job EXCEPT ![w] = r]
      /\ mailbox' = [mailbox EXCEPT ![w] = Tail(@)]
      /\ pc' = [pc EXCEPT ![w] = "running"]
      /\ phase' = [phase EXCEPT ![r] = "seed"]
  BY DEF StartJob, Receive
<1>3. mailbox[w] \in Seq(Requests) /\ Len(mailbox[w]) >= 1 /\ r = mailbox[w][1]
  BY <1>1, <1>2, HeadTailProperties, EmptySeq
<1>4. r \in Requests /\ phase[r] = "queued" /\ caller[r] \in {"sent", "gone"}
  BY <1>0, <1>3, ElementOfSeq DEF SentQueued
<1>5. \A v \in Workers : \A i \in 1 .. Len(mailbox'[v]) :
        /\ mailbox'[v][i] \in Requests
        /\ \/ v # w /\ i \in 1 .. Len(mailbox[v]) /\ mailbox'[v][i] = mailbox[v][i]
           \/ v = w /\ i + 1 \in 1 .. Len(mailbox[v]) /\ mailbox'[v][i] = mailbox[v][i + 1]
  <2> SUFFICES ASSUME NEW v \in Workers, NEW i \in 1 .. Len(mailbox'[v])
               PROVE  /\ mailbox'[v][i] \in Requests
                      /\ \/ v # w /\ i \in 1 .. Len(mailbox[v]) /\ mailbox'[v][i] = mailbox[v][i]
                         \/ v = w /\ i + 1 \in 1 .. Len(mailbox[v])
                            /\ mailbox'[v][i] = mailbox[v][i + 1]
    OBVIOUS
  <2>1. CASE v # w
    <3>1. mailbox'[v] = mailbox[v] /\ mailbox[v] \in Seq(Requests)
      BY <1>1, <1>2, <2>1
    <3> QED
      BY <2>1, <3>1, ElementOfSeq
  <2>2. CASE v = w
    <3>1. mailbox'[w] = Tail(mailbox[w])
      BY <1>1, <1>2
    <3>2. Len(mailbox'[w]) = Len(mailbox[w]) - 1 /\ Len(mailbox[w]) \in Nat
      <4>1. Len(Tail(mailbox[w])) = Len(mailbox[w]) - 1
        BY <1>2, <1>3, HeadTailProperties
      <4>2. Len(mailbox[w]) \in Nat
        BY <1>3, LenProperties
      <4> QED
        BY <3>1, <4>1, <4>2
    <3>3. i \in 1 .. Len(mailbox[w]) - 1 /\ i + 1 \in 1 .. Len(mailbox[w])
      BY <2>2, <3>2
    <3>4. mailbox'[w][i] = mailbox[w][i + 1]
      BY <1>2, <1>3, <3>1, <3>2, <3>3, HeadTailProperties, Zenon
    <3>5. mailbox[w][i + 1] \in Requests
      BY <1>3, <3>3, ElementOfSeq
    <3> QED
      BY <2>2, <3>3, <3>4, <3>5
  <2> QED
    BY <2>1, <2>2
<1>6. \A v \in Workers : \A i \in 1 .. Len(mailbox'[v]) : mailbox'[v][i] # r
  <2> SUFFICES ASSUME NEW v \in Workers, NEW i \in 1 .. Len(mailbox'[v]), mailbox'[v][i] = r
               PROVE  FALSE
    OBVIOUS
  <2>1. 1 \in 1 .. Len(mailbox[w])
    BY <1>3
  <2>2. CASE v # w /\ i \in 1 .. Len(mailbox[v]) /\ mailbox[v][i] = mailbox[w][1]
    BY <1>0, <2>1, <2>2 DEF SentOnce
  <2>3. CASE i + 1 \in 1 .. Len(mailbox[w]) /\ mailbox[w][i + 1] = mailbox[w][1]
    <3>1. i + 1 = 1
      BY <1>0, <2>1, <2>3 DEF SentOnce
    <3>2. i \in Nat /\ i >= 1
      BY <1>1, <1>5
    <3> QED
      BY <3>1, <3>2
  <2> QED
    BY <1>3, <1>5, <2>2, <2>3
<1>7. TypeOK'
  BY <1>0, <1>2, <1>4 DEF TypeOK, Phases
<1>8. PoolTypes'
  <2>1. Tail(mailbox[w]) \in Seq(Requests)
    BY <1>2, <1>3, HeadTailProperties
  <2> QED
    BY <1>1, <1>2, <1>4, <2>1 DEF PoolTypes, WorkerStates
<1>9. NoJobYet' /\ ClosureOwned' /\ InlineInPool' /\ DoneReturned' /\ AnswerAfterCleanup'
  BY <1>0, <1>2, <1>4
  DEF NoJobYet, ClosureOwned, InlineInPool, DoneReturned, AnswerAfterCleanup
<1>10. SentQueued'
  <2> SUFFICES ASSUME NEW v \in Workers, NEW i \in 1 .. Len(mailbox'[v])
               PROVE  phase'[mailbox'[v][i]] = "queued" /\ caller'[mailbox'[v][i]] \in {"sent", "gone"}
    BY DEF SentQueued
  <2> DEFINE q == mailbox'[v][i]
  <2>1. q \in Requests /\ q # r
    BY <1>5, <1>6, Zenon
  <2>2. phase[q] = "queued" /\ caller[q] \in {"sent", "gone"}
    <3>1. PICK k \in 1 .. Len(mailbox[v]) : q = mailbox[v][k]
      BY <1>5
    <3>2. SentQueued
      BY <1>0
    <3> QED
      BY <3>1, <3>2, Zenon DEF SentQueued
  <2>3. phase'[q] = phase[q] /\ caller'[q] = caller[q]
    BY <1>0, <1>2, <2>1
  <2> QED
    BY <2>2, <2>3
<1>11. SentOnce'
  <2> SUFFICES ASSUME NEW v1 \in Workers, NEW v2 \in Workers,
                      NEW i \in 1 .. Len(mailbox'[v1]), NEW j \in 1 .. Len(mailbox'[v2]),
                      mailbox'[v1][i] = mailbox'[v2][j]
               PROVE  v1 = v2 /\ i = j
    BY DEF SentOnce
  <2>1. i \in Int /\ j \in Int
    OBVIOUS
  <2>2. \/ v1 # w /\ i \in 1 .. Len(mailbox[v1]) /\ mailbox'[v1][i] = mailbox[v1][i]
        \/ v1 = w /\ i + 1 \in 1 .. Len(mailbox[v1]) /\ mailbox'[v1][i] = mailbox[v1][i + 1]
    BY <1>5
  <2>3. \/ v2 # w /\ j \in 1 .. Len(mailbox[v2]) /\ mailbox'[v2][j] = mailbox[v2][j]
        \/ v2 = w /\ j + 1 \in 1 .. Len(mailbox[v2]) /\ mailbox'[v2][j] = mailbox[v2][j + 1]
    BY <1>5
  <2>4. SentOnce
    BY <1>0
  <2>5. CASE v1 # w /\ v2 # w
    <3>1. i \in 1 .. Len(mailbox[v1]) /\ j \in 1 .. Len(mailbox[v2])
          /\ mailbox[v1][i] = mailbox[v2][j]
      BY <2>2, <2>3, <2>5, Zenon
    <3> QED
      BY <2>4, <3>1 DEF SentOnce
  <2>6. CASE v1 # w /\ v2 = w
    <3>1. i \in 1 .. Len(mailbox[v1]) /\ j + 1 \in 1 .. Len(mailbox[v2])
          /\ mailbox[v1][i] = mailbox[v2][j + 1]
      BY <2>2, <2>3, <2>6, Zenon
    <3>2. v1 = v2
      BY <2>4, <3>1 DEF SentOnce
    <3> QED
      BY <2>6, <3>2
  <2>7. CASE v1 = w /\ v2 # w
    <3>1. i + 1 \in 1 .. Len(mailbox[v1]) /\ j \in 1 .. Len(mailbox[v2])
          /\ mailbox[v1][i + 1] = mailbox[v2][j]
      BY <2>2, <2>3, <2>7
    <3>2. v1 = v2
      BY <2>4, <3>1 DEF SentOnce
    <3> QED
      BY <2>7, <3>2
  <2>8. CASE v1 = w /\ v2 = w
    <3>1. i + 1 \in 1 .. Len(mailbox[v1]) /\ j + 1 \in 1 .. Len(mailbox[v2])
          /\ mailbox[v1][i + 1] = mailbox[v2][j + 1]
      BY <2>2, <2>3, <2>8
    <3>2. i + 1 = j + 1
      BY <2>4, <3>1 DEF SentOnce
    <3> QED
      BY <2>1, <2>8, <3>2
  <2> QED
    BY <2>5, <2>6, <2>7, <2>8
<1>12. Started'
  BY <1>0, <1>1, <1>2, <1>4, Zenon DEF Started
<1>13. UploadsOwned'
  BY <1>0, <1>2, <1>4 DEF UploadsOwned
<1>14. CpuHolders' = CpuHolders /\ InFlight' = InFlight
  BY <1>0, <1>2, <1>4 DEF CpuHolders, InFlight
<1> QED
  BY <1>2, <1>7, <1>8, <1>9, <1>10, <1>11, <1>12, <1>13, <1>14, OwnersUnchanged, Zenon DEF Local

\* The worker becomes idle, frees its permit and replies.
LEMMA WorkerEnds ==
  ASSUME Local, NEW w \in Workers, WorkerReturns(w)
  PROVE  Preserves
<1>0. /\ stage \in [Requests -> Stages] /\ inFlight \in Nat /\ cpu \in Nat
      /\ phase \in [Requests -> Phases] /\ uploads \subseteq Requests
      /\ PoolTypes /\ NoJobYet /\ ClosureOwned /\ InlineInPool /\ SentQueued /\ SentOnce
      /\ Started /\ DoneReturned /\ UploadsOwned /\ AnswerAfterCleanup
  BY DEF Local, TypeOK
<1>1. /\ caller \in [Requests -> CallerStates] /\ mailbox \in [Workers -> Seq(Requests)]
      /\ pc \in [Workers -> WorkerStates]
      /\ job \in [Workers -> Requests \cup {NoJob}]
  BY <1>0 DEF PoolTypes
<1>2. UNCHANGED <<stage, inFlight, cpu, phase, uploads, mailbox>>
  BY DEF WorkerReturns, PushIdle, DropPermit, Complete
<1>3. PoolTypes' /\ Started' /\ DoneReturned' /\ NoJobYet' /\ ClosureOwned' /\ InlineInPool'
      /\ SentQueued'
  <2>1. CASE PushIdle(w) /\ phase[job[w]] = "returned"
    <3>1. pc' = [pc EXCEPT ![w] = "pushed"] /\ pc[w] = "running" /\ UNCHANGED <<caller, job>>
      BY <2>1 DEF PushIdle
    <3>2. PoolTypes'
      BY <1>1, <1>2, <3>1 DEF PoolTypes, WorkerStates
    <3>3. Started'
      BY <1>0, <1>1, <1>2, <2>1, <3>1 DEF Started
    <3>4. DoneReturned' /\ NoJobYet' /\ ClosureOwned' /\ InlineInPool'
      BY <1>0, <1>2, <3>1 DEF DoneReturned, NoJobYet, ClosureOwned, InlineInPool
    <3>5. SentQueued'
      BY <1>0, <1>2, <3>1 DEF SentQueued
    <3> QED
      BY <3>2, <3>3, <3>4, <3>5
  <2>2. CASE DropPermit(w)
    <3>1. pc' = [pc EXCEPT ![w] = "released"] /\ pc[w] = "pushed" /\ UNCHANGED <<caller, job>>
      BY <2>2 DEF DropPermit
    <3>2. PoolTypes'
      BY <1>1, <1>2, <3>1 DEF PoolTypes, WorkerStates
    <3>3. Started'
      BY <1>0, <1>1, <1>2, <3>1, Zenon DEF Started
    <3>4. DoneReturned' /\ NoJobYet' /\ ClosureOwned' /\ InlineInPool'
      BY <1>0, <1>2, <3>1 DEF DoneReturned, NoJobYet, ClosureOwned, InlineInPool
    <3>5. SentQueued'
      BY <1>0, <1>2, <3>1 DEF SentQueued
    <3> QED
      BY <3>2, <3>3, <3>4, <3>5
  <2>3. CASE Complete(w)
    <3> DEFINE r == job[w]
    <3>1. /\ pc' = [pc EXCEPT ![w] = "recv"] /\ pc[w] = "released"
          /\ job' = [job EXCEPT ![w] = NoJob]
          /\ caller' = [caller EXCEPT ![r] = IF caller[r] = "sent" THEN "done" ELSE caller[r]]
      BY <2>3 DEF Complete, Answered
    <3>2. r \in Requests /\ phase[r] = "returned"
      BY <1>0, <3>1 DEF Started
    <3>3. PoolTypes'
      BY <1>1, <1>2, <3>1, <3>2, Zenon DEF PoolTypes, WorkerStates, CallerStates
    <3>4. Started'
      BY <1>0, <1>1, <1>2, <3>1, Zenon DEF Started
    <3>5. DoneReturned' /\ NoJobYet' /\ ClosureOwned' /\ InlineInPool'
      BY <1>0, <1>1, <1>2, <3>1, <3>2, Zenon DEF DoneReturned, NoJobYet, ClosureOwned, InlineInPool
    <3>6. SentQueued'
      BY <1>0, <1>1, <1>2, <3>1, <3>2, ElementOfSeq, Zenon DEF SentQueued
    <3> QED
      BY <3>3, <3>4, <3>5, <3>6, Zenon
  <2> QED
    BY <2>1, <2>2, <2>3 DEF WorkerReturns
<1>4. TypeOK' /\ SentOnce' /\ UploadsOwned' /\ AnswerAfterCleanup'
  <2>1. TypeOK' /\ UploadsOwned' /\ AnswerAfterCleanup'
    BY <1>0, <1>2 DEF TypeOK, UploadsOwned, AnswerAfterCleanup
  <2>2. SentOnce'
    BY <1>0, <1>2, SentOnceKept
  <2> QED
    BY <2>1, <2>2
<1> QED
  BY <1>2, <1>3, <1>4, OwnersUnchanged, Zenon DEF Local, CpuHolders, InFlight

-----------------------------------------------------------------------------
\* A panic in the job, on a worker (which is lost) or inline (which unwinds
\* the handler).
LEMMA JobPanics ==
  ASSUME Local, NEW r \in Requests, Unwind(r), UNCHANGED mailbox,
         \/ \E w \in Workers :
              /\ pc[w] = "running" /\ job[w] = r
              /\ pc' = [pc EXCEPT ![w] = "dead"]
              /\ job' = [job EXCEPT ![w] = NoJob]
              /\ caller' = Answered(r, "failed")
              /\ UNCHANGED <<stage, inFlight>>
         \/ /\ caller[r] = "inline"
            /\ caller' = [caller EXCEPT ![r] = "failed"]
            /\ Leave(r, "crashed")
            /\ UNCHANGED <<pc, job>>
  PROVE  Preserves
<1>0. /\ stage \in [Requests -> Stages] /\ inFlight \in Nat /\ cpu \in Nat
      /\ phase \in [Requests -> Phases] /\ uploads \subseteq Requests
      /\ PoolTypes /\ NoJobYet /\ ClosureOwned /\ InlineInPool /\ SentQueued /\ SentOnce
      /\ Started /\ DoneReturned /\ UploadsOwned /\ AnswerAfterCleanup
  BY DEF Local, TypeOK
<1>1. /\ caller \in [Requests -> CallerStates] /\ mailbox \in [Workers -> Seq(Requests)]
      /\ pc \in [Workers -> WorkerStates]
      /\ job \in [Workers -> Requests \cup {NoJob}]
  BY <1>0 DEF PoolTypes
<1>2. /\ phase[r] \in {"seed", "php", "final"}
      /\ phase' = [phase EXCEPT ![r] = "dropped"]
      /\ uploads' = uploads \ {r}
      /\ cpu' = IF phase[r] = "final" THEN cpu ELSE cpu + 1
  BY DEF Unwind
<1>3. /\ stage[r] \notin Early /\ stage[r] # "answered"
      /\ caller[r] \notin {"waiting", "granted", "done"}
      /\ \A v \in Workers : \A i \in 1 .. Len(mailbox[v]) :
           mailbox[v][i] \in Requests /\ mailbox[v][i] # r
      /\ \A v \in Workers : pc[v] \in {"pushed", "released"} => job[v] # r
  BY <1>1, <1>2, RunningJob, ElementOfSeq, Zenon
<1>4. PICK c \in CallerStates \ {"waiting", "granted", "done"} :
        /\ caller' = [caller EXCEPT ![r] = c]
        /\ c = "inline" => caller[r] = "inline" /\ UNCHANGED stage
  BY <1>1, <1>3, Zenon DEF Answered, CallerStates
<1>5. PICK s \in Stages \ (Early \cup {"answered", "routing"}) :
        /\ stage' = [stage EXCEPT ![r] = s]
        /\ \/ s = stage[r] /\ inFlight' = inFlight
           \/ stage[r] = "pool" /\ s = "crashed" /\ inFlight' = inFlight + 1
  <2>1. CASE UNCHANGED <<stage, inFlight>>
    BY <1>0, <1>3, <2>1, Zenon DEF Early
  <2>2. CASE caller[r] = "inline" /\ Leave(r, "crashed")
    BY <1>0, <2>2, Zenon DEF Leave, Go, Stages, Final, Early, Queued, InlineInPool
  <2> QED
    BY <2>1, <2>2
<1>6. \A v \in Workers :
        /\ pc'[v] \in {"running", "pushed", "released"} => pc'[v] = pc[v] /\ job'[v] = job[v]
        /\ pc'[v] \in WorkerStates /\ job'[v] \in Requests \cup {NoJob}
  BY <1>1, Zenon DEF WorkerStates
<1>7. Local'
  <2>1. TypeOK'
    BY <1>0, <1>2, <1>5 DEF TypeOK, Phases
  <2>2. PoolTypes'
    <3>1. pc' \in [Workers -> WorkerStates]
      BY <1>1, Zenon DEF WorkerStates
    <3>2. job' \in [Workers -> Requests \cup {NoJob}]
      BY <1>1, Zenon
    <3> QED
      BY <1>1, <1>4, <3>1, <3>2, Zenon DEF PoolTypes
  <2>3. NoJobYet' /\ ClosureOwned' /\ DoneReturned' /\ AnswerAfterCleanup'
    BY <1>0, <1>1, <1>2, <1>3, <1>4, <1>5
    DEF NoJobYet, ClosureOwned, DoneReturned, AnswerAfterCleanup
  <2>4. InlineInPool'
    BY <1>0, <1>1, <1>4, <1>5, Zenon DEF InlineInPool
  <2>5. SentQueued' /\ SentOnce'
    <3>1. \A q \in Requests \ {r} : phase'[q] = phase[q] /\ caller'[q] = caller[q]
      BY <1>0, <1>1, <1>2, <1>4, Zenon
    <3>2. SentQueued'
      BY <1>0, <1>3, <3>1, SentQueuedKept, Zenon
    <3>3. SentOnce'
      BY <1>0, SentOnceKept
    <3> QED
      BY <3>2, <3>3
  <2>6. Started'
    BY <1>0, <1>2, <1>3, <1>6, Zenon DEF Started
  <2>7. UploadsOwned'
    BY <1>0, <1>2 DEF UploadsOwned
  <2> QED
    BY <2>1, <2>2, <2>3, <2>4, <2>5, <2>6, <2>7, Zenon DEF Local
<1>8. Moves(CpuHolders, CpuHolders', cpu, cpu')
  <2>0. stage[r] # "routing"
    BY <1>3, Zenon DEF Early
  <2>1. CASE phase[r] = "final"
    <3>1. CpuHolders' = CpuHolders
      BY <1>0, <1>2, <1>5, <2>0, <2>1, Zenon DEF CpuHolders
    <3> QED
      BY <3>1, <1>2, <2>1, Zenon DEF Moves
  <2>2. CASE phase[r] # "final"
    <3>1. r \in CpuHolders /\ CpuHolders' = CpuHolders \ {r}
      BY <1>0, <1>2, <1>5, <2>0, <2>2, Zenon DEF CpuHolders
    <3> QED
      BY <3>1, <1>2, <2>2, Zenon DEF Moves
  <2> QED
    BY <2>1, <2>2
<1>9. Moves(InFlight, InFlight', inFlight, inFlight')
  <2>1. CASE s = stage[r] /\ inFlight' = inFlight
    BY <1>0, <1>5, <2>1, Zenon DEF InFlight, Moves
  <2>2. CASE stage[r] = "pool" /\ s = "crashed" /\ inFlight' = inFlight + 1
    <3>1. r \in InFlight /\ InFlight' = InFlight \ {r}
      BY <1>0, <1>5, <2>2, Zenon DEF InFlight, Admitted, Queued
    <3> QED
      BY <3>1, <2>2 DEF Moves
  <2> QED
    BY <1>5, <2>1, <2>2, Zenon
<1> QED
  BY <1>7, <1>8, <1>9, Zenon DEF Preserves

\* The inline job returns its response to the client.
LEMMA InlineDone ==
  ASSUME Local, NEW r \in Requests, InlineReturns(r)
  PROVE  Preserves
<1>0. /\ stage \in [Requests -> Stages] /\ inFlight \in Nat /\ cpu \in Nat
      /\ phase \in [Requests -> Phases] /\ uploads \subseteq Requests
      /\ PoolTypes /\ NoJobYet /\ ClosureOwned /\ InlineInPool /\ SentQueued /\ SentOnce
      /\ Started /\ DoneReturned /\ UploadsOwned /\ AnswerAfterCleanup
  BY DEF Local, TypeOK
<1>1. caller \in [Requests -> CallerStates] /\ mailbox \in [Workers -> Seq(Requests)]
  BY <1>0 DEF PoolTypes
<1>2. /\ phase[r] = "returned" /\ caller[r] = "inline" /\ inFlight' = inFlight + 1
      /\ caller' = [caller EXCEPT ![r] = "done"]
      /\ stage' = [stage EXCEPT ![r] = "answered"]
      /\ UNCHANGED <<cpu, phase, uploads, mailbox, pc, job>>
  BY DEF InlineReturns, InlineEnd, Leave, Go
<1>3. stage[r] = "pool"
  BY <1>0, <1>2 DEF InlineInPool
<1>4. TypeOK'
  BY <1>0, <1>2 DEF TypeOK, Stages, Final
<1>5. PoolTypes'
  BY <1>0, <1>2 DEF PoolTypes, CallerStates
<1>6. NoJobYet' /\ ClosureOwned' /\ InlineInPool' /\ DoneReturned' /\ AnswerAfterCleanup'
  BY <1>0, <1>1, <1>2
  DEF NoJobYet, ClosureOwned, InlineInPool, DoneReturned, AnswerAfterCleanup, Early, Queued
<1>7. SentQueued'
  <2>1. \A v \in Workers : \A i \in 1 .. Len(mailbox[v]) :
          mailbox[v][i] \in Requests /\ mailbox[v][i] # r
    BY <1>0, <1>1, <1>2, ElementOfSeq, Zenon DEF SentQueued
  <2> QED
    BY <1>0, <1>1, <1>2, <2>1, Zenon DEF SentQueued
<1>8. SentOnce' /\ Started' /\ UploadsOwned'
  <2>1. SentOnce'
    BY <1>0, <1>2, SentOnceKept
  <2>2. Started' /\ UploadsOwned'
    BY <1>0, <1>2 DEF Started, UploadsOwned
  <2> QED
    BY <2>1, <2>2
<1>9. CpuHolders' = CpuHolders
  BY <1>0, <1>2, <1>3 DEF CpuHolders
<1>10. r \in InFlight /\ InFlight' = InFlight \ {r}
  BY <1>0, <1>2, <1>3, Zenon DEF InFlight, Admitted, Queued
<1> QED
  BY <1>2, <1>4, <1>5, <1>6, <1>7, <1>8, <1>9, <1>10, Zenon DEF Local, Preserves, Moves

\* The client goes away while its handler is inside execute().
LEMMA ClientLeavesPool ==
  ASSUME Local, NEW r \in Requests, DisconnectInPool(r)
  PROVE  Preserves
<1>0. /\ stage \in [Requests -> Stages] /\ inFlight \in Nat /\ cpu \in Nat
      /\ phase \in [Requests -> Phases] /\ uploads \subseteq Requests
      /\ PoolTypes /\ NoJobYet /\ ClosureOwned /\ InlineInPool /\ SentQueued /\ SentOnce
      /\ Started /\ DoneReturned /\ UploadsOwned /\ AnswerAfterCleanup
  BY DEF Local, TypeOK
<1>1. caller \in [Requests -> CallerStates] /\ mailbox \in [Workers -> Seq(Requests)]
  BY <1>0 DEF PoolTypes
<1>2. /\ stage[r] = "pool" /\ stage' = [stage EXCEPT ![r] = "gone"]
      /\ inFlight' = inFlight + 1 /\ UNCHANGED <<uploads, mailbox, pc, job>>
  BY DEF DisconnectInPool, Leave, Go, Abandon, pool
<1>3. r \in InFlight /\ InFlight' = InFlight \ {r}
  BY <1>0, <1>2 DEF InFlight, Admitted, Queued
<1>4. CASE caller[r] = "waiting"
  <2>1. /\ caller' = [caller EXCEPT ![r] = "gone"] /\ cpu' = cpu + 1
        /\ phase' = [phase EXCEPT ![r] = "dropped"]
    BY <1>4 DEF DisconnectInPool, Abandon
  <2>2. phase[r] = "queued"
    BY <1>0, <1>4 DEF ClosureOwned
  <2>3. \A v \in Workers : \A i \in 1 .. Len(mailbox[v]) :
          mailbox[v][i] \in Requests /\ mailbox[v][i] # r
    BY <1>0, <1>1, <1>4, ElementOfSeq, Zenon DEF SentQueued
  <2>4. TypeOK'
    BY <1>0, <1>2, <2>1 DEF TypeOK, Stages, Final, Phases
  <2>5. PoolTypes'
    BY <1>0, <1>2, <2>1, Zenon DEF PoolTypes, CallerStates
  <2>6. NoJobYet' /\ ClosureOwned' /\ InlineInPool' /\ DoneReturned' /\ AnswerAfterCleanup'
    BY <1>0, <1>1, <1>2, <1>4, <2>1, <2>2, Zenon
    DEF NoJobYet, ClosureOwned, InlineInPool, DoneReturned, AnswerAfterCleanup, Early, Queued
  <2>7. SentQueued' /\ SentOnce'
    <3>1. \A q \in Requests \ {r} : phase'[q] = phase[q] /\ caller'[q] = caller[q]
      BY <1>0, <1>1, <2>1, Zenon
    <3>2. SentQueued'
      BY <1>0, <1>2, <2>3, <3>1, SentQueuedKept, Zenon
    <3>3. SentOnce'
      BY <1>0, <1>2, SentOnceKept
    <3> QED
      BY <3>2, <3>3
  <2>8. Started' /\ UploadsOwned'
    BY <1>0, <1>2, <2>1, <2>2, Zenon DEF Started, UploadsOwned
  <2>9. r \in CpuHolders /\ CpuHolders' = CpuHolders \ {r}
    BY <1>0, <1>2, <2>1, <2>2, Zenon DEF CpuHolders
  <2> QED
    BY <1>2, <1>3, <2>1, <2>4, <2>5, <2>6, <2>7, <2>8, <2>9, Zenon DEF Local, Preserves, Moves
<1>5. CASE caller[r] # "waiting"
  <2>1. PICK c \in {"gone", "done", "failed"} :
          /\ caller' = [caller EXCEPT ![r] = c] /\ UNCHANGED <<phase, cpu>>
          /\ c = "gone" => caller[r] = "sent"
          /\ c # "gone" => caller[r] = c
    BY <1>1, <1>5 DEF DisconnectInPool, Abandon, pool
  <2>2. TypeOK'
    BY <1>0, <1>2, <2>1 DEF TypeOK, Stages, Final
  <2>3. PoolTypes'
    BY <1>0, <1>2, <2>1, Zenon DEF PoolTypes, CallerStates
  <2>4. NoJobYet' /\ ClosureOwned' /\ InlineInPool' /\ DoneReturned' /\ AnswerAfterCleanup'
    BY <1>0, <1>1, <1>2, <2>1, Zenon
    DEF NoJobYet, ClosureOwned, InlineInPool, DoneReturned, AnswerAfterCleanup, Early, Queued
  <2>5. SentQueued'
    BY <1>0, <1>1, <1>2, <2>1, ElementOfSeq DEF SentQueued
  <2>6. SentOnce'
    BY <1>0, <1>2, SentOnceKept, Zenon
  <2>7. Started'
    BY <1>0, <1>2, <2>1 DEF Started
  <2>8. UploadsOwned'
    BY <1>0, <1>2, <2>1, Zenon DEF UploadsOwned
  <2>9. CpuHolders' = CpuHolders
    BY <1>0, <1>2, <2>1 DEF CpuHolders
  <2> QED
    BY <1>2, <1>3, <2>1, <2>2, <2>3, <2>4, <2>5, <2>6, <2>7, <2>8, <2>9 DEF Local, Preserves, Moves
<1> QED
  BY <1>4, <1>5
-----------------------------------------------------------------------------
\* Each action of Next preserves the invariant.
LEMMA StepPreserves ==
  ASSUME Local, Next
  PROVE  Preserves
<1>1. ASSUME NEW r \in Requests, HandlerStep(r)
      PROVE  Preserves
  <2>1. CASE InlinePanic(r)
    <3>1. /\ caller[r] = "inline" /\ caller' = [caller EXCEPT ![r] = "failed"]
          /\ Leave(r, "crashed") /\ Unwind(r) /\ UNCHANGED <<mailbox, pc, job>>
      BY <2>1 DEF InlinePanic, InlineEnd
    <3> QED
      BY <3>1, JobPanics, Zenon
  <2> QED
    BY <1>1, <2>1, HandlerAlone, CpuTaken, PoolCaller, InlineDone, ClientLeavesPool, Zenon
    DEF HandlerStep
<1>2. ASSUME NEW r \in Requests, JobStep(r)
      PROVE  Preserves
  BY <1>2, JobAlone
<1>3. ASSUME NEW w \in Workers, WorkerStep(w)
      PROVE  Preserves
  <2>1. CASE WorkerPanic(w)
    <3>1. /\ pc[w] = "running" /\ Unwind(job[w]) /\ UNCHANGED <<mailbox, stage, inFlight>>
          /\ pc' = [pc EXCEPT ![w] = "dead"] /\ job' = [job EXCEPT ![w] = NoJob]
          /\ caller' = Answered(job[w], "failed")
      BY <2>1 DEF WorkerPanic, Panic
    <3>2. job[w] \in Requests
      BY <3>1 DEF Local, Started
    <3> QED
      BY <3>1, <3>2, JobPanics, Zenon
  <2> QED
    BY <1>3, <2>1, WorkerStarts, WorkerEnds, Zenon DEF WorkerStep
<1> QED
  BY <1>1, <1>2, <1>3, Zenon DEF Next

\* Every step of a handler, a job or a worker preserves the invariant.
LEMMA PipeStep == PipeInv /\ [Next]_vars => PipeInv'
<1> SUFFICES ASSUME PipeInv, [Next]_vars PROVE PipeInv'
  OBVIOUS
<1>1. CASE Next
  <2>1. Preserves
    BY <1>1, StepPreserves DEF PipeInv
  <2>2. cpu \in Int /\ inFlight \in Int /\ CpuLimit \in Int /\ InFlightLimit \in Int
    BY LimitsPositive DEF PipeInv, Local, TypeOK
  <2>3. CpuHolders \in SUBSET Requests /\ InFlight \in SUBSET Requests
    BY DEF CpuHolders, InFlight
  <2>4. CpuPermitsConserved'
    <3>1. cpu + Cardinality(CpuHolders) = CpuLimit
      BY DEF PipeInv, CpuPermitsConserved
    <3>2. cpu' + Cardinality(CpuHolders') = CpuLimit
      BY <2>1, <2>2, <2>3, <3>1, MovesBalance, Zenon DEF Preserves
    <3> QED
      BY <3>2 DEF CpuPermitsConserved
  <2>5. InFlightConserved'
    <3>1. inFlight + Cardinality(InFlight) = InFlightLimit
      BY DEF PipeInv, InFlightConserved
    <3>2. inFlight' + Cardinality(InFlight') = InFlightLimit
      BY <2>1, <2>2, <2>3, <3>1, MovesBalance, Zenon DEF Preserves
    <3> QED
      BY <3>2 DEF InFlightConserved
  <2> QED
    BY <2>1, <2>4, <2>5 DEF PipeInv, Preserves
<1>2. CASE UNCHANGED vars
  <2>1. UNCHANGED <<stage, inFlight, cpu, phase, uploads, caller, mailbox, pc, job>>
    BY <1>2 DEF vars, pool
  <2>2. TypeOK' /\ PoolTypes'
    BY <2>1 DEF PipeInv, Local, TypeOK, PoolTypes
  <2>3. NoJobYet' /\ ClosureOwned' /\ InlineInPool' /\ DoneReturned'
    BY <2>1 DEF PipeInv, Local, NoJobYet, ClosureOwned, InlineInPool, DoneReturned
  <2>4. SentQueued'
    BY <2>1 DEF PipeInv, Local, SentQueued
  <2>5. SentOnce'
    BY <2>1, SentOnceKept DEF PipeInv, Local
  <2>6. Started'
    BY <2>1 DEF PipeInv, Local, Started
  <2>7. UploadsOwned' /\ AnswerAfterCleanup'
    BY <2>1 DEF PipeInv, Local, UploadsOwned, AnswerAfterCleanup
  <2>8. CpuHolders' = CpuHolders /\ InFlight' = InFlight
    BY <2>1 DEF CpuHolders, InFlight
  <2>9. CpuPermitsConserved' /\ InFlightConserved'
    BY <2>1, <2>8 DEF PipeInv, CpuPermitsConserved, InFlightConserved
  <2> QED
    BY <2>2, <2>3, <2>4, <2>5, <2>6, <2>7, <2>9, Zenon DEF PipeInv, Local
<1> QED
  BY <1>1, <1>2

\* The inductive invariant holds in every reachable state.
THEOREM PipelineInvariant == Spec => []PipeInv
BY PipeInit, PipeStep, PTL DEF Spec

\* The counters and maps of the pipeline keep their types: no semaphore is
\* ever over-drawn.
THEOREM PipelineTypeCorrect == Spec => []TypeOK
<1>1. PipeInv => TypeOK
  BY DEF PipeInv, Local
<1> QED
  BY <1>1, PipelineInvariant, PTL

\* No permit of the CPU semaphore is lost or duplicated, for any limits and
\* any number of requests, timeouts, panics and disconnects.
THEOREM CpuPermitsAreConserved == Spec => []CpuPermitsConserved
<1>1. PipeInv => CpuPermitsConserved
  BY DEF PipeInv
<1> QED
  BY <1>1, PipelineInvariant, PTL

\* No in-flight permit is lost or duplicated.
THEOREM InFlightPermitsAreConserved == Spec => []InFlightConserved
<1>1. PipeInv => InFlightConserved
  BY DEF PipeInv
<1> QED
  BY <1>1, PipelineInvariant, PTL

\* At most cpu_execution_limit requests execute PHP at the same time.
THEOREM PhpExecutionBounded == Spec => []PhpBounded
<1>1. PipeInv => PhpBounded
  <2> SUFFICES ASSUME PipeInv PROVE PhpBounded
    OBVIOUS
  <2>1. Executing \subseteq CpuHolders /\ CpuHolders \subseteq Requests
    BY DEF Executing, CpuHolders
  <2>2. IsFiniteSet(CpuHolders)
    BY <2>1, RequestsFinite, FS_Subset
  <2>3. Cardinality(Executing) <= Cardinality(CpuHolders) /\ IsFiniteSet(Executing)
    BY <2>1, <2>2, FS_Subset
  <2>4. Cardinality(Executing) \in Nat /\ Cardinality(CpuHolders) \in Nat
    BY <2>2, <2>3, FS_CardinalityType
  <2>5. cpu \in Nat /\ cpu + Cardinality(CpuHolders) = CpuLimit
    BY DEF PipeInv, Local, TypeOK, CpuPermitsConserved
  <2> QED
    BY <2>3, <2>4, <2>5 DEF PhpBounded
<1> QED
  BY <1>1, PipelineInvariant, PTL

\* Uploaded temporary files exist only while the job that wrote them runs.
THEOREM UploadsAreOwned == Spec => []UploadsOwned
<1>1. PipeInv => UploadsOwned
  BY DEF PipeInv, Local
<1> QED
  BY <1>1, PipelineInvariant, PTL

\* An answered client's job has returned, or it never had one.
THEOREM AnswersFollowCleanup == Spec => []AnswerAfterCleanup
<1>1. PipeInv => AnswerAfterCleanup
  BY DEF PipeInv, Local
<1> QED
  BY <1>1, PipelineInvariant, PTL

\* The ways on for a job.
JobMoves ==
  {<<"none", "queued">>, <<"queued", "seed">>, <<"queued", "dropped">>, <<"seed", "php">>,
   <<"seed", "returned">>, <<"seed", "dropped">>, <<"php", "final">>, <<"php", "dropped">>,
   <<"final", "returned">>, <<"final", "dropped">>}

\* A step moves at most one job, and only on.
LEMMA JobsMoveOn ==
  ASSUME Local, Next
  PROVE  \/ UNCHANGED phase
         \/ \E r \in Requests, p \in Phases :
              phase' = [phase EXCEPT ![r] = p] /\ <<phase[r], p>> \in JobMoves
<1> DEFINE On == \/ UNCHANGED phase
                 \/ \E r \in Requests, p \in Phases :
                      phase' = [phase EXCEPT ![r] = p] /\ <<phase[r], p>> \in JobMoves
<1>m. ASSUME NEW r \in Requests, NEW p \in Phases, phase' = [phase EXCEPT ![r] = p],
             <<phase[r], p>> \in JobMoves
      PROVE  On
  BY <1>m, Zenon
<1>u. ASSUME NEW r \in Requests, Unwind(r) PROVE On
  BY <1>u, <1>m, Zenon DEF Unwind, JobMoves, Phases
<1>1. ASSUME NEW r \in Requests, HandlerStep(r) PROVE On
  <2>1. CASE TryCpu(r) \/ CpuGranted(r)
    <3>1. \/ UNCHANGED phase
          \/ stage[r] \in {"cpu", "cpu_queued"} /\ phase' = [phase EXCEPT ![r] = "queued"]
      BY <2>1, Zenon DEF TryCpu, CpuGranted, WithPermit
    <3>2. stage[r] \in {"cpu", "cpu_queued"} => phase[r] = "none"
      BY Zenon DEF Local, NoJobYet, Early, Queued
    <3> QED
      BY <3>1, <3>2, <1>m, Zenon DEF JobMoves, Phases
  <2>2. CASE RunInline(r)
    <3>1. phase' = [phase EXCEPT ![r] = "seed"] /\ phase[r] = "queued"
      BY <2>2, Zenon DEF RunInline, DispatchInline, Local, ClosureOwned
    <3> QED
      BY <3>1, <1>m, Zenon DEF JobMoves, Phases
  <2>3. CASE InlinePanic(r)
    BY <2>3, <1>u DEF InlinePanic
  <2>4. CASE DisconnectInPool(r)
    <3>1. \/ UNCHANGED phase
          \/ caller[r] = "waiting" /\ phase' = [phase EXCEPT ![r] = "dropped"]
      BY <2>4, Zenon DEF DisconnectInPool
    <3>2. caller[r] = "waiting" => phase[r] = "queued"
      BY Zenon DEF Local, ClosureOwned
    <3> QED
      BY <3>1, <3>2, <1>m, Zenon DEF JobMoves, Phases
  <2>5. CASE \/ Arrive(r) \/ Admit(r) \/ Overload(r) \/ AnswerEarly(r) \/ BodyTimeout(r)
             \/ BodyRead(r) \/ Compiled(r) \/ CompileError(r)
    BY <2>5, Zenon DEF Arrive, Admit, Overload, AnswerEarly, BodyTimeout, BodyRead, Compiled,
       CompileError
  <2>6. CASE \/ QueueCpu(r) \/ CpuTimeout(r) \/ RouterEnd(r) \/ HandlerPanic(r)
             \/ PoolReply(r) \/ Disconnect(r)
    BY <2>6, Zenon DEF QueueCpu, CpuTimeout, RouterEnd, HandlerPanic, PoolReply, Disconnect
  <2>7. CASE PoolAcquire(r) \/ PoolDispatch(r) \/ InlineReturns(r)
    BY <2>7, Zenon DEF PoolAcquire, PoolDispatch, InlineReturns
  <2> QED
    BY <1>1, <2>1, <2>2, <2>3, <2>4, <2>5, <2>6, <2>7, Zenon DEF HandlerStep
<1>2. ASSUME NEW r \in Requests, JobStep(r) PROVE On
  BY <1>2, <1>m DEF JobStep, Seed, SeedFails, ScriptEnds, Finalize, JobMoves, Phases
<1>3. ASSUME NEW w \in Workers, WorkerStep(w) PROVE On
  <2>1. CASE StartJob(w)
    <3>1. mailbox[w] \in Seq(Requests) /\ mailbox[w] # <<>>
      BY <2>1 DEF StartJob, Receive, Local, PoolTypes
    <3>2. Head(mailbox[w]) = mailbox[w][1] /\ 1 \in 1 .. Len(mailbox[w])
      BY <3>1
    <3>3. Head(mailbox[w]) \in Requests /\ phase[Head(mailbox[w])] = "queued"
      BY <3>1, <3>2 DEF Local, SentQueued
    <3> QED
      BY <2>1, <3>3, <1>m, Zenon DEF StartJob, JobMoves, Phases
  <2>2. CASE WorkerReturns(w)
    BY <2>2, Zenon DEF WorkerReturns
  <2>3. CASE WorkerPanic(w)
    <3>1. job[w] \in Requests /\ Unwind(job[w])
      BY <2>3, Zenon DEF WorkerPanic, Panic, Local, Started
    <3> QED
      BY <3>1, <1>u
  <2> QED
    BY <1>3, <2>1, <2>2, <2>3, Zenon DEF WorkerStep
<1> QED
  BY <1>1, <1>2, <1>3, Zenon DEF Next

\* The closure of a request is run at most once, by a worker or inline, for any
\* number of workers and whatever panics or disconnects.
THEOREM JobsAreRunOnce == Spec => JobsRunOnce
<1>1. ASSUME PipeInv, [Next]_vars
      PROVE  [\A r \in Requests :
                /\ phase'[r] = "queued" => phase[r] \in {"none", "queued"}
                /\ phase'[r] = "seed" => phase[r] \in {"queued", "seed"}
                /\ phase[r] \in {"returned", "dropped"} => phase'[r] = phase[r]]_vars
  <2>1. CASE UNCHANGED vars
    BY <2>1
  <2>2. CASE UNCHANGED phase
    BY <2>2, Zenon
  <2>3. ASSUME NEW q \in Requests, NEW p \in Phases,
               phase' = [phase EXCEPT ![q] = p], <<phase[q], p>> \in JobMoves,
               NEW r \in Requests
        PROVE  /\ phase'[r] = "queued" => phase[r] \in {"none", "queued"}
               /\ phase'[r] = "seed" => phase[r] \in {"queued", "seed"}
               /\ phase[r] \in {"returned", "dropped"} => phase'[r] = phase[r]
    BY <1>1, <2>3 DEF JobMoves, PipeInv, Local, TypeOK
  <2> QED
    BY <1>1, <2>1, <2>2, <2>3, JobsMoveOn, Zenon DEF PipeInv
<1> QED
  BY <1>1, PipelineInvariant, PTL DEF Spec, JobsRunOnce

\* A step moves at most one handler, and none that has ended.
LEMMA HandlersMoveOn ==
  ASSUME Local, Next
  PROVE  \/ UNCHANGED stage
         \/ \E r \in Requests, s \in Stages :
              stage' = [stage EXCEPT ![r] = s] /\ stage[r] \notin Final
<1> DEFINE On == \/ UNCHANGED stage
                 \/ \E r \in Requests, s \in Stages :
                      stage' = [stage EXCEPT ![r] = s] /\ stage[r] \notin Final
<1>1. ASSUME NEW r \in Requests, HandlerStep(r) PROVE On
  <2>0. ASSUME NEW s \in Stages, Go(r, s), stage[r] \notin Final PROVE On
    BY <2>0, Zenon DEF Go
  <2> USE DEF Final, Stages, Admitted, Queued
  <2>1. CASE TryCpu(r) \/ CpuGranted(r)
    BY <2>1, <2>0 DEF TryCpu, CpuGranted, WithPermit
  <2>2. CASE PoolAcquire(r) \/ PoolDispatch(r) \/ RunInline(r)
    BY <2>2, Zenon DEF PoolAcquire, PoolDispatch, RunInline
  <2>3. CASE InlineReturns(r) \/ InlinePanic(r)
    <3>1. stage[r] = "pool"
      BY <2>3, Zenon DEF InlineReturns, InlinePanic, InlineEnd, Local, InlineInPool
    <3> QED
      BY <2>3, <2>0, <3>1 DEF InlineReturns, InlinePanic, Leave
  <2>4. CASE PoolReply(r) \/ DisconnectInPool(r) \/ Disconnect(r)
    BY <2>4, <2>0 DEF PoolReply, DisconnectInPool, Disconnect, Leave
  <2>5. CASE \/ Arrive(r) \/ Admit(r) \/ Overload(r) \/ AnswerEarly(r) \/ BodyTimeout(r)
             \/ BodyRead(r) \/ Compiled(r) \/ CompileError(r)
    BY <2>5, <2>0 DEF Arrive, Admit, Overload, AnswerEarly, BodyTimeout, BodyRead, Compiled,
       CompileError, Leave
  <2>6. CASE QueueCpu(r) \/ CpuTimeout(r) \/ RouterEnd(r) \/ HandlerPanic(r)
    BY <2>6, <2>0 DEF QueueCpu, CpuTimeout, RouterEnd, HandlerPanic, Leave
  <2> QED
    BY <1>1, <2>1, <2>2, <2>3, <2>4, <2>5, <2>6, Zenon DEF HandlerStep
<1>2. ASSUME NEW r \in Requests, JobStep(r) PROVE On
  BY <1>2, Zenon DEF JobStep, Seed, SeedFails, ScriptEnds, Finalize
<1>3. ASSUME NEW w \in Workers, WorkerStep(w) PROVE On
  BY <1>3, Zenon DEF WorkerStep, StartJob, WorkerReturns, WorkerPanic
<1> QED
  BY <1>1, <1>2, <1>3, Zenon DEF Next

\* Every client gets at most one response.
THEOREM RequestsEndOnce == Spec => AnswersAreFinal
<1>1. ASSUME PipeInv, [Next]_vars
      PROVE  [\A r \in Requests : stage[r] \in Final => stage'[r] = stage[r]]_vars
  <2>1. CASE UNCHANGED vars
    BY <2>1
  <2>2. ASSUME NEW q \in Requests, NEW s \in Stages,
               stage' = [stage EXCEPT ![q] = s], stage[q] \notin Final,
               NEW r \in Requests, stage[r] \in Final
        PROVE  stage'[r] = stage[r]
    BY <1>1, <2>2 DEF PipeInv, Local, TypeOK
  <2> QED
    BY <1>1, <2>1, <2>2, HandlersMoveOn, Zenon DEF PipeInv
<1> QED
  BY <1>1, PipelineInvariant, PTL DEF Spec, AnswersAreFinal
-----------------------------------------------------------------------------
(***************************************************************************)
(* The worker pool, for any number of workers and requests.                *)
(***************************************************************************)
\* The pool's inductive invariant: each worker is idle, busy with one job or lost,
\* and the stack, the permits and the lost workers add up.
PoolInv ==
  /\ PoolTypeOK
  /\ IdleDistinct
  /\ IdleWorkersReceive
  /\ OneJobPerBusyWorker
  /\ PermitsMatchWorkers
  /\ InlineOnlyWhenDegraded
-----------------------------------------------------------------------------
\* The sets counted by PermitsMatchWorkers are finite.
LEMMA CountedSetsFinite ==
  /\ IsFiniteSet(Granted) /\ Cardinality(Granted) \in Nat
  /\ IsFiniteSet(Dead)    /\ Cardinality(Dead) \in Nat
  /\ IsFiniteSet(Pushed)  /\ Cardinality(Pushed) \in Nat
<1>1. IsFiniteSet(Workers)
  BY FS_Interval, NumWorkersPositive DEF Workers
<1>2. /\ Granted \subseteq Requests
      /\ Dead \subseteq Workers
      /\ Pushed \subseteq Workers
  BY DEF Granted, Dead, Pushed
<1> QED
  BY <1>1, <1>2, RequestsFinite, FS_Subset, FS_CardinalityType, Zenon

\* PhpWorkerPool::new establishes the invariant.
LEMMA PoolInitInv == PoolInit => PoolInv
<1> SUFFICES ASSUME PoolInit PROVE PoolInv
  OBVIOUS
<1> USE NumWorkersPositive
<1>1. PoolTypeOK
  BY DEF PoolInit, PoolTypeOK, Workers, CallerStates, WorkerStates
<1>2. Len(idle) = NumWorkers /\ \A i \in 1 .. Len(idle) : idle[i] = NumWorkers - i
  BY DEF PoolInit
<1>3. IdleDistinct
  BY <1>2 DEF IdleDistinct
<1>4. IdleWorkersReceive
  BY <1>2 DEF PoolInit, IdleWorkersReceive, IdleSet, Workers
<1>5. Workers \subseteq IdleSet
  <2> SUFFICES ASSUME NEW w \in Workers PROVE w \in IdleSet
    OBVIOUS
  <2>1. NumWorkers - w \in 1 .. Len(idle) /\ idle[NumWorkers - w] = w
    BY <1>2 DEF Workers
  <2> QED BY <2>1 DEF IdleSet
<1>6. OneJobPerBusyWorker
  BY <1>5 DEF OneJobPerBusyWorker
<1>7. Granted = {} /\ Dead = {} /\ Pushed = {}
  BY DEF PoolInit, Granted, Dead, Pushed
<1>8. PermitsMatchWorkers
  BY <1>2, <1>7, FS_EmptySet DEF PoolInit, PermitsMatchWorkers
<1>9. InlineOnlyWhenDegraded
  BY DEF PoolInit, InlineOnlyWhenDegraded
<1> QED
  BY <1>1, <1>3, <1>4, <1>6, <1>8, <1>9, Zenon DEF PoolInv

\* What idle.pop() leaves of the stack.
LEMMA PopFacts ==
  ASSUME NEW s \in Seq(Workers), s # <<>>, NEW t, t = SubSeq(s, 1, Len(s) - 1)
  PROVE  /\ Len(s) \in Nat \ {0}
         /\ t \in Seq(Workers)
         /\ Len(t) = Len(s) - 1
         /\ \A i \in 1 .. Len(t) : t[i] = s[i]
<1>1. Len(s) \in Nat \ {0}
  OBVIOUS
<1>2. \A i \in 1 .. Len(s) - 1 : s[i] \in Workers
  BY <1>1
<1>3. /\ t \in Seq(Workers)
      /\ Len(t) = IF 1 <= Len(s) - 1 THEN Len(s) - 1 - 1 + 1 ELSE 0
      /\ \A i \in 1 .. Len(s) - 1 - 1 + 1 : t[i] = s[1 + i - 1]
  BY <1>1, <1>2, SubSeqProperties
<1>4. Len(t) = Len(s) - 1
  <2>1. ASSUME NEW n \in Nat \ {0}
        PROVE  (IF 1 <= n - 1 THEN n - 1 - 1 + 1 ELSE 0) = n - 1
    OBVIOUS
  <2> QED BY <1>1, <1>3, <2>1, Zenon
<1>5. ASSUME NEW i \in 1 .. Len(t) PROVE t[i] = s[i]
  <2>1. i \in 1 .. Len(s) - 1 - 1 + 1 /\ 1 + i - 1 = i
    BY <1>1, <1>4
  <2>2. t[i] = s[1 + i - 1]
    BY <1>3, <2>1
  <2> QED BY <2>1, <2>2
<1> QED
  BY <1>1, <1>3, <1>4, <1>5

\* The caller's side of a step of execute() keeps the invariant.
LEMMA CallerStepInv ==
  ASSUME PoolInv, NEW r \in Requests, CallerStep(r)
  PROVE  PoolInv'
<1>0. /\ PoolTypeOK /\ IdleDistinct /\ IdleWorkersReceive
      /\ OneJobPerBusyWorker
      /\ PermitsMatchWorkers /\ InlineOnlyWhenDegraded
  BY DEF PoolInv
<1>a. CASE Execute(r)
  <2>1. /\ Granted' = Granted
        /\ Dead' = Dead
        /\ Pushed' = Pushed
        /\ IdleSet' = IdleSet
    BY <1>a, <1>0, Zenon DEF Execute, Granted, Dead, Pushed, IdleSet,
       PoolTypeOK
  <2>2. PoolTypeOK'
    BY <1>a, <1>0 DEF Execute, PoolTypeOK, CallerStates
  <2> QED
    BY <1>a, <1>0, <2>1, <2>2, Zenon DEF PoolInv, Execute, IdleDistinct,
       IdleWorkersReceive, OneJobPerBusyWorker, PermitsMatchWorkers,
       InlineOnlyWhenDegraded, PoolTypeOK
<1>b. CASE Acquire(r)
  <2>1. Granted' = Granted \cup {r} /\ r \notin Granted
    BY <1>b, <1>0 DEF Acquire, Granted, PoolTypeOK
  <2>2. /\ Dead' = Dead
        /\ Pushed' = Pushed
        /\ IdleSet' = IdleSet
    BY <1>b DEF Acquire, Dead, Pushed, IdleSet
  <2>3. Cardinality(Granted') = Cardinality(Granted) + 1
    BY <2>1, CountedSetsFinite, FS_AddElement, Zenon
  <2>4. PoolTypeOK'
    BY <1>b, <1>0 DEF Acquire, PoolTypeOK, CallerStates
  <2>5. PermitsMatchWorkers'
    BY <1>b, <1>0, <2>2, <2>3, CountedSetsFinite DEF Acquire,
       PermitsMatchWorkers, PoolTypeOK
  <2> QED
    BY <1>b, <1>0, <2>2, <2>4, <2>5, Zenon DEF PoolInv, Acquire, IdleDistinct,
       IdleWorkersReceive, OneJobPerBusyWorker, InlineOnlyWhenDegraded,
       PoolTypeOK
<1>c. ASSUME NEW w \in Workers, DispatchTo(r, w) PROVE PoolInv'
  <2>1. Granted' = Granted \ {r} /\ r \in Granted
    BY <1>c, <1>0 DEF DispatchTo, Granted, PoolTypeOK
  <2>2. Dead' = Dead /\ Pushed' = Pushed
    BY <1>c DEF DispatchTo, Dead, Pushed
  <2>3. Cardinality(Granted') = Cardinality(Granted) - 1
    BY <2>1, CountedSetsFinite, FS_RemoveElement, Zenon
  <2>4. /\ idle \in Seq(Workers)
        /\ idle # <<>>
        /\ idle' = SubSeq(idle, 1, Len(idle) - 1)
    BY <1>c, <1>0 DEF DispatchTo, PoolTypeOK
  <2>5. /\ Len(idle) \in Nat \ {0}
        /\ idle' \in Seq(Workers)
        /\ Len(idle') = Len(idle) - 1
        /\ \A i \in 1 .. Len(idle') : idle'[i] = idle[i]
    BY <2>4, PopFacts, Zenon
  <2>6. PoolTypeOK'
    BY <1>c, <1>0, <2>5 DEF DispatchTo, PoolTypeOK, CallerStates
  <2>7. IdleDistinct'
    BY <1>0, <2>5 DEF IdleDistinct
  <2>8. w \in IdleSet /\ IdleSet' = IdleSet \ {w}
    BY <1>c, <1>0, <2>5 DEF DispatchTo, IdleSet, IdleDistinct
  <2>9. mailbox[w] = <<>> /\ pc[w] \notin {"running", "dead"}
    BY <1>0, <2>8 DEF IdleWorkersReceive
  <2>10. mailbox'[w] = <<r>> /\ \A v \in Workers \ {w} : mailbox'[v] = mailbox[v]
    BY <1>c, <1>0, <2>9 DEF DispatchTo, PoolTypeOK
  <2>11. IdleSet \subseteq Workers
    BY <1>0 DEF PoolTypeOK, IdleSet
  <2>12. IdleWorkersReceive'
    BY <1>c, <1>0, <2>8, <2>10, <2>11, Zenon DEF DispatchTo, IdleWorkersReceive
  <2>13. OneJobPerBusyWorker'
    BY <1>c, <1>0, <2>8, <2>9, <2>10 DEF DispatchTo, OneJobPerBusyWorker
  <2>14. PermitsMatchWorkers'
    <3>1. permits' = permits /\ permits \in Nat
      BY <1>c, <1>0 DEF DispatchTo, PoolTypeOK
    <3> QED
      BY <1>0, <2>2, <2>3, <2>5, <3>1, CountedSetsFinite
         DEF PermitsMatchWorkers
  <2>15. InlineOnlyWhenDegraded'
    BY <1>c, <1>0, <2>2 DEF DispatchTo, InlineOnlyWhenDegraded, PoolTypeOK
  <2> QED
    BY <2>6, <2>7, <2>12, <2>13, <2>14, <2>15, Zenon DEF PoolInv
<1>d. CASE DispatchInline(r)
  <2>1. Granted' = Granted \ {r} /\ r \in Granted
    BY <1>d, <1>0 DEF DispatchInline, Granted, PoolTypeOK
  <2>2. /\ Dead' = Dead
        /\ Pushed' = Pushed
        /\ IdleSet' = IdleSet
    BY <1>d DEF DispatchInline, Dead, Pushed, IdleSet
  <2>3. Cardinality(Granted') = Cardinality(Granted) - 1
    BY <2>1, CountedSetsFinite, FS_RemoveElement, Zenon
  <2>4. Cardinality(Granted) >= 1
    BY <2>1, CountedSetsFinite, FS_EmptySet
  <2>5. PoolTypeOK'
    BY <1>d, <1>0 DEF DispatchInline, PoolTypeOK, CallerStates
  <2>6. permits \in Nat /\ Len(idle) = 0 /\ permits' = permits + 1 /\ idle' = idle
    BY <1>d, <1>0 DEF DispatchInline, PoolTypeOK
  <2>7. PermitsMatchWorkers'
    BY <1>0, <2>2, <2>3, <2>6, CountedSetsFinite
       DEF PermitsMatchWorkers
  <2>8. Cardinality(Dead) >= 1
    BY <1>0, <2>4, <2>6, CountedSetsFinite DEF PermitsMatchWorkers
  <2>9. Dead' # {}
    BY <2>2, <2>8, FS_EmptySet
  <2> QED
    BY <1>d, <1>0, <2>2, <2>5, <2>7, <2>9 DEF PoolInv, DispatchInline,
       IdleDistinct, IdleWorkersReceive, OneJobPerBusyWorker,
       InlineOnlyWhenDegraded
<1>e. ASSUME NEW outcome \in {"done", "failed"}, InlineEnd(r, outcome) PROVE PoolInv'
  <2>1. /\ Granted' = Granted
        /\ Dead' = Dead
        /\ Pushed' = Pushed
        /\ IdleSet' = IdleSet
    BY <1>e, <1>0 DEF InlineEnd, Granted, Dead, Pushed, IdleSet,
       PoolTypeOK
  <2>2. PoolTypeOK'
    BY <1>e, <1>0 DEF InlineEnd, PoolTypeOK, CallerStates
  <2> QED
    BY <1>e, <1>0, <2>1, <2>2, Zenon DEF PoolInv, InlineEnd, IdleDistinct,
       IdleWorkersReceive, OneJobPerBusyWorker, PermitsMatchWorkers,
       InlineOnlyWhenDegraded, PoolTypeOK
<1>f. CASE Abandon(r)
  <2>1. /\ Granted' = Granted
        /\ Dead' = Dead
        /\ Pushed' = Pushed
        /\ IdleSet' = IdleSet
    BY <1>f, <1>0, Zenon DEF Abandon, Granted, Dead, Pushed, IdleSet,
       PoolTypeOK
  <2>2. PoolTypeOK'
    BY <1>f, <1>0 DEF Abandon, PoolTypeOK, CallerStates
  <2> QED
    BY <1>f, <1>0, <2>1, <2>2, Zenon DEF PoolInv, Abandon, IdleDistinct,
       IdleWorkersReceive, OneJobPerBusyWorker, PermitsMatchWorkers,
       InlineOnlyWhenDegraded, PoolTypeOK
<1> QED
  BY <1>a, <1>b, <1>c, <1>d, <1>e, <1>f, Zenon DEF CallerStep

\* The worker's side: its loop, and a panicking task, keep the invariant.
LEMMA WorkerStepInv ==
  ASSUME PoolInv, NEW w \in Workers, WorkerLoop(w)
  PROVE  PoolInv'
<1>0. /\ PoolTypeOK /\ IdleDistinct /\ IdleWorkersReceive
      /\ OneJobPerBusyWorker
      /\ PermitsMatchWorkers /\ InlineOnlyWhenDegraded
  BY DEF PoolInv
<1>1. IdleSet \subseteq Workers
  BY <1>0 DEF PoolTypeOK, IdleSet
<1>a. CASE Receive(w)
  <2>1. /\ Granted' = Granted
        /\ Dead' = Dead
        /\ Pushed' = Pushed
        /\ IdleSet' = IdleSet
    BY <1>a, <1>0 DEF Receive, Granted, Dead, Pushed, IdleSet,
       PoolTypeOK
  <2>2. w \notin IdleSet /\ Len(mailbox[w]) = 1
    BY <1>a, <1>0 DEF Receive, IdleWorkersReceive, OneJobPerBusyWorker
  <2>3. mailbox[w] \in Seq(Requests) /\ mailbox[w] # <<>>
    BY <1>a, <1>0 DEF Receive, PoolTypeOK
  <2>4. Head(mailbox[w]) \in Requests /\ Tail(mailbox[w]) = <<>>
    <3>1. /\ Head(mailbox[w]) \in Requests
          /\ Tail(mailbox[w]) \in Seq(Requests)
          /\ Len(Tail(mailbox[w])) = Len(mailbox[w]) - 1
      BY <2>3, HeadTailProperties
    <3>2. Len(Tail(mailbox[w])) = 0
      BY <2>2, <3>1
    <3> QED BY <3>1, <3>2, EmptySeq, Zenon
  <2>5. PoolTypeOK'
    BY <1>a, <1>0, <2>4 DEF Receive, PoolTypeOK, WorkerStates
  <2>6. mailbox'[w] = <<>> /\ pc'[w] = "running"
    BY <1>a, <1>0, <2>4 DEF Receive, PoolTypeOK
  <2>7. \A v \in Workers \ {w} : mailbox'[v] = mailbox[v] /\ pc'[v] = pc[v]
    BY <1>a, <1>0 DEF Receive, PoolTypeOK
  <2>8. IdleWorkersReceive' /\ OneJobPerBusyWorker'
    BY <1>0, <1>1, <2>1, <2>2, <2>6, <2>7, Zenon DEF IdleWorkersReceive,
       OneJobPerBusyWorker
  <2> QED
    BY <1>a, <1>0, <2>1, <2>5, <2>8, Zenon DEF PoolInv, Receive, IdleDistinct,
       PermitsMatchWorkers, InlineOnlyWhenDegraded
<1>b. CASE PushIdle(w)
  <2>1. w \notin IdleSet /\ mailbox[w] = <<>>
    BY <1>b, <1>0 DEF PushIdle, IdleWorkersReceive, OneJobPerBusyWorker
  <2>2. Granted' = Granted /\ Dead' = Dead
    BY <1>b, <1>0 DEF PushIdle, Granted, Dead, PoolTypeOK
  <2>3. Pushed' = Pushed \cup {w} /\ w \notin Pushed
    BY <1>b, <1>0 DEF PushIdle, Pushed, PoolTypeOK
  <2>4. Cardinality(Pushed') = Cardinality(Pushed) + 1
    BY <2>3, CountedSetsFinite, FS_AddElement, Zenon
  <2>5. idle \in Seq(Workers) /\ idle' = Append(idle, w)
    BY <1>b, <1>0 DEF PushIdle, PoolTypeOK
  <2>6. /\ Len(idle) \in Nat
        /\ idle' \in Seq(Workers)
        /\ Len(idle') = Len(idle) + 1
        /\ \A i \in 1 .. Len(idle) : idle'[i] = idle[i]
        /\ idle'[Len(idle) + 1] = w
    BY <2>5, AppendProperties
  <2>7. IdleSet' = IdleSet \cup {w}
    BY <2>6 DEF IdleSet
  <2>8. IdleDistinct'
    BY <1>0, <2>1, <2>6 DEF IdleDistinct, IdleSet
  <2>9. PoolTypeOK'
    BY <1>b, <1>0, <2>6, Zenon DEF PushIdle, PoolTypeOK, WorkerStates
  <2>10. IdleWorkersReceive' /\ OneJobPerBusyWorker'
    BY <1>b, <1>0, <1>1, <2>1, <2>7, Zenon DEF PushIdle, IdleWorkersReceive,
       OneJobPerBusyWorker, PoolTypeOK
  <2>11. permits' = permits /\ permits \in Nat
    BY <1>b, <1>0 DEF PushIdle, PoolTypeOK
  <2>12. Len(idle') = Len(idle) + 1 /\ Len(idle) \in Nat
    BY <2>6
  <2>13. PermitsMatchWorkers'
    <3>1. /\ Cardinality(Granted) \in Nat /\ Cardinality(Dead) \in Nat
          /\ Cardinality(Pushed) \in Nat
      BY CountedSetsFinite
    <3>2. Len(idle) + Cardinality(Dead) =
            permits + Cardinality(Granted) + Cardinality(Pushed)
      BY <1>0 DEF PermitsMatchWorkers
    <3>3. /\ Cardinality(Granted') = Cardinality(Granted)
          /\ Cardinality(Dead') = Cardinality(Dead)
      BY <2>2
    <3>4. Len(idle') + Cardinality(Dead') =
            permits' + Cardinality(Granted') + Cardinality(Pushed')
      BY <2>4, <2>11, <2>12, <3>1, <3>2, <3>3
    <3> QED
      BY <3>4 DEF PermitsMatchWorkers
  <2> QED
    BY <1>b, <1>0, <2>2, <2>8, <2>9, <2>10, <2>13, Zenon DEF PoolInv, PushIdle,
       InlineOnlyWhenDegraded
<1>c. CASE DropPermit(w)
  <2>1. /\ Granted' = Granted
        /\ Dead' = Dead
        /\ IdleSet' = IdleSet
    BY <1>c, <1>0, Zenon DEF DropPermit, Granted, Dead, IdleSet, PoolTypeOK
  <2>2. Pushed' = Pushed \ {w} /\ w \in Pushed
    BY <1>c, <1>0 DEF DropPermit, Pushed, PoolTypeOK
  <2>3. Cardinality(Pushed') = Cardinality(Pushed) - 1
    BY <2>2, CountedSetsFinite, FS_RemoveElement, Zenon
  <2>4. PoolTypeOK'
    BY <1>c, <1>0 DEF DropPermit, PoolTypeOK, WorkerStates
  <2>5. permits' = permits + 1 /\ permits \in Nat /\ idle' = idle /\ Len(idle) \in Nat
    BY <1>c, <1>0 DEF DropPermit, PoolTypeOK
  <2>6. PermitsMatchWorkers'
    BY <1>0, <2>1, <2>3, <2>5, CountedSetsFinite
       DEF PermitsMatchWorkers
  <2>7. IdleWorkersReceive' /\ OneJobPerBusyWorker'
    BY <1>c, <1>0, <1>1, <2>1, Zenon DEF DropPermit, IdleWorkersReceive,
       OneJobPerBusyWorker, PoolTypeOK
  <2> QED
    BY <1>c, <1>0, <2>1, <2>4, <2>6, <2>7, Zenon DEF PoolInv, DropPermit, IdleDistinct,
       InlineOnlyWhenDegraded
<1>d. CASE Complete(w)
  <2>1. Granted' = Granted
    BY <1>d, <1>0 DEF Complete, Answered, Granted, PoolTypeOK
  <2>2. /\ Dead' = Dead
        /\ Pushed' = Pushed
        /\ IdleSet' = IdleSet
    BY <1>d, <1>0 DEF Complete, Dead, Pushed, IdleSet, PoolTypeOK
  <2>3. PoolTypeOK'
    BY <1>d, <1>0, Zenon DEF Complete, Answered, PoolTypeOK, CallerStates,
       WorkerStates
  <2>4. IdleWorkersReceive' /\ OneJobPerBusyWorker'
    BY <1>d, <1>0, <1>1, <2>2 DEF Complete, IdleWorkersReceive,
       OneJobPerBusyWorker, PoolTypeOK
  <2>5. InlineOnlyWhenDegraded'
    BY <1>d, <1>0, <2>2, Zenon DEF Complete, Answered, InlineOnlyWhenDegraded,
       PoolTypeOK
  <2> QED
    BY <1>d, <1>0, <2>1, <2>2, <2>3, <2>4, <2>5, Zenon DEF PoolInv, Complete,
       IdleDistinct, PermitsMatchWorkers
<1>e. CASE Panic(w)
  <2>1. Granted' = Granted
    BY <1>e, <1>0 DEF Panic, Answered, Granted, PoolTypeOK
  <2>2. Dead' = Dead \cup {w} /\ w \notin Dead
    BY <1>e, <1>0 DEF Panic, Dead, PoolTypeOK
  <2>3. Pushed' = Pushed /\ IdleSet' = IdleSet
    BY <1>e, <1>0 DEF Panic, Pushed, IdleSet, PoolTypeOK
  <2>4. Cardinality(Dead') = Cardinality(Dead) + 1
    BY <2>2, CountedSetsFinite, FS_AddElement, Zenon
  <2>5. PoolTypeOK'
    <3>1. caller' \in [Requests -> CallerStates]
      BY <1>e, <1>0, Zenon DEF Panic, Answered, PoolTypeOK, CallerStates
    <3> QED BY <1>e, <1>0, <3>1 DEF Panic, PoolTypeOK, WorkerStates
  <2>6. permits' = permits + 1 /\ permits \in Nat /\ idle' = idle /\ Len(idle) \in Nat
    BY <1>e, <1>0 DEF Panic, PoolTypeOK
  <2>7. PermitsMatchWorkers'
    <3>1. /\ Cardinality(Granted) \in Nat /\ Cardinality(Dead) \in Nat
          /\ Cardinality(Pushed) \in Nat
      BY CountedSetsFinite
    <3>2. Len(idle) + Cardinality(Dead) =
            permits + Cardinality(Granted) + Cardinality(Pushed)
      BY <1>0 DEF PermitsMatchWorkers
    <3>3. /\ Cardinality(Granted') = Cardinality(Granted)
          /\ Cardinality(Pushed') = Cardinality(Pushed) /\ Len(idle') = Len(idle)
      BY <2>1, <2>3, <2>6
    <3>4. Len(idle') + Cardinality(Dead') =
            permits' + Cardinality(Granted') + Cardinality(Pushed')
      BY <2>4, <2>6, <3>1, <3>2, <3>3
    <3> QED
      BY <3>4 DEF PermitsMatchWorkers
  <2>8. w \notin IdleSet
    BY <1>e, <1>0 DEF Panic, IdleWorkersReceive
  <2>9. IdleWorkersReceive' /\ OneJobPerBusyWorker'
    BY <1>e, <1>0, <1>1, <2>3, <2>8, Zenon DEF Panic, IdleWorkersReceive,
       OneJobPerBusyWorker, PoolTypeOK
  <2> QED
    BY <1>e, <1>0, <2>2, <2>3, <2>5, <2>7, <2>9, Zenon DEF PoolInv, Panic,
       IdleDistinct, InlineOnlyWhenDegraded
<1> QED
  BY <1>a, <1>b, <1>c, <1>d, <1>e, Zenon DEF WorkerLoop

\* The invariant holds in every reachable state of the pool.
THEOREM PoolInvariant == PoolSpec => []PoolInv
<1>1. PoolInv /\ [PoolNext]_pool => PoolInv'
  <2> SUFFICES ASSUME PoolInv, [PoolNext]_pool PROVE PoolInv'
    OBVIOUS
  <2>1. CASE PoolNext
    BY <2>1, CallerStepInv, WorkerStepInv DEF PoolNext
  <2>2. CASE UNCHANGED pool
    BY <2>2, Zenon DEF pool, PoolInv, PoolTypeOK, IdleDistinct,
       IdleWorkersReceive, OneJobPerBusyWorker, PermitsMatchWorkers,
       InlineOnlyWhenDegraded, IdleSet, Dead, Granted, Pushed
  <2> QED BY <2>1, <2>2
<1> QED
  BY PoolInitInv, <1>1, PTL DEF PoolSpec

\* The fields keep their types.
THEOREM PoolTypeCorrect == PoolSpec => []PoolTypeOK
<1>1. PoolInv => PoolTypeOK
  BY DEF PoolInv
<1> QED BY PoolInvariant, <1>1, PTL

\* execute() runs a request on the caller's thread only after a worker has
\* been lost to a panicking task.
THEOREM InlineNeedsLostWorker == PoolSpec => []InlineOnlyWhenDegraded
<1>1. PoolInv => InlineOnlyWhenDegraded
  BY DEF PoolInv
<1> QED BY PoolInvariant, <1>1, PTL

\* A job is only ever sent to a live worker with an empty channel: send()
\* cannot fail and the permit-forgetting branch of execute() is dead code.
THEOREM SendSucceeds == PoolSpec => []IdleWorkersReceive
<1>1. PoolInv => IdleWorkersReceive
  BY DEF PoolInv
<1> QED BY PoolInvariant, <1>1, PTL

\* The idle stack and the semaphore stay in step, counting lost workers.
THEOREM PermitsStandForWorkers == PoolSpec => []PermitsMatchWorkers
<1>1. PoolInv => PermitsMatchWorkers
  BY DEF PoolInv
<1> QED BY PoolInvariant, <1>1, PTL

\* No two requests share a worker and none waits behind another.
THEOREM WorkersHaveOneJob == PoolSpec => []OneJobPerBusyWorker
<1>1. PoolInv => OneJobPerBusyWorker
  BY DEF PoolInv
<1> QED BY PoolInvariant, <1>1, PTL

\* The job of a caller that awaits its reply stays with a live worker.
LEMMA OwedStep ==
  ASSUME PoolInv, RepliesAreOwed, PoolNext
  PROVE  RepliesAreOwed'
<1> DEFINE InMail(r, w) == \E i \in 1 .. Len(mailbox[w]) : mailbox[w][i] = r
           At(r, w) == pc[w] \in {"running", "pushed", "released"} /\ job[w] = r
           With(r, w) == (pc[w] # "dead" /\ InMail(r, w)) \/ At(r, w)
<1>0. /\ PoolTypeOK /\ IdleWorkersReceive /\ OneJobPerBusyWorker
  BY DEF PoolInv
<1> SUFFICES ASSUME NEW r \in Requests, caller'[r] = "sent"
             PROVE  \E w \in Workers : With(r, w)'
  BY DEF RepliesAreOwed
<1>w. ASSUME caller[r] = "sent" PROVE \E w \in Workers : With(r, w)
  BY <1>w DEF RepliesAreOwed
<1>k. ASSUME NEW w \in Workers, With(r, w), pc'[w] = pc[w], mailbox'[w] = mailbox[w],
             job'[w] = job[w]
      PROVE  With(r, w)'
  BY <1>k, Zenon
<1>1. ASSUME NEW q \in Requests,
             \/ Execute(q) \/ Acquire(q) \/ DispatchInline(q) \/ Abandon(q)
             \/ \E outcome \in {"done", "failed"} : InlineEnd(q, outcome)
      PROVE  \E w \in Workers : With(r, w)'
  <2>1. caller[r] = "sent" /\ UNCHANGED <<pc, mailbox, job>>
    BY <1>0, <1>1 DEF Execute, Acquire, DispatchInline, Abandon, InlineEnd, PoolTypeOK
  <2> QED
    BY <1>w, <1>k, <2>1, Zenon
<1>2. ASSUME NEW q \in Requests, NEW w \in Workers, DispatchTo(q, w)
      PROVE  \E v \in Workers : With(r, v)'
  <2>1. UNCHANGED <<pc, job>> /\ mailbox' = [mailbox EXCEPT ![w] = Append(@, q)]
    BY <1>2 DEF DispatchTo
  <2>2. mailbox[w] \in Seq(Requests) /\ mailbox'[w] = Append(mailbox[w], q)
    BY <1>0, <2>1 DEF PoolTypeOK
  <2>3. /\ Len(mailbox[w]) \in Nat /\ Len(mailbox'[w]) = Len(mailbox[w]) + 1
        /\ \A i \in 1 .. Len(mailbox[w]) : mailbox'[w][i] = mailbox[w][i]
        /\ mailbox'[w][Len(mailbox[w]) + 1] = q
    BY <2>2, AppendProperties
  <2>4. CASE r = q
    <3>1. w \in IdleSet
      BY <1>0, <1>2 DEF DispatchTo, IdleSet, PoolTypeOK
    <3>2. pc'[w] # "dead"
      BY <1>0, <2>1, <3>1, Zenon DEF IdleWorkersReceive
    <3>3. InMail(r, w)'
      BY <2>3, <2>4
    <3> QED
      BY <3>2, <3>3, Zenon
  <2>5. CASE r # q
    <3>1. caller[r] = "sent"
      BY <1>0, <1>2, <2>5 DEF DispatchTo, PoolTypeOK
    <3>2. PICK v \in Workers : With(r, v)
      BY <1>w, <3>1, Zenon
    <3>3. InMail(r, w) => InMail(r, w)'
      BY <2>3
    <3>4. v # w => mailbox'[v] = mailbox[v]
      BY <1>0, <2>1, Zenon DEF PoolTypeOK
    <3>5. pc' = pc /\ job' = job
      BY <2>1
    <3>6. CASE v # w
      <4>1. mailbox'[v] = mailbox[v] /\ pc'[v] = pc[v] /\ job'[v] = job[v]
        BY <3>4, <3>5, <3>6, Zenon
      <4> HIDE DEF With
      <4> QED
        BY <1>k, <3>2, <4>1, Zenon
    <3>7. CASE v = w
      <4>1. With(r, w)
        BY <3>2, <3>7, Zenon
      <4> HIDE DEF InMail
      <4>2. With(r, w)'
        BY <3>3, <3>5, <4>1
      <4> QED
        BY <4>2, Zenon
    <3> QED
      BY <3>6, <3>7, Zenon
  <2> QED
    BY <2>4, <2>5
<1>3. ASSUME NEW w \in Workers, WorkerLoop(w)
      PROVE  \E v \in Workers : With(r, v)'
  <2>1. caller[r] = "sent"
    BY <1>0, <1>3 DEF WorkerLoop, Receive, PushIdle, DropPermit, Complete, Panic, Answered,
       PoolTypeOK
  <2>2. PICK v \in Workers : With(r, v)
    BY <1>w, <2>1, Zenon
  <2>3. CASE v # w
    <3>1. pc'[v] = pc[v] /\ mailbox'[v] = mailbox[v] /\ job'[v] = job[v]
      BY <1>0, <1>3, <2>3, Zenon DEF WorkerLoop, Receive, PushIdle, DropPermit, Complete, Panic,
         PoolTypeOK
    <3> QED
      BY <1>k, <2>2, <3>1, Zenon
  <2>4. CASE v = w
    <3>0. InMail(r, w) => mailbox[w] # <<>>
      BY EmptySeq
    <3>1. CASE Receive(w)
      <4>1. pc[w] = "recv" /\ InMail(r, w)
        BY <2>2, <2>4, <3>1, Zenon DEF Receive
      <4>2. Len(mailbox[w]) = 1
        BY <1>0, <3>1, Zenon DEF Receive, IdleWorkersReceive, OneJobPerBusyWorker
      <4>3. Head(mailbox[w]) = r
        BY <1>0, <4>1, <4>2 DEF PoolTypeOK
      <4> QED
        BY <1>0, <3>1, <4>3, Zenon DEF Receive, PoolTypeOK
    <3>2. CASE PushIdle(w) \/ DropPermit(w)
      BY <1>0, <2>2, <2>4, <3>2, Zenon DEF PushIdle, DropPermit, PoolTypeOK
    <3>3. CASE Complete(w)
      <4>1. job[w] # r
        BY <1>0, <3>3, Zenon DEF Complete, Answered, PoolTypeOK
      <4> QED
        BY <1>0, <2>2, <2>4, <3>3, <4>1, Zenon DEF Complete, PoolTypeOK
    <3>4. ~Panic(w)
      <4>1. SUFFICES ASSUME Panic(w) PROVE FALSE
        OBVIOUS
      <4>2. job[w] # r
        BY <1>0, <4>1, Zenon DEF Panic, Answered, PoolTypeOK
      <4>3. mailbox[w] # <<>>
        BY <2>2, <2>4, <3>0, <4>2, Zenon
      <4> QED
        BY <1>0, <4>1, <4>3, Zenon DEF Panic, IdleWorkersReceive, OneJobPerBusyWorker
    <3> QED
      BY <1>3, <3>1, <3>2, <3>3, <3>4, Zenon DEF WorkerLoop
  <2> QED
    BY <2>3, <2>4
<1> QED
  BY <1>1, <1>2, <1>3, Zenon DEF PoolNext, CallerStep

\* No caller is left waiting for a reply that nobody will send: its job is with
\* a worker that is alive.
THEOREM NoReplyIsLost == PoolSpec => []RepliesAreOwed
<1>1. PoolInit => RepliesAreOwed
  BY DEF PoolInit, RepliesAreOwed
<1>2. PoolInv /\ RepliesAreOwed /\ [PoolNext]_pool => RepliesAreOwed'
  <2> SUFFICES ASSUME PoolInv, RepliesAreOwed, [PoolNext]_pool PROVE RepliesAreOwed'
    OBVIOUS
  <2>1. CASE UNCHANGED pool
    <3>1. caller' = caller /\ pc' = pc /\ mailbox' = mailbox /\ job' = job
      BY <2>1, Zenon DEF pool
    <3> QED
      BY <3>1 DEF RepliesAreOwed
  <2> QED
    BY <2>1, OwedStep
<1> QED
  BY <1>1, <1>2, PoolInvariant, PTL DEF PoolSpec
-----------------------------------------------------------------------------
\* A step of the server is a step of the pool, or leaves the pool alone.
LEMMA PoolSteps == [Next]_vars => [PoolNext]_pool
<1> SUFFICES ASSUME [Next]_vars PROVE PoolNext \/ UNCHANGED pool
  OBVIOUS
<1>1. CASE UNCHANGED vars
  BY <1>1 DEF vars
<1>2. ASSUME NEW r \in Requests, HandlerStep(r)
      PROVE  CallerStep(r) \/ UNCHANGED pool
  <2>1. CASE TryCpu(r) \/ CpuGranted(r)
    BY <2>1 DEF TryCpu, CpuGranted, WithPermit, CallerStep
  <2>2. CASE PoolAcquire(r) \/ PoolDispatch(r) \/ RunInline(r)
    BY <2>2 DEF PoolAcquire, PoolDispatch, RunInline, CallerStep
  <2>3. CASE InlineReturns(r) \/ InlinePanic(r)
    BY <2>3 DEF InlineReturns, InlinePanic, CallerStep
  <2>4. CASE DisconnectInPool(r)
    BY <2>4, Zenon DEF DisconnectInPool, CallerStep
  <2>5. CASE \/ Arrive(r) \/ Admit(r) \/ Overload(r) \/ AnswerEarly(r) \/ BodyTimeout(r)
             \/ BodyRead(r) \/ Compiled(r) \/ CompileError(r)
    BY <2>5 DEF Arrive, Admit, Overload, AnswerEarly, BodyTimeout, BodyRead, Compiled,
       CompileError
  <2>6. CASE \/ QueueCpu(r) \/ CpuTimeout(r) \/ RouterEnd(r) \/ HandlerPanic(r)
             \/ PoolReply(r) \/ Disconnect(r)
    BY <2>6 DEF QueueCpu, CpuTimeout, RouterEnd, HandlerPanic, PoolReply, Disconnect
  <2> QED
    BY <1>2, <2>1, <2>2, <2>3, <2>4, <2>5, <2>6, Zenon DEF HandlerStep
<1>3. ASSUME NEW r \in Requests, JobStep(r) PROVE UNCHANGED pool
  BY <1>3 DEF JobStep, Seed, SeedFails, ScriptEnds, Finalize
<1>4. ASSUME NEW w \in Workers, WorkerStep(w) PROVE WorkerLoop(w)
  BY <1>4 DEF WorkerStep, StartJob, WorkerReturns, WorkerPanic, WorkerLoop
<1> QED
  BY <1>1, <1>2, <1>3, <1>4, Zenon DEF Next, PoolNext

\* The server uses its worker pool only as the pool's own specification allows:
\* what is proved of PhpWorkerPool alone holds of the pool inside the server.
THEOREM ServerRunsPool == Spec => PoolSpec
<1>1. Init => PoolInit
  BY DEF Init
<1> QED
  BY <1>1, PoolSteps, PTL DEF Spec, PoolSpec

\* Inside the server, whatever its handlers and jobs do, no job is sent to a
\* worker that cannot take it, no two share one, every reply awaited is owed by
\* a live worker, and PHP leaves the pinned threads only after one of them was
\* lost.
THEOREM ServerKeepsPoolPromises ==
  Spec => [](/\ IdleWorkersReceive /\ OneJobPerBusyWorker /\ RepliesAreOwed
             /\ PermitsMatchWorkers /\ InlineOnlyWhenDegraded)
<1>1. PoolInv => /\ IdleWorkersReceive /\ OneJobPerBusyWorker
                 /\ PermitsMatchWorkers /\ InlineOnlyWhenDegraded
  BY DEF PoolInv
<1> QED
  BY <1>1, PoolInvariant, NoReplyIsLost, ServerRunsPool, PTL
=============================================================================
