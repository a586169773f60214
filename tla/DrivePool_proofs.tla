-------------------------- MODULE DrivePool_proofs --------------------------
(***************************************************************************)
(* run_drive_phase of worker/execute.rs, for every number of drives,       *)
(* workers and jobs and an abort flag raised or lowered at any moment: a   *)
(* batch is in one place, the results of a drive come in the order of its  *)
(* jobs, and the threads with their channels implement DrivePhase.         *)
(***************************************************************************)
EXTENDS DrivePool, FiniteSetTheorems, SequenceTheorems, TLAPS

\* The feeder's choice exists: First picks a batch of the set.
LEMMA FirstIn ==
    ASSUME NEW S \in SUBSET Drives, S # {}
    PROVE  First(S) \in S /\ \A e \in S : First(S) <= e
<1>. DEFINE Below(d) == {e \in S : e <= d}
            Downs    == {D \in SUBSET S : \E d \in S : D = Below(d)}
<1>1. S \in SUBSET Nat
  BY PhaseAssumption DEF Drives
<1>2. IsFiniteSet(S)
  <2>1. IsFiniteSet(Drives)
    BY FS_Interval, PhaseAssumption, 1 \in Int, NumDrives \in Int DEF Drives
  <2>. QED  BY <2>1, FS_Subset
<1>3. Downs \subseteq FiniteSubsetsOf(S) /\ Downs # {}
  <2>1. FiniteSubsetsOf(S) = SUBSET S
    BY <1>2, FS_FiniteSubsetsOfFinite
  <2>2. PICK d \in S : TRUE
    OBVIOUS
  <2>3. Below(d) \in Downs
    <3>1. Below(d) \in SUBSET S
      OBVIOUS
    <3>. QED  BY <3>1
  <2>. QED  BY <2>1, <2>3
<1>4. PICK D \in Downs : \A E \in Downs : <<E, D>> \notin StrictSubsetOrdering(S)
  <2>. HIDE DEF Downs
  <2>. QED  BY <1>3, FS_StrictSubsetOrderingWellFounded, WFMin
<1>5. PICK d \in S : D = Below(d)
  BY <1>4
<1>6. ASSUME NEW e \in S  PROVE d <= e
  <2>1. SUFFICES ASSUME e < d  PROVE FALSE
    BY <1>1
  <2>2. d \in Nat /\ e \in Nat /\ \A x \in S : x \in Nat
    BY <1>1
  <2>3. Below(e) \in SUBSET S /\ Below(e) \subseteq Below(d)
    <3>1. \A x \in S : x <= e => x <= d
      BY <2>1, <2>2
    <3>. QED  BY <3>1
  <2>4. d \in Below(d) /\ d \notin Below(e)
    BY <2>1, <2>2
  <2>5. Below(e) \in Downs
    BY <2>3
  <2>6. <<Below(e), D>> \in StrictSubsetOrdering(S)
    <3>1. Below(e) # D
      BY <2>4, <1>5
    <3>2. Below(e) \subseteq D /\ D \in SUBSET S
      BY <2>3, <1>5
    <3>. HIDE DEF Below
    <3>. QED  BY <3>1, <3>2, <2>3 DEF StrictSubsetOrdering
  <2>. QED  BY <2>5, <2>6, <1>4
<1>. QED
  BY <1>6 DEF First

\* The types of what the batches are moved between.
PoolTyped ==
    /\ unfed \subseteq Drives
    /\ jobChan \in Seq(Drives)
    /\ pc \in [Pool -> {"recv", "taken", "held", "running", "ended", "lost"}]
    /\ batch \in [Pool -> Drives \cup {0}]

\* The invariant is inductive with the types: each step moves one batch to
\* its next place.
IOne == PoolTyped /\ OneWorkerPerDrive

\* Initially no batch is anywhere but with the feeder.
LEMMA InitOne == Init => IOne
  BY EmptySeq, PhaseAssumption
  DEF Init, IOne, PoolTyped, OneWorkerPerDrive, Nonempty, Drives

\* The feeder appends a batch that nobody has.
LEMMA FeedMoves ==
    ASSUME IOne, FeedBatch, NEW d, d = First(unfed)
    PROVE  /\ d \in unfed /\ \A e \in unfed : d <= e
           /\ unfed' = unfed \ {d} /\ UNCHANGED <<pc, batch>>
           /\ jobChan' \in Seq(Drives) /\ Len(jobChan') = Len(jobChan) + 1
           /\ jobChan'[Len(jobChan) + 1] = d
           /\ \A i \in 1..Len(jobChan) : jobChan'[i] = jobChan[i]
           /\ \A i \in 1..Len(jobChan') : i \in 1..Len(jobChan) \/ i = Len(jobChan) + 1
           /\ Len(jobChan) \in Nat
<1>1. d \in unfed /\ d \in Drives /\ \A e \in unfed : d <= e
  BY FirstIn DEF IOne, PoolTyped, FeedBatch
<1>2. jobChan' = Append(jobChan, d) /\ unfed' = unfed \ {d} /\ UNCHANGED <<pc, batch>>
  BY DEF FeedBatch
<1> QED
  BY <1>1, <1>2 DEF IOne, PoolTyped

\* The feeder gives the channel a batch that nobody has.
LEMMA FeedOne == ASSUME IOne, FeedBatch PROVE IOne'
<1> DEFINE d == First(unfed)
           n == Len(jobChan)
<1>1. /\ d \in unfed /\ unfed' = unfed \ {d} /\ UNCHANGED <<pc, batch>>
      /\ jobChan' \in Seq(Drives) /\ Len(jobChan') = n + 1 /\ jobChan'[n + 1] = d
      /\ \A i \in 1..n : jobChan'[i] = jobChan[i]
      /\ \A i \in 1..Len(jobChan') : i \in 1..n \/ i = n + 1
  BY FeedMoves
<1> HIDE DEF d, n
<1>2. PoolTyped'
  BY <1>1 DEF IOne, PoolTyped
<1>3. /\ \A i \in 1..n : jobChan[i] # d
      /\ \A w \in Pool : batch[w] # d
  BY <1>1 DEF IOne, OneWorkerPerDrive, n
<1> QED
  BY <1>1, <1>2, <1>3 DEF IOne, OneWorkerPerDrive, n

\* A thread takes the head of the channel.
LEMMA RecvMoves ==
    ASSUME IOne, NEW w \in Pool, Recv(w), NEW d, d = Head(jobChan)
    PROVE  /\ d \in Drives /\ d = jobChan[1] /\ 1 \in 1..Len(jobChan)
           /\ jobChan' \in Seq(Drives) /\ Len(jobChan) \in Nat
           /\ \A i \in 1..Len(jobChan') : /\ jobChan'[i] = jobChan[i + 1]
                                          /\ i + 1 \in 1..Len(jobChan) /\ i + 1 # 1
           /\ batch'[w] = d /\ pc'[w] = "taken" /\ pc[w] = "recv"
           /\ \A v \in Pool : v # w => batch'[v] = batch[v] /\ pc'[v] = pc[v]
           /\ UNCHANGED unfed
<1>1. /\ d \in Drives /\ d = jobChan[1] /\ 1 \in 1..Len(jobChan)
      /\ jobChan' \in Seq(Drives) /\ Len(jobChan') = Len(jobChan) - 1
      /\ \A i \in 1..Len(jobChan') : jobChan'[i] = jobChan[i + 1]
      /\ Len(jobChan) \in Nat
  BY HeadTailProperties DEF IOne, PoolTyped, Recv
<1>2. \A i \in 1..Len(jobChan') : i + 1 \in 1..Len(jobChan) /\ i + 1 # 1
  BY <1>1
<1>3. /\ batch'[w] = d /\ pc'[w] = "taken" /\ pc[w] = "recv"
      /\ \A v \in Pool : v # w => batch'[v] = batch[v] /\ pc'[v] = pc[v]
      /\ UNCHANGED unfed
  BY DEF Recv, IOne, PoolTyped
<1> QED
  BY <1>1, <1>2, <1>3

\* It is then with that thread and nowhere else.
LEMMA RecvOne == ASSUME IOne, NEW w \in Pool, Recv(w) PROVE IOne'
<1> DEFINE d == Head(jobChan)
<1>1. /\ d \in Drives /\ d = jobChan[1] /\ 1 \in 1..Len(jobChan)
      /\ jobChan' \in Seq(Drives) /\ Len(jobChan) \in Nat
      /\ \A i \in 1..Len(jobChan') : /\ jobChan'[i] = jobChan[i + 1]
                                     /\ i + 1 \in 1..Len(jobChan) /\ i + 1 # 1
      /\ batch'[w] = d
      /\ \A v \in Pool : v # w => batch'[v] = batch[v]
      /\ UNCHANGED unfed
  BY RecvMoves
<1>2. batch' = [batch EXCEPT ![w] = d] /\ pc' = [pc EXCEPT ![w] = "taken"]
  BY DEF Recv
<1> HIDE DEF d
<1>3. PoolTyped'
  BY <1>1, <1>2 DEF IOne, PoolTyped
<1>4. /\ \A v \in Pool : batch[v] # d
      /\ d \notin unfed
  BY <1>1 DEF IOne, OneWorkerPerDrive
<1>5. \A i \in 1..Len(jobChan') : jobChan'[i] # d /\ jobChan'[i] \notin unfed
  BY <1>1 DEF IOne, OneWorkerPerDrive
<1>6. \A i, j \in 1..Len(jobChan') : jobChan'[i] = jobChan'[j] => i = j
  BY <1>1 DEF IOne, OneWorkerPerDrive
<1>7. \A i \in 1..Len(jobChan') : \A v \in Pool : batch'[v] # jobChan'[i]
  BY <1>1, <1>5 DEF IOne, OneWorkerPerDrive
<1>8. \A v, u \in Pool : batch'[v] = batch'[u] /\ batch'[v] # 0 => v = u
  BY <1>1, <1>4 DEF IOne, OneWorkerPerDrive
<1> QED
  BY <1>1, <1>3, <1>4, <1>5, <1>6, <1>7, <1>8 DEF IOne, OneWorkerPerDrive

\* A thread at work keeps its batch, or has none when the last job is done.
LEMMA WorkOne ==
    ASSUME IOne, NEW w \in Pool,
           RecvClosed(w) \/ EnterBatch(w) \/ BeginJob(w) \/ JobCompletes(w) \/ JobAborts(w)
    PROVE  IOne'
<1>1. /\ UNCHANGED <<jobChan, unfed>>
      /\ batch' = batch \/ batch' = [batch EXCEPT ![w] = 0]
      /\ pc' \in [Pool -> {"recv", "taken", "held", "running", "ended", "lost"}]
  BY DEF IOne, PoolTyped, RecvClosed, EnterBatch, BeginJob, JobCompletes, JobAborts, Lose
<1>2. \A v \in Pool : batch'[v] = batch[v] \/ batch'[v] = 0
  BY <1>1 DEF IOne, PoolTyped
<1>3. PoolTyped'
  BY <1>1 DEF IOne, PoolTyped
<1>4. 0 \notin Drives
  BY PhaseAssumption DEF Drives
<1>5. \A i \in 1..Len(jobChan) : jobChan[i] # 0
  BY <1>4, ElementOfSeq DEF IOne, PoolTyped
<1> QED
  BY <1>1, <1>2, <1>3, <1>4, <1>5 DEF IOne, PoolTyped, OneWorkerPerDrive

\* Every step keeps each batch in one place.
LEMMA StepOne == ASSUME IOne, [Next]_vars PROVE IOne'
<1>1. CASE FeedBatch
  BY <1>1, FeedOne
<1>2. CASE \E w \in Pool : Thread(w)
  BY <1>2, RecvOne, WorkOne DEF Thread
<1>3. CASE UNCHANGED <<unfed, jobChan, pc, batch>>
  BY <1>3 DEF IOne, PoolTyped, OneWorkerPerDrive
<1> QED
  BY <1>1, <1>2, <1>3
  DEF Next, Feeder, FeederSeesAbort, CloseJobChan, RecvDone, ReturnOk, ReturnErr, GuiFlips, Gone, vars

\* One drive uses at most one worker at a time (execute.rs, run_drive_phase):
\* a batch is with the feeder, once in the channel, or with one thread.
THEOREM BatchInOnePlace == Spec => []OneWorkerPerDrive
<1>1. IOne /\ [Next]_vars => IOne'
  BY StepOne
<1>2. IOne => OneWorkerPerDrive
  BY DEF IOne
<1> QED
  BY InitOne, <1>1, <1>2, PTL DEF Spec

-----------------------------------------------------------------------------
(***************************************************************************)
(* The pool implements DrivePhase.  What the invariant adds: a thread at   *)
(* work has a batch and one that waits has none; the channel keeps the     *)
(* order of the drives; every thread that ended in good order has its done *)
(* message in the channel or received; and one that ended without a batch  *)
(* found the channel empty and closed, so that no batch stays in it unless *)
(* every thread has given one up.                                          *)
(***************************************************************************)

WithJobs ==
    /\ unfed \subseteq Nonempty
    /\ \A i \in 1..Len(jobChan) : jobChan[i] \in Nonempty
    /\ \A w \in Pool : batch[w] # 0 => batch[w] \in Nonempty

HasBatch == \A w \in Pool :
    /\ pc[w] = "recv" => batch[w] = 0
    /\ pc[w] \notin {"recv", "ended"} => batch[w] # 0

InOrder == \A i \in 1..Len(jobChan) :
    /\ \A j \in 1..Len(jobChan) : i < j => jobChan[i] < jobChan[j]
    /\ \A d \in unfed : jobChan[i] < d

Ended == {w \in Pool : pc[w] = "ended"}

DoneCounted ==
    /\ joined \in Nat /\ doneChan \in Nat
    /\ joined + doneChan = Cardinality(Ended)

ClosedEmpty ==
    (\E w \in Ended : batch[w] = 0) => jobChan = <<>> /\ feeder # "feeding"

FeederTyped ==
    /\ left \in [Drives -> Int]
    /\ feeder \in {"feeding", "joining", "ok", "err"}
    /\ feeder = "joining" => unfed = {}

IRef == IOne /\ WithJobs /\ HasBatch /\ InOrder /\ DoneCounted /\ ClosedEmpty /\ FeederTyped

\* A thread at work keeps its batch, except after the last job of it, and
\* sends its done message when it ends in good order.
LEMMA WorkMoves ==
    ASSUME IRef, NEW w \in Pool,
           RecvClosed(w) \/ EnterBatch(w) \/ BeginJob(w) \/ JobCompletes(w) \/ JobAborts(w)
    PROVE  /\ UNCHANGED <<jobChan, unfed, feeder, joined>>
           /\ \A v \in Pool : v # w => batch'[v] = batch[v] /\ pc'[v] = pc[v]
           /\ batch'[w] = IF pc'[w] = "recv" THEN 0 ELSE batch[w]
           /\ pc'[w] \in {"recv", "taken", "held", "running", "ended", "lost"}
           /\ pc[w] \notin {"ended", "lost"}
           /\ doneChan' = IF pc'[w] = "ended" THEN doneChan + 1 ELSE doneChan
           /\ pc'[w] # "ended" => pc[w] # "recv"
           /\ pc'[w] = "ended" /\ pc[w] = "recv" => jobChan = <<>> /\ feeder # "feeding"
           /\ left' \in [Drives -> Int]
<1>1. /\ pc \in [Pool -> {"recv", "taken", "held", "running", "ended", "lost"}]
      /\ batch \in [Pool -> Drives \cup {0}] /\ left \in [Drives -> Int]
      /\ pc[w] = "running" => batch[w] # 0
  BY DEF IRef, IOne, PoolTyped, FeederTyped, HasBatch
<1>2. CASE RecvClosed(w)
  BY <1>1, <1>2 DEF RecvClosed
<1>3. CASE EnterBatch(w)
  BY <1>1, <1>3 DEF EnterBatch
<1>4. CASE BeginJob(w)
  BY <1>1, <1>4 DEF BeginJob, Lose
<1>5. CASE JobCompletes(w)
  BY <1>1, <1>5 DEF JobCompletes
<1>6. CASE JobAborts(w)
  BY <1>1, <1>6 DEF JobAborts, Lose
<1> QED
  BY <1>2, <1>3, <1>4, <1>5, <1>6

\* The pool is a finite set of min(MaxWorkers, batches) threads.
LEMMA PoolSize ==
    /\ IsFiniteSet(Nonempty) /\ Cardinality(Nonempty) \in Nat
    /\ IsFiniteSet(Pool) /\ Cardinality(Pool) \in Nat
    /\ Cardinality(Pool) = IF Cardinality(Nonempty) < MaxWorkers
                           THEN Cardinality(Nonempty) ELSE MaxWorkers
<1>1. IsFiniteSet(Drives)
  BY FS_Interval, PhaseAssumption, 1 \in Int, NumDrives \in Int DEF Drives
<1>2. Nonempty \in SUBSET Drives
  BY DEF Nonempty
<1>3. IsFiniteSet(Nonempty) /\ Cardinality(Nonempty) \in Nat
  BY <1>1, <1>2, FS_Subset, FS_CardinalityType
<1> DEFINE n == IF Cardinality(Nonempty) < MaxWorkers THEN Cardinality(Nonempty) ELSE MaxWorkers
<1>4. n \in Nat /\ n \in Int /\ 1 \in Int
  BY <1>3, PhaseAssumption
<1>5. Pool = 1..n
  BY DEF Pool
<1> HIDE DEF n
<1>6. IsFiniteSet(Pool) /\ Cardinality(Pool) = IF 1 > n THEN 0 ELSE n - 1 + 1
  BY <1>4, <1>5, FS_Interval
<1>7. Cardinality(Pool) = n
  BY <1>4, <1>6
<1> QED
  BY <1>3, <1>4, <1>6, <1>7 DEF n

\* All batches are with the feeder and all threads wait.
LEMMA InitRef == Init => IRef
<1> SUFFICES ASSUME Init PROVE IRef
  OBVIOUS
<1>1. IOne
  BY InitOne
<1>2. Ended = {} /\ Cardinality(Ended) = 0
  BY FS_EmptySet DEF Init, Ended
<1> QED
  BY <1>1, <1>2, PoolAssumption
  DEF Init, IRef, WithJobs, HasBatch, InOrder, DoneCounted, ClosedEmpty, FeederTyped

\* A batch in the channel keeps it open, and the feeder takes the first of the rest.
LEMMA FeedRef == ASSUME IRef, FeedBatch PROVE IRef'
<1> DEFINE d == First(unfed)
           n == Len(jobChan)
<1>1. /\ d \in unfed /\ \A e \in unfed : d <= e
      /\ unfed' = unfed \ {d} /\ UNCHANGED <<pc, batch>>
      /\ Len(jobChan') = n + 1 /\ jobChan'[n + 1] = d
      /\ \A i \in 1..n : jobChan'[i] = jobChan[i]
      /\ \A i \in 1..Len(jobChan') : i \in 1..n \/ i = n + 1
      /\ n \in Nat
  BY FeedMoves DEF IRef
<1> HIDE DEF d, n
<1>2. IOne' /\ unfed \subseteq Nat
  BY FeedOne, PhaseAssumption DEF IRef, IOne, PoolTyped, Drives
<1>3. WithJobs' /\ HasBatch'
  BY <1>1 DEF IRef, WithJobs, HasBatch, n
<1>4. InOrder'
  <2>1. ASSUME NEW i \in 1..Len(jobChan'), NEW j \in 1..Len(jobChan'), i < j
        PROVE  jobChan'[i] < jobChan'[j]
    BY <1>1, <2>1 DEF IRef, InOrder, n
  <2>2. ASSUME NEW i \in 1..Len(jobChan'), NEW e \in unfed'
        PROVE  jobChan'[i] < e
    BY <1>1, <1>2, <2>2 DEF IRef, InOrder, n
  <2> QED
    BY <2>1, <2>2 DEF InOrder
<1>5. DoneCounted' /\ ClosedEmpty' /\ FeederTyped'
  BY DEF FeedBatch, IRef, DoneCounted, ClosedEmpty, FeederTyped, Ended
<1> QED
  BY <1>2, <1>3, <1>4, <1>5 DEF IRef

\* The channel stays in order when its head is taken; a thread that finds it
\* empty and closed ends and says so.
LEMMA RecvRef == ASSUME IRef, NEW w \in Pool, Recv(w) PROVE IRef'
<1> DEFINE d == Head(jobChan)
<1>1. /\ d = jobChan[1] /\ 1 \in 1..Len(jobChan) /\ Len(jobChan) \in Nat
      /\ \A i \in 1..Len(jobChan') : /\ jobChan'[i] = jobChan[i + 1]
                                     /\ i + 1 \in 1..Len(jobChan) /\ i + 1 # 1
      /\ d \in Drives /\ batch'[w] = d /\ pc'[w] = "taken" /\ pc[w] = "recv"
      /\ \A v \in Pool : v # w => batch'[v] = batch[v] /\ pc'[v] = pc[v]
      /\ UNCHANGED <<unfed, left, feeder, joined, doneChan>>
  BY RecvMoves DEF IRef, Recv
<1> HIDE DEF d
<1>2. IOne' /\ d # 0 /\ jobChan # <<>>
  <2>1. IOne'
    BY RecvOne DEF IRef
  <2> QED
    BY <1>1, <2>1, PhaseAssumption DEF Drives, Recv
<1>3. WithJobs' /\ HasBatch'
  BY <1>1, <1>2 DEF IRef, WithJobs, HasBatch
<1>4. InOrder'
  <2>1. ASSUME NEW i \in 1..Len(jobChan'), NEW j \in 1..Len(jobChan'), i < j
        PROVE  jobChan'[i] < jobChan'[j]
    <3>1. i + 1 < j + 1
      BY <2>1
    <3> QED
      BY <1>1, <3>1 DEF IRef, InOrder
  <2>2. ASSUME NEW i \in 1..Len(jobChan'), NEW e \in unfed'
        PROVE  jobChan'[i] < e
    BY <1>1 DEF IRef, InOrder
  <2> QED
    BY <2>1, <2>2 DEF InOrder
<1>5. Ended' = Ended
  BY <1>1 DEF Ended
<1>6. DoneCounted' /\ FeederTyped'
  BY <1>1, <1>5 DEF IRef, DoneCounted, FeederTyped
<1>7. ClosedEmpty'
  BY <1>1, <1>2, <1>5 DEF IRef, ClosedEmpty, Ended
<1> QED
  BY <1>2, <1>3, <1>4, <1>6, <1>7 DEF IRef

\* Only an abort ends a thread at work, and only a normal end is reported as done.
LEMMA WorkRef ==
    ASSUME IRef, NEW w \in Pool,
           RecvClosed(w) \/ EnterBatch(w) \/ BeginJob(w) \/ JobCompletes(w) \/ JobAborts(w)
    PROVE  IRef'
<1>1. /\ UNCHANGED <<jobChan, unfed, feeder, joined>>
      /\ \A v \in Pool : v # w => batch'[v] = batch[v] /\ pc'[v] = pc[v]
      /\ batch'[w] = IF pc'[w] = "recv" THEN 0 ELSE batch[w]
      /\ pc[w] \notin {"ended", "lost"}
      /\ doneChan' = IF pc'[w] = "ended" THEN doneChan + 1 ELSE doneChan
      /\ pc'[w] # "ended" => pc[w] # "recv"
      /\ pc'[w] = "ended" /\ pc[w] = "recv" => jobChan = <<>> /\ feeder # "feeding"
      /\ left' \in [Drives -> Int]
  BY WorkMoves
<1>2. IOne'
  BY WorkOne DEF IRef
<1>3. WithJobs' /\ HasBatch' /\ InOrder' /\ FeederTyped'
  BY <1>1 DEF IRef, WithJobs, HasBatch, InOrder, FeederTyped
<1>4. DoneCounted'
  <2>1. Ended \in SUBSET Pool /\ IsFiniteSet(Ended) /\ w \notin Ended
    BY <1>1, PoolSize, FS_Subset DEF Ended
  <2>2. Ended' = IF pc'[w] = "ended" THEN Ended \cup {w} ELSE Ended
    BY <1>1 DEF Ended
  <2>3. Cardinality(Ended \cup {w}) = Cardinality(Ended) + 1
    BY <2>1, FS_AddElement
  <2> QED
    BY <1>1, <2>2, <2>3 DEF IRef, DoneCounted
<1>5. ClosedEmpty'
  <2> SUFFICES ASSUME NEW v \in Pool, pc'[v] = "ended", batch'[v] = 0
               PROVE  jobChan = <<>> /\ feeder # "feeding"
    BY <1>1 DEF ClosedEmpty, Ended
  <2>1. CASE v = w
    BY <1>1, <2>1 DEF IRef, HasBatch
  <2>2. CASE v # w
    BY <1>1, <2>2 DEF IRef, ClosedEmpty, Ended
  <2> QED
    BY <2>1, <2>2
<1> QED
  BY <1>2, <1>3, <1>4, <1>5 DEF IRef

\* The other steps of the feeder, and those of the flag.
LEMMA StepRef == ASSUME IRef, [Next]_vars PROVE IRef'
<1>1. CASE FeedBatch
  BY <1>1, FeedRef
<1>2. CASE \E w \in Pool : Thread(w)
  BY <1>2, RecvRef, WorkRef DEF Thread
<1>3. ASSUME UNCHANGED <<unfed, jobChan, pc, batch, left>>, IOne',
             \/ UNCHANGED <<feeder, joined, doneChan>>
             \/ FeederSeesAbort \/ CloseJobChan \/ RecvDone \/ ReturnOk \/ ReturnErr
      PROVE  IRef'
  <2>1. WithJobs' /\ HasBatch' /\ InOrder' /\ Ended' = Ended
    BY <1>3 DEF IRef, WithJobs, HasBatch, InOrder, Ended
  <2>2. DoneCounted'
    BY <1>3, <2>1
    DEF IRef, DoneCounted, FeederSeesAbort, CloseJobChan, RecvDone, ReturnOk, ReturnErr
  <2>3. ClosedEmpty' /\ FeederTyped'
    BY <1>3, <2>1
    DEF IRef, ClosedEmpty, FeederTyped, FeederSeesAbort, CloseJobChan, RecvDone, ReturnOk, ReturnErr
  <2> QED
    BY <1>3, <2>1, <2>2, <2>3 DEF IRef
<1>4. CASE FeederSeesAbort \/ CloseJobChan \/ RecvDone \/ ReturnOk \/ ReturnErr
  BY <1>3, <1>4, StepOne
  DEF IRef, Next, Feeder, FeederSeesAbort, CloseJobChan, RecvDone, ReturnOk, ReturnErr
<1>5. CASE GuiFlips \/ Gone \/ UNCHANGED vars
  BY <1>3, <1>5, StepOne DEF IRef, Next, GuiFlips, Gone, vars
<1> QED
  BY <1>1, <1>2, <1>4, <1>5 DEF Next, Feeder

-----------------------------------------------------------------------------
(* The mapping. *)

\* Where a batch is, by where the threads and channels have it.
Places == \A d \in Drives :
    /\ Jobs[d] = 0 => BatchOf(d) = "none"
    /\ d \in unfed => BatchOf(d) = "unfed"
    /\ \A i \in 1..Len(jobChan) : jobChan[i] = d => BatchOf(d) = "queued"
    /\ \A w \in Pool : batch[w] = d =>
           BatchOf(d) = IF pc[w] = "ended" THEN "quit" ELSE pc[w]
    /\ \/ d \in unfed
       \/ \E i \in 1..Len(jobChan) : jobChan[i] = d
       \/ \E w \in Pool : batch[w] = d
       \/ BatchOf(d) \in {"none", "finished"}

\* Where a batch is, read from the channel and the threads.
LEMMA BatchAt == IRef => Places
<1> SUFFICES ASSUME IRef, NEW d \in Drives
             PROVE  /\ Jobs[d] = 0 => BatchOf(d) = "none"
                    /\ d \in unfed => BatchOf(d) = "unfed"
                    /\ \A i \in 1..Len(jobChan) : jobChan[i] = d => BatchOf(d) = "queued"
                    /\ \A w \in Pool : batch[w] = d =>
                           BatchOf(d) = IF pc[w] = "ended" THEN "quit" ELSE pc[w]
                    /\ \/ d \in unfed
                       \/ \E i \in 1..Len(jobChan) : jobChan[i] = d
                       \/ \E w \in Pool : batch[w] = d
                       \/ BatchOf(d) \in {"none", "finished"}
  BY DEF Places
<1>1. Jobs[d] = 0 <=> d \notin Nonempty
  BY PoolAssumption DEF Nonempty
<1>2. d \in unfed => BatchOf(d) = "unfed"
  BY <1>1 DEF BatchOf, IRef, WithJobs
<1>3. \A i \in 1..Len(jobChan) : jobChan[i] = d => BatchOf(d) = "queued"
  BY <1>1 DEF BatchOf, IRef, WithJobs, IOne, OneWorkerPerDrive
<1>4. ASSUME NEW w \in Pool, batch[w] = d
      PROVE  BatchOf(d) = IF pc[w] = "ended" THEN "quit" ELSE pc[w]
  <2>1. d # 0 /\ d \in Nonempty /\ d \notin unfed
    BY <1>4, PhaseAssumption DEF Drives, IRef, WithJobs, IOne, OneWorkerPerDrive
  <2>2. \A i \in 1..Len(jobChan) : jobChan[i] # d
    BY <1>4 DEF IRef, IOne, OneWorkerPerDrive
  <2>3. OwnerOf(d) = {w}
    BY <1>4, <2>1 DEF OwnerOf, IRef, IOne, OneWorkerPerDrive
  <2>4. (CHOOSE v \in OwnerOf(d) : TRUE) = w
    BY <2>3
  <2> QED
    BY <1>1, <2>1, <2>2, <2>3, <2>4 DEF BatchOf
<1>5. \/ d \in unfed
      \/ \E i \in 1..Len(jobChan) : jobChan[i] = d
      \/ \E w \in Pool : batch[w] = d
      \/ BatchOf(d) \in {"none", "finished"}
  BY DEF BatchOf, OwnerOf
<1> QED
  BY <1>1, <1>2, <1>3, <1>4, <1>5 DEF BatchOf

\* The phase that the pool stands for, read in the abstract specification.
LEMMA ViewFields ==
    /\ PhaseView.feeder = IF feeder = "joining" THEN "feeding" ELSE feeder
    /\ PhaseView.left = left
    /\ \A d \in Drives : PhaseView.st[d] = BatchOf(d)
    /\ \A S : Abstract!In(PhaseView, S) = {d \in Drives : BatchOf(d) \in S}
    /\ Abstract!Drives = Drives
  BY DEF PhaseView, Abstract!In, Abstract!Drives, Drives

\* The abstract specification counts with the same Cardinality.
LEMMA SameCardinality == ASSUME NEW S PROVE Abstract!Cardinality(S) = Cardinality(S)
  BY DEF Abstract!Cardinality, Cardinality

\* The sets of drives that its operations look at.
LEMMA ViewSets ==
    ASSUME IRef
    PROVE  /\ Abstract!In(PhaseView, {"unfed"}) = unfed
           /\ Abstract!In(PhaseView, {"queued"}) = {jobChan[i] : i \in 1..Len(jobChan)}
           /\ Abstract!In(PhaseView, Abstract!Owned) =
                  {batch[w] : w \in {v \in Pool : pc[v] \in {"taken", "held", "running"}}}
           /\ Abstract!In(PhaseView, {"lost"}) = {batch[w] : w \in {v \in Pool : pc[v] = "lost"}}
           /\ Abstract!Batches(PhaseView) = Nonempty
           /\ Abstract!Workers(PhaseView) = Cardinality(Pool)
<1>1. /\ unfed \subseteq Drives
      /\ \A i \in 1..Len(jobChan) : jobChan[i] \in Drives
      /\ \A w \in Pool : /\ pc[w] \notin {"recv", "ended"} => batch[w] \in Drives
                         /\ pc[w] = "recv" => batch[w] = 0
                         /\ pc[w] \in {"recv", "taken", "held", "running", "ended", "lost"}
      /\ 0 \notin Drives
  BY ElementOfSeq, PhaseAssumption DEF IRef, IOne, PoolTyped, HasBatch, Drives
<1>2. Abstract!In(PhaseView, {"unfed"}) = unfed
  <2>1. \A d \in Drives : BatchOf(d) = "unfed" <=> d \in unfed
    BY <1>1, BatchAt DEF Places
  <2> QED
    BY <1>1, <2>1, ViewFields
<1>3. Abstract!In(PhaseView, {"queued"}) = {jobChan[i] : i \in 1..Len(jobChan)}
  BY <1>1, BatchAt, ViewFields DEF Places
<1>4. Abstract!In(PhaseView, Abstract!Owned) =
          {batch[w] : w \in {v \in Pool : pc[v] \in {"taken", "held", "running"}}}
  BY <1>1, BatchAt, ViewFields DEF Places, Abstract!Owned
<1>5. Abstract!In(PhaseView, {"lost"}) = {batch[w] : w \in {v \in Pool : pc[v] = "lost"}}
  BY <1>1, BatchAt, ViewFields DEF Places
<1>6. Abstract!Batches(PhaseView) = Nonempty
  <2>1. \A d \in Drives : BatchOf(d) = "none" <=> Jobs[d] = 0
    BY <1>1 DEF BatchOf, OwnerOf
  <2>2. Abstract!Batches(PhaseView) = {d \in Drives : BatchOf(d) # "none"}
    BY ViewFields DEF Abstract!Batches
  <2>3. \A d \in Drives : Jobs[d] \in Nat
    BY PoolAssumption
  <2> QED
    BY <2>1, <2>2, <2>3 DEF Nonempty
<1>7. Abstract!Workers(PhaseView) = Cardinality(Pool)
  <2>1. Abstract!Workers(PhaseView) = IF Cardinality(Nonempty) < MaxWorkers
                                      THEN Cardinality(Nonempty) ELSE MaxWorkers
    BY <1>6, SameCardinality DEF Abstract!Workers
  <2> QED
    BY <2>1, PoolSize
<1> QED
  BY <1>2, <1>3, <1>4, <1>5, <1>6, <1>7

\* A batch stays where it is while neither its place nor its thread steps.
LEMMA BatchStays ==
    ASSUME NEW e \in Drives,
           e \in unfed' <=> e \in unfed,
           (\E i \in 1..Len(jobChan') : jobChan'[i] = e)
               <=> (\E i \in 1..Len(jobChan) : jobChan[i] = e),
           \A w \in Pool : batch'[w] = e <=> batch[w] = e,
           \A w \in Pool : batch[w] = e => pc'[w] = pc[w]
    PROVE  BatchOf(e)' = BatchOf(e)
<1>1. OwnerOf(e)' = OwnerOf(e)
  BY DEF OwnerOf
<1>2. \A w \in OwnerOf(e) : pc'[w] = pc[w]
  BY DEF OwnerOf
<1> QED
  BY <1>1, <1>2 DEF BatchOf

\* A step that moves one batch is a move of the phase.
LEMMA ViewMoves ==
    ASSUME NEW d \in Drives, NEW to, BatchOf(d)' = to,
           \A e \in Drives : e # d => BatchOf(e)' = BatchOf(e),
           UNCHANGED <<feeder, left>>
    PROVE  PhaseView' = Abstract!Move(PhaseView, d, to)
<1>1. [e \in Drives |-> BatchOf(e)]' = [[e \in Drives |-> BatchOf(e)] EXCEPT ![d] = to]
  OBVIOUS
<1> DEFINE st == [e \in Drives |-> BatchOf(e)]
           fd == IF feeder = "joining" THEN "feeding" ELSE feeder
<1>2. PhaseView = [feeder |-> fd, st |-> st, left |-> left]
  BY DEF PhaseView
<1>3. PhaseView' = [feeder |-> fd, st |-> [st EXCEPT ![d] = to], left |-> left]
  BY <1>1 DEF PhaseView
<1> HIDE DEF st, fd
<1> QED
  BY <1>2, <1>3 DEF Abstract!Move

\* That holds after a step as well.
LEMMA BatchAtNext == IRef' => Places'
  BY BatchAt, PTL

\* A least element of a set of drives is its first one.
LEMMA FirstIs ==
    ASSUME NEW S \in SUBSET Drives, NEW d \in S, \A e \in S : d <= e
    PROVE  First(S) = d /\ Abstract!First(S) = d
<1>1. First(S) \in S /\ First(S) <= d
  BY FirstIn
<1>2. First(S) = d
  <2>1. \A e \in S : e \in Nat
    BY PhaseAssumption DEF Drives
  <2> DEFINE x == First(S)
  <2>2. x \in S /\ x <= d /\ d <= x
    BY <1>1
  <2> HIDE DEF x
  <2>3. x = d
    BY <2>1, <2>2
  <2> QED
    BY <2>3 DEF x
<1> QED
  BY <1>2 DEF First, Abstract!First

\* The batch fed is the first one the phase has left.
LEMMA FeedImplements ==
    ASSUME IRef, IRef', FeedBatch
    PROVE  Abstract!FeedBatch
<1> PICK d, n : d = First(unfed) /\ n = Len(jobChan)
  OBVIOUS
<1>1. /\ d \in unfed /\ \A e \in unfed : d <= e
      /\ unfed' = unfed \ {d} /\ UNCHANGED <<pc, batch>>
      /\ Len(jobChan') = n + 1 /\ jobChan'[n + 1] = d
      /\ \A i \in 1..n : jobChan'[i] = jobChan[i]
      /\ \A i \in 1..Len(jobChan') : i \in 1..n \/ i = n + 1
      /\ n \in Nat
  BY FeedMoves DEF IRef
<1>2. unfed \in SUBSET Drives /\ unfed # {}
  BY <1>1 DEF IRef, IOne, PoolTyped
<1>3. Abstract!First(unfed) = d
  BY <1>1, <1>2, FirstIs
<1>4. n + 1 \in 1..Len(jobChan') /\ \A i \in 1..n : i \in 1..Len(jobChan')
  BY <1>1
<1>5. BatchOf(d)' = "queued"
  BY <1>1, <1>2, <1>4, BatchAtNext DEF Places
<1>6. ASSUME NEW e \in Drives, e # d
      PROVE  BatchOf(e)' = BatchOf(e)
  <2>1. (\E i \in 1..Len(jobChan') : jobChan'[i] = e) <=> (\E i \in 1..n : jobChan[i] = e)
    BY <1>1, <1>4, <1>6
  <2> QED
    BY <1>1, <1>6, <2>1, BatchStays
<1>7. PhaseView' = Abstract!Move(PhaseView, d, "queued")
  BY <1>1, <1>2, <1>5, <1>6, ViewMoves DEF FeedBatch
<1>8. Abstract!CanFeed(PhaseView) /\ Abstract!Feed(PhaseView) = Abstract!Move(PhaseView, d, "queued")
  BY <1>2, <1>3, ViewFields, ViewSets DEF FeedBatch, Abstract!CanFeed, Abstract!Feed
<1> QED
  BY <1>7, <1>8 DEF FeedBatch, Abstract!FeedBatch

\* The batch received is the first one that the phase has in its queue.
LEMMA TakeImplements ==
    ASSUME IRef, IRef', NEW w \in Pool, Recv(w)
    PROVE  Abstract!TakeBatch
<1> PICK d : d = Head(jobChan)
  OBVIOUS
<1>1. /\ d \in Drives /\ d = jobChan[1] /\ 1 \in 1..Len(jobChan) /\ Len(jobChan) \in Nat
      /\ jobChan' \in Seq(Drives)
      /\ \A i \in 1..Len(jobChan') : /\ jobChan'[i] = jobChan[i + 1]
                                     /\ i + 1 \in 1..Len(jobChan) /\ i + 1 # 1
      /\ batch'[w] = d /\ pc'[w] = "taken" /\ pc[w] = "recv"
      /\ \A v \in Pool : v # w => batch'[v] = batch[v] /\ pc'[v] = pc[v]
      /\ UNCHANGED unfed
  BY RecvMoves DEF IRef
<1>2. Len(jobChan') = Len(jobChan) - 1
  BY HeadTailProperties DEF Recv, IRef, IOne, PoolTyped
<1> DEFINE queued == {jobChan[i] : i \in 1..Len(jobChan)}
<1>3. queued \in SUBSET Drives /\ d \in queued
  BY <1>1, ElementOfSeq DEF IRef, IOne, PoolTyped
<1>4. \A e \in queued : d <= e
  <2> SUFFICES ASSUME NEW i \in 1..Len(jobChan) PROVE d <= jobChan[i]
    OBVIOUS
  <2>1. Drives \subseteq Nat
    BY PhaseAssumption DEF Drives
  <2>2. i = 1 \/ 1 < i
    BY <1>1
  <2>3. d = jobChan[i] \/ d < jobChan[i]
    BY <1>1, <2>2 DEF IRef, InOrder
  <2>4. jobChan[i] \in Drives /\ d \in Drives
    BY <1>3
  <2>5. jobChan[i] \in Nat /\ d \in Nat
    BY <2>1, <2>4
  <2> QED
    BY <2>3, <2>5
<1>5. Abstract!First(queued) = d
  BY <1>3, <1>4, FirstIs
<1> HIDE DEF queued
<1>6. BatchOf(d)' = "taken"
  BY <1>1, BatchAtNext DEF Places
<1>7. ASSUME NEW e \in Drives, e # d
      PROVE  BatchOf(e)' = BatchOf(e)
  <2>1. batch[w] = 0 /\ e # 0
    BY <1>1, PhaseAssumption DEF IRef, HasBatch, Drives
  <2>2. \A i \in 1..Len(jobChan) : i # 1 => i - 1 \in 1..Len(jobChan') /\ jobChan'[i - 1] = jobChan[i]
    BY <1>1, <1>2
  <2>3. (\E i \in 1..Len(jobChan') : jobChan'[i] = e) <=> (\E i \in 1..Len(jobChan) : jobChan[i] = e)
    <3>1. ASSUME NEW i \in 1..Len(jobChan'), jobChan'[i] = e
          PROVE  \E j \in 1..Len(jobChan) : jobChan[j] = e
      BY <1>1, <3>1
    <3>2. ASSUME NEW i \in 1..Len(jobChan), jobChan[i] = e
          PROVE  \E j \in 1..Len(jobChan') : jobChan'[j] = e
      BY <1>1, <1>7, <2>2, <3>2
    <3> QED
      BY <3>1, <3>2
  <2> QED
    BY <1>1, <1>7, <2>1, <2>3, BatchStays
<1>8. PhaseView' = Abstract!Move(PhaseView, d, "taken")
  BY <1>1, <1>6, <1>7, ViewMoves DEF Recv
<1>9. Abstract!CanTake(PhaseView)
  <2> DEFINE W == {v \in Pool : pc[v] \notin {"recv"} /\ batch[v] # 0}
             T == Abstract!In(PhaseView, Abstract!Owned \cup Abstract!GivenUp)
             f == [v \in W |-> batch[v]]
  <2>1. W \in SUBSET (Pool \ {w})
    BY <1>1
  <2>2. IsFiniteSet(Pool \ {w}) /\ Cardinality(Pool \ {w}) = Cardinality(Pool) - 1
    BY PoolSize, FS_RemoveElement
  <2>3. IsFiniteSet(W) /\ Cardinality(W) <= Cardinality(Pool) - 1 /\ Cardinality(W) \in Nat
    BY <2>1, <2>2, FS_Subset, FS_CardinalityType
  <2>4. f \in Surjection(W, T)
    <3>1. \A v \in W : batch[v] \in Drives /\ pc[v] \in {"taken", "held", "running", "ended", "lost"}
      BY DEF IRef, IOne, PoolTyped
    <3>2. T = {e \in Drives : BatchOf(e) \in {"taken", "held", "running", "quit", "lost"}}
      BY ViewFields DEF Abstract!Owned, Abstract!GivenUp
    <3>3. \A v \in W : batch[v] \in T
      BY <3>1, <3>2, BatchAt DEF Places
    <3>4. ASSUME NEW e \in T PROVE \E v \in W : batch[v] = e
      <4>1. PICK v \in Pool : batch[v] = e
        BY <3>2, BatchAt DEF Places
      <4>2. e # 0
        BY <3>2, PhaseAssumption DEF Drives
      <4> QED
        BY <4>1, <4>2 DEF IRef, HasBatch
    <3> HIDE DEF T, W
    <3> QED
      BY <3>3, <3>4 DEF Surjection
  <2>5. Cardinality(T) <= Cardinality(W) /\ Cardinality(T) \in Nat
    BY <2>3, <2>4, FS_Surjection, FS_CardinalityType
  <2> HIDE DEF W, T
  <2>6. Cardinality(T) < Cardinality(Pool)
    BY <2>3, <2>5, PoolSize
  <2> QED
    BY <1>3, <2>6, ViewSets, SameCardinality DEF Abstract!CanTake, T, queued
<1>10. Abstract!Take(PhaseView) = Abstract!Move(PhaseView, d, "taken")
  BY <1>5, ViewSets DEF Abstract!Take, queued
<1> QED
  BY <1>8, <1>9, <1>10 DEF Recv, Abstract!TakeBatch

\* A step within the channels, or of a batchless thread, is no step of the phase.
LEMMA ViewStays ==
    ASSUME \A e \in Drives : BatchOf(e)' = BatchOf(e),
           (IF feeder = "joining" THEN "feeding" ELSE feeder)' =
               IF feeder = "joining" THEN "feeding" ELSE feeder,
           left' = left
    PROVE  PhaseView' = PhaseView
  BY DEF PhaseView

\* What a thread at work does to its batch, and to no other one.
LEMMA WorkPlaces ==
    ASSUME IRef, IRef', NEW w \in Pool,
           EnterBatch(w) \/ BeginJob(w) \/ JobCompletes(w) \/ JobAborts(w),
           NEW d, d = batch[w]
    PROVE  /\ d \in Drives /\ BatchOf(d) = pc[w]
           /\ BatchOf(d)' = IF pc'[w] = "recv" THEN "finished"
                            ELSE IF pc'[w] = "ended" THEN "quit" ELSE pc'[w]
           /\ \A e \in Drives : e # d => BatchOf(e)' = BatchOf(e)
<1>1. /\ UNCHANGED <<jobChan, unfed, feeder, joined>>
      /\ \A v \in Pool : v # w => batch'[v] = batch[v] /\ pc'[v] = pc[v]
      /\ batch'[w] = IF pc'[w] = "recv" THEN 0 ELSE batch[w]
      /\ pc[w] \notin {"ended", "lost"}
  BY WorkMoves
<1>2. pc[w] # "recv"
  BY DEF EnterBatch, BeginJob, JobCompletes, JobAborts
<1>3. d \in Drives /\ d # 0 /\ d \in Nonempty
  BY <1>1, <1>2 DEF IRef, IOne, PoolTyped, HasBatch, WithJobs
<1>4. BatchOf(d) = pc[w]
  BY <1>1, <1>2, <1>3, BatchAt DEF Places
<1>5. CASE pc'[w] # "recv"
  <2>1. BatchOf(d)' = IF pc'[w] = "ended" THEN "quit" ELSE pc'[w]
    BY <1>1, <1>3, <1>5, BatchAtNext DEF Places
  <2>2. \A e \in Drives : e # d => BatchOf(e)' = BatchOf(e)
    BY <1>1, <1>5, BatchStays
  <2> QED
    BY <1>3, <1>4, <1>5, <2>1, <2>2
<1>6. CASE pc'[w] = "recv"
  <2>1. \A v \in Pool : v # w => batch[v] # d
    BY <1>3 DEF IRef, IOne, OneWorkerPerDrive
  <2>2. OwnerOf(d)' = {}
    BY <1>1, <1>3, <1>6, <2>1 DEF OwnerOf
  <2>3. d \notin unfed /\ \A i \in 1..Len(jobChan) : jobChan[i] # d
    BY DEF IRef, IOne, OneWorkerPerDrive
  <2>4. Jobs[d] # 0
    BY <1>3, PoolAssumption DEF Nonempty
  <2>5. BatchOf(d)' = "finished"
    BY <1>1, <2>2, <2>3, <2>4 DEF BatchOf
  <2>6. ASSUME NEW e \in Drives, e # d
        PROVE  BatchOf(e)' = BatchOf(e)
    <3>1. e # 0
      BY PhaseAssumption DEF Drives
    <3> QED
      BY <1>1, <1>6, <2>6, <3>1, BatchStays
  <2> QED
    BY <1>3, <1>4, <1>6, <2>5, <2>6
<1> QED
  BY <1>5, <1>6

\* The outcome of a job, field by field.
LEMMA CompleteRecord ==
    ASSUME NEW fd, NEW st, NEW lf, NEW d
    PROVE  Abstract!Complete([feeder |-> fd, st |-> st, left |-> lf], d) =
               [feeder |-> fd,
                st     |-> [st EXCEPT ![d] = IF lf[d] = 1 THEN "finished" ELSE "held"],
                left   |-> [lf EXCEPT ![d] = @ - 1]]
<1> DEFINE s == IF lf[d] = 1 THEN "finished" ELSE "held"
           p == [feeder |-> fd, st |-> st, left |-> lf]
           q == [feeder |-> fd, st |-> [st EXCEPT ![d] = s], left |-> lf]
<1>1. p.st = st /\ p.left = lf /\ q.left = lf
  OBVIOUS
<1>2. [p EXCEPT !.st = [st EXCEPT ![d] = s]] = q
  OBVIOUS
<1>3. [q EXCEPT !.left = [lf EXCEPT ![d] = @ - 1]]
          = [feeder |-> fd, st |-> [st EXCEPT ![d] = s], left |-> [lf EXCEPT ![d] = @ - 1]]
  OBVIOUS
<1> SUFFICES Abstract!Complete(p, d) =
                 [feeder |-> fd, st |-> [st EXCEPT ![d] = s], left |-> [lf EXCEPT ![d] = @ - 1]]
  OBVIOUS
<1> HIDE DEF p, q
<1>4. Abstract!Complete(p, d) = [q EXCEPT !.left = [q.left EXCEPT ![d] = @ - 1]]
  BY <1>1, <1>2 DEF Abstract!Complete
<1> QED
  BY <1>1, <1>3, <1>4

\* The steps of a thread at work are those of its batch.
LEMMA WorkImplements ==
    ASSUME IRef, IRef', NEW w \in Pool,
           EnterBatch(w) \/ BeginJob(w) \/ JobCompletes(w) \/ JobAborts(w)
    PROVE  \E d \in Drives : Abstract!EnterBatch(d) \/ Abstract!BeginJob(d)
                             \/ Abstract!JobCompletes(d) \/ Abstract!JobAborts(d)
<1> PICK d : d = batch[w]
  OBVIOUS
<1>1. /\ d \in Drives /\ BatchOf(d) = pc[w]
      /\ BatchOf(d)' = IF pc'[w] = "recv" THEN "finished"
                       ELSE IF pc'[w] = "ended" THEN "quit" ELSE pc'[w]
      /\ \A e \in Drives : e # d => BatchOf(e)' = BatchOf(e)
  BY WorkPlaces
<1>2. /\ pc \in [Pool -> {"recv", "taken", "held", "running", "ended", "lost"}]
      /\ left \in [Drives -> Int] /\ PhaseView.st[d] = pc[w]
  BY <1>1, ViewFields DEF IRef, IOne, PoolTyped, FeederTyped
<1>3. CASE EnterBatch(w)
  <2>1. /\ pc[w] = "taken" /\ UNCHANGED <<cancel, feeder, left>>
        /\ \/ cancel /\ pc'[w] = "ended" /\ sent' = Append(sent, Aborted)
           \/ ~cancel /\ pc'[w] = "held" /\ sent' = sent
    BY <1>2, <1>3 DEF EnterBatch, Emit
  <2>2. PhaseView' = Abstract!Move(PhaseView, d, IF cancel THEN "quit" ELSE "held")
    BY <1>1, <2>1, ViewMoves
  <2>3. Abstract!EnterBatch(d)
    BY <1>2, <2>1, <2>2 DEF Abstract!EnterBatch, Abstract!Emit, Abstract!Aborted, Aborted
  <2> QED
    BY <1>1, <2>3
<1>4. CASE BeginJob(w)
  <2>1. /\ pc[w] = "held" /\ UNCHANGED <<cancel, feeder, left>>
        /\ \/ cancel /\ pc'[w] = "lost" /\ sent' = Append(sent, Aborted)
           \/ ~cancel /\ pc'[w] = "running" /\ sent' = sent
    BY <1>2, <1>4 DEF BeginJob, Lose, Emit
  <2>2. PhaseView' = Abstract!Move(PhaseView, d, IF cancel THEN "lost" ELSE "running")
    BY <1>1, <2>1, ViewMoves
  <2>3. Abstract!BeginJob(d)
    BY <1>2, <2>1, <2>2 DEF Abstract!BeginJob, Abstract!Emit, Abstract!Aborted, Aborted
  <2> QED
    BY <1>1, <2>3
<1>5. CASE JobAborts(w)
  <2>1. /\ pc[w] = "running" /\ UNCHANGED <<cancel, feeder, left>>
        /\ cancel /\ pc'[w] = "lost" /\ sent' = Append(sent, Aborted)
    BY <1>2, <1>5 DEF JobAborts, Lose, Emit
  <2>2. PhaseView' = Abstract!Move(PhaseView, d, "lost")
    BY <1>1, <2>1, ViewMoves
  <2>3. Abstract!JobAborts(d)
    BY <1>2, <2>1, <2>2 DEF Abstract!JobAborts, Abstract!Emit, Abstract!Aborted, Aborted
  <2> QED
    BY <1>1, <2>3
<1>6. CASE JobCompletes(w)
  <2> DEFINE to == IF left[d] = 1 THEN "finished" ELSE "held"
  <2>1. /\ pc[w] = "running" /\ UNCHANGED <<cancel, feeder>>
        /\ pc'[w] = IF left[d] = 1 THEN "recv" ELSE "held"
        /\ left' = [left EXCEPT ![d] = @ - 1]
        /\ sent' = Append(sent, Result(d, Jobs[d] - left[d] + 1))
    BY <1>2, <1>6 DEF JobCompletes, Emit
  <2>2. BatchOf(d)' = to
    BY <1>1, <2>1
  <2>3. [e \in Drives |-> BatchOf(e)]' = [[e \in Drives |-> BatchOf(e)] EXCEPT ![d] = to]
    BY <1>1, <2>2
  <2> DEFINE st == [e \in Drives |-> BatchOf(e)]
             fd == IF feeder = "joining" THEN "feeding" ELSE feeder
             lf == [left EXCEPT ![d] = @ - 1]
  <2>4. PhaseView = [feeder |-> fd, st |-> st, left |-> left]
    BY DEF PhaseView
  <2>5. PhaseView' = [feeder |-> fd, st |-> [st EXCEPT ![d] = to], left |-> lf]
    BY <2>1, <2>3 DEF PhaseView
  <2> HIDE DEF st, fd
  <2>6. Abstract!Complete(PhaseView, d) =
            [feeder |-> fd, st |-> [st EXCEPT ![d] = to], left |-> lf]
    BY <2>4, CompleteRecord
  <2>7. Abstract!JobCompletes(d)
    BY <1>2, <2>1, <2>5, <2>6, ViewFields
    DEF Abstract!JobCompletes, Abstract!Emit, Abstract!Result, Result
  <2> QED
    BY <1>1, <2>7
<1> QED
  BY <1>3, <1>4, <1>5, <1>6

\* When no thread is left, the pool has ended: no batch is with a thread, and
\* one in the channel means that each of the threads has given up another.
LEMMA GoneMeansEnded ==
    ASSUME IRef, \A w \in Pool : pc[w] \in {"ended", "lost"}
    PROVE  Abstract!PoolEnded(PhaseView)
<1>1. Abstract!In(PhaseView, Abstract!Owned) = {}
  BY ViewSets
<1>2. CASE jobChan = <<>>
  <2>1. Abstract!In(PhaseView, {"queued"}) = {}
    BY <1>2, ViewSets
  <2> QED
    BY <1>1, <2>1 DEF Abstract!PoolEnded
<1>3. CASE jobChan # <<>>
  <2> DEFINE T == Abstract!In(PhaseView, Abstract!GivenUp)
             f == [w \in Pool |-> batch[w]]
  <2>1. \A w \in Pool : batch[w] # 0 /\ batch[w] \in Drives
    BY <1>3 DEF IRef, ClosedEmpty, Ended, HasBatch, IOne, PoolTyped
  <2>2. T = {d \in Drives : BatchOf(d) \in {"quit", "lost"}}
    BY ViewFields DEF Abstract!GivenUp
  <2>3. \A w \in Pool : batch[w] \in T
    BY <2>1, <2>2, BatchAt DEF Places
  <2>4. \A d \in T : \E w \in Pool : batch[w] = d
    BY <2>2, BatchAt DEF Places
  <2>5. \A v, w \in Pool : batch[v] = batch[w] => v = w
    BY <2>1 DEF IRef, IOne, OneWorkerPerDrive
  <2> HIDE DEF T
  <2>6. f \in Surjection(Pool, T)
    BY <2>3, <2>4 DEF Surjection
  <2>7. f \in Injection(Pool, T)
    BY <2>3, <2>5 DEF Injection, IsInjective
  <2>8. Cardinality(T) = Cardinality(Pool)
    BY <2>6, <2>7, PoolSize, FS_Surjection
  <2> QED
    BY <1>1, <2>8, ViewSets, SameCardinality DEF Abstract!PoolEnded, T
<1> QED
  BY <1>2, <1>3

\* A step of the feeder alone changes the feeder of the phase.
LEMMA ViewReturns ==
    ASSUME \A e \in Drives : BatchOf(e)' = BatchOf(e), left' = left,
           NEW fd, (IF feeder = "joining" THEN "feeding" ELSE feeder)' = fd
    PROVE  PhaseView' = [PhaseView EXCEPT !.feeder = fd]
<1> DEFINE st == [e \in Drives |-> BatchOf(e)]
<1>1. PhaseView.st = st /\ PhaseView' = [feeder |-> fd, st |-> st, left |-> left]
  BY DEF PhaseView
<1>2. PhaseView = [feeder |-> PhaseView.feeder, st |-> st, left |-> left]
  BY DEF PhaseView
<1> HIDE DEF st
<1> QED
  BY <1>1, <1>2

\* The feeder returns when the phase may, and with the phase's answer.
LEMMA ReturnImplements ==
    ASSUME IRef, ReturnOk \/ ReturnErr
    PROVE  Abstract!PhaseReturns
<1>1. /\ UNCHANGED <<cancel, unfed, jobChan, pc, batch, left, sent>>
      /\ feeder = "joining" /\ unfed = {}
      /\ feeder' \in {"ok", "err"}
  BY DEF ReturnOk, ReturnErr, IRef, FeederTyped
<1>2. Ended \in SUBSET Pool /\ IsFiniteSet(Ended) /\ Cardinality(Ended) <= Cardinality(Pool)
  BY PoolSize, FS_Subset DEF Ended
<1>3. /\ \A w \in Pool : pc[w] \in {"ended", "lost"}
      /\ feeder' = IF \E w \in Pool : pc[w] = "lost" THEN "err" ELSE "ok"
  <2>1. CASE ReturnOk
    <3>1. Cardinality(Ended) = Cardinality(Pool)
      BY <1>2, <2>1, PoolSize, FS_CardinalityType DEF ReturnOk, AllJoined, IRef, DoneCounted
    <3>2. Ended = Pool
      BY <1>2, <3>1, PoolSize, FS_Subset
    <3> QED
      BY <2>1, <3>2 DEF ReturnOk, Ended
  <2>2. CASE ReturnErr
    <3>1. Ended # Pool
      BY <2>2 DEF ReturnErr, AllJoined, IRef, DoneCounted
    <3> QED
      BY <2>2, <3>1 DEF ReturnErr, Ended
  <2> QED
    BY <2>1, <2>2
<1>4. Abstract!CanReturn(PhaseView)
  BY <1>1, <1>3, GoneMeansEnded, ViewSets, ViewFields DEF Abstract!CanReturn
<1>5. Abstract!In(PhaseView, {"lost"}) = {} <=> ~\E w \in Pool : pc[w] = "lost"
  BY ViewSets
<1>6. \A e \in Drives : BatchOf(e)' = BatchOf(e)
  BY <1>1, BatchStays
<1>7. PhaseView' = [PhaseView EXCEPT !.feeder = feeder']
  BY <1>1, <1>6, ViewReturns
<1> QED
  BY <1>1, <1>3, <1>4, <1>5, <1>7 DEF Abstract!PhaseReturns, Abstract!Return

\* The feeder that sees the flag stops feeding.
LEMMA SeesAbortImplements ==
    ASSUME IRef, FeederSeesAbort
    PROVE  Abstract!FeederSeesAbort
<1>1. \A e \in Drives : BatchOf(e)' = BatchOf(e)
  BY BatchStays DEF FeederSeesAbort
<1>2. PhaseView' = [PhaseView EXCEPT !.feeder = "ok"]
  BY <1>1, ViewReturns DEF FeederSeesAbort
<1>3. Abstract!CanFeed(PhaseView)
  BY ViewSets, ViewFields DEF Abstract!CanFeed, FeederSeesAbort
<1> QED
  BY <1>2, <1>3
  DEF FeederSeesAbort, Abstract!FeederSeesAbort, Abstract!StopFeeding, Abstract!Emit, Emit,
      Abstract!Aborted, Aborted

\* Closing the channel, counting a done message and ending without a batch
\* are not seen in the phase.
LEMMA HiddenSteps ==
    ASSUME IRef, IRef',
           CloseJobChan \/ RecvDone \/ (\E w \in Pool : RecvClosed(w)) \/ Gone \/ UNCHANGED vars
    PROVE  UNCHANGED <<PhaseView, cancel, sent>>
<1>1. /\ UNCHANGED <<cancel, unfed, jobChan, batch, left, sent>>
      /\ (IF feeder = "joining" THEN "feeding" ELSE feeder)' =
             IF feeder = "joining" THEN "feeding" ELSE feeder
      /\ pc' = pc \/ \E w \in Pool : batch[w] = 0 /\ \A v \in Pool : v # w => pc'[v] = pc[v]
  BY DEF CloseJobChan, RecvDone, RecvClosed, Gone, vars, IRef, IOne, PoolTyped, HasBatch
<1>2. 0 \notin Drives
  BY PhaseAssumption DEF Drives
<1>3. \A e \in Drives : BatchOf(e)' = BatchOf(e)
  BY <1>1, <1>2, BatchStays
<1> QED
  BY <1>1, <1>3, ViewStays

\* The GUI's flag is the flag of the phase.
LEMMA FlipImplements == ASSUME IRef, GuiFlips PROVE Abstract!GuiFlips
<1>1. \A e \in Drives : BatchOf(e)' = BatchOf(e)
  BY BatchStays DEF GuiFlips
<1> QED
  BY <1>1, ViewStays DEF GuiFlips, Abstract!GuiFlips

\* Every step of the threads and channels is one of the phase, or none.
LEMMA StepImplements ==
    ASSUME IRef, IRef', [Next]_vars
    PROVE  [Abstract!Next]_(Abstract!vars)
<1>1. CASE \E w \in Pool : EnterBatch(w) \/ BeginJob(w) \/ JobCompletes(w) \/ JobAborts(w)
  BY <1>1, WorkImplements, ViewFields DEF Abstract!Next
<1>2. CASE \E w \in Pool : Recv(w)
  BY <1>2, TakeImplements DEF Abstract!Next
<1>3. CASE FeedBatch \/ FeederSeesAbort \/ ReturnOk \/ ReturnErr \/ GuiFlips
  BY <1>3, FeedImplements, SeesAbortImplements, ReturnImplements, FlipImplements
  DEF Abstract!Next
<1>4. CASE CloseJobChan \/ RecvDone \/ (\E w \in Pool : RecvClosed(w)) \/ Gone \/ UNCHANGED vars
  BY <1>4, HiddenSteps DEF Abstract!vars
<1> QED
  BY <1>1, <1>2, <1>3, <1>4 DEF Next, Feeder, Thread

\* The pool starts as a new phase.
LEMMA InitImplements == Init => Abstract!Init
<1> SUFFICES ASSUME Init PROVE Abstract!Init
  OBVIOUS
<1>1. \A d \in Drives : BatchOf(d) = IF Jobs[d] = 0 THEN "none" ELSE "unfed"
  BY PoolAssumption DEF Init, BatchOf, Nonempty
<1> QED
  BY <1>1 DEF Init, PhaseView, Abstract!Init, Abstract!NewPhase, Abstract!Drives, Drives

\* run_drive_phase with its threads and channels keeps the promise of
\* DrivePhase, whatever the number of drives, workers and jobs: each batch is
\* worked on once and in order, and the call returns when nothing is left to
\* report or the abort flag was seen.
THEOREM PoolImplementsPhase == Spec => ImplementsPhase
<1>1. Init => Abstract!Init
  BY InitImplements
<1>2. IRef /\ [Next]_vars => IRef'
  BY StepRef
<1>3. IRef /\ IRef' /\ [Next]_vars => [Abstract!Next]_(Abstract!vars)
  BY StepImplements
<1> QED
  BY InitRef, <1>1, <1>2, <1>3, PTL DEF Spec, ImplementsPhase, Abstract!Spec

-----------------------------------------------------------------------------
(***************************************************************************)
(* The results of a drive are its jobs in order.  What the invariant adds: *)
(* a batch that is waiting or in work has a job left, so that the job in   *)
(* progress is the first one without an outcome.                           *)
(***************************************************************************)

Event == [type : {"Aborted"}] \cup [type : {"Result"}, drive : Drives, job : Int]

WorkLeft ==
    /\ \A d \in unfed : left[d] > 0
    /\ \A i \in 1..Len(jobChan) : left[jobChan[i]] > 0
    /\ \A w \in Pool : batch[w] # 0 => left[batch[w]] > 0

ResultsOfIn(d) ==
    /\ Jobs[d] - left[d] \in 0..Jobs[d]
    /\ {sent[i].job : i \in ResultsOf(d)} = 1..(Jobs[d] - left[d])
    /\ \A i, j \in ResultsOf(d) : i < j => sent[i].job < sent[j].job

IRes == sent \in Seq(Event) /\ WorkLeft /\ \A d \in Drives : ResultsOfIn(d)

\* Nothing has been sent and every batch has all its jobs left.
LEMMA InitRes == Init => IRes
<1> SUFFICES ASSUME Init PROVE IRes
  OBVIOUS
<1>1. sent \in Seq(Event) /\ Len(sent) = 0
  BY DEF Init
<1>2. \A d \in Drives : Jobs[d] - left[d] = 0 /\ Jobs[d] \in Nat /\ ResultsOf(d) = {}
  BY <1>1, PoolAssumption DEF Init, ResultsOf
<1>3. WorkLeft
  BY DEF Init, WorkLeft, Nonempty
<1>4. ASSUME NEW d \in Drives PROVE ResultsOfIn(d)
  <2>1. Jobs[d] - left[d] \in 0..Jobs[d] /\ 1..(Jobs[d] - left[d]) = {}
    BY <1>2
  <2>2. {sent[i].job : i \in ResultsOf(d)} = {}
    BY <1>2
  <2> QED
    BY <1>2, <2>1, <2>2 DEF ResultsOfIn
<1> QED
  BY <1>1, <1>3, <1>4 DEF IRes

\* The events that were sent stay, and the new one follows them.
LEMMA Emitted ==
    ASSUME sent \in Seq(Event), NEW e \in Event, Emit(e)
    PROVE  /\ sent' \in Seq(Event) /\ Len(sent) \in Nat
           /\ Len(sent') = Len(sent) + 1 /\ sent'[Len(sent) + 1] = e
           /\ \A i \in 1..Len(sent) : sent'[i] = sent[i]
  BY DEF Emit

\* Of the events, those with a result of the drive: as before, or the new one too.
LEMMA EmittedResults ==
    ASSUME sent \in Seq(Event), NEW e \in Event, Emit(e), NEW d \in Drives
    PROVE  ResultsOf(d)' = IF e.type = "Result" /\ e.drive = d
                           THEN ResultsOf(d) \cup {Len(sent) + 1} ELSE ResultsOf(d)
<1>1. /\ Len(sent) \in Nat /\ Len(sent') = Len(sent) + 1 /\ sent'[Len(sent) + 1] = e
      /\ \A i \in 1..Len(sent) : sent'[i] = sent[i]
  BY Emitted
<1>2. \A i : i \in 1..Len(sent') <=> i \in 1..Len(sent) \/ i = Len(sent) + 1
  BY <1>1
<1> QED
  BY <1>1, <1>2 DEF ResultsOf

\* An abort that is told changes nothing about the results.
LEMMA QuietResults ==
    ASSUME sent \in Seq(Event), sent' = sent \/ Emit(Aborted),
           NEW d \in Drives, ResultsOfIn(d), left'[d] = left[d]
    PROVE  ResultsOfIn(d)' /\ sent' \in Seq(Event)
<1>1. CASE sent' = sent
  BY <1>1 DEF ResultsOfIn, ResultsOf
<1>2. CASE Emit(Aborted)
  <2>1. Aborted \in Event /\ Aborted.type # "Result"
    BY DEF Aborted, Event
  <2>2. ResultsOf(d)' = ResultsOf(d) /\ sent' \in Seq(Event)
    BY <1>2, <2>1, EmittedResults, Emitted
  <2>3. \A i \in ResultsOf(d) : sent'[i] = sent[i]
    BY <1>2, <2>1, Emitted DEF ResultsOf
  <2>4. {sent'[i].job : i \in ResultsOf(d)'} = {sent[i].job : i \in ResultsOf(d)}
    BY <2>2, <2>3
  <2> QED
    BY <2>2, <2>3, <2>4 DEF ResultsOfIn
<1> QED
  BY <1>1, <1>2

\* The feeder and the channel pass batches on with the jobs that they have.
LEMMA PassesOn ==
    ASSUME IRef, IRes, FeedBatch \/ \E w \in Pool : Recv(w)
    PROVE  IRes'
<1>1. sent' = sent /\ left' = left
  BY DEF FeedBatch, Recv
<1>2. WorkLeft'
  <2>1. CASE FeedBatch
    <3> DEFINE d == First(unfed)
    <3>1. /\ d \in unfed /\ unfed' = unfed \ {d} /\ batch' = batch
          /\ jobChan'[Len(jobChan) + 1] = d
          /\ \A i \in 1..Len(jobChan) : jobChan'[i] = jobChan[i]
          /\ \A i \in 1..Len(jobChan') : i \in 1..Len(jobChan) \/ i = Len(jobChan) + 1
      BY <2>1, FeedMoves DEF IRef
    <3> HIDE DEF d
    <3> QED
      BY <1>1, <3>1 DEF IRes, WorkLeft
  <2>2. ASSUME NEW w \in Pool, Recv(w) PROVE WorkLeft'
    <3> DEFINE d == Head(jobChan)
    <3>1. /\ d = jobChan[1] /\ 1 \in 1..Len(jobChan)
          /\ \A i \in 1..Len(jobChan') : /\ jobChan'[i] = jobChan[i + 1]
                                         /\ i + 1 \in 1..Len(jobChan)
          /\ batch'[w] = d /\ unfed' = unfed
          /\ \A v \in Pool : v # w => batch'[v] = batch[v]
      BY <2>2, RecvMoves DEF IRef
    <3> HIDE DEF d
    <3> QED
      BY <1>1, <3>1 DEF IRes, WorkLeft
  <2> QED
    BY <2>1, <2>2
<1>3. ASSUME NEW d \in Drives PROVE ResultsOfIn(d)'
  BY <1>1, QuietResults DEF IRes
<1> QED
  BY <1>1, <1>2, <1>3 DEF IRes

\* A thread that does not complete a job leaves the results as they are.
LEMMA WorkQuiet ==
    ASSUME IRef, IRes, NEW w \in Pool,
           RecvClosed(w) \/ EnterBatch(w) \/ BeginJob(w) \/ JobAborts(w)
    PROVE  IRes'
<1>1. /\ sent' = sent \/ Emit(Aborted)
      /\ left' = left /\ UNCHANGED <<unfed, jobChan, batch>>
  BY DEF RecvClosed, EnterBatch, BeginJob, JobAborts, Lose
<1>2. WorkLeft'
  BY <1>1 DEF IRes, WorkLeft
<1>3. ASSUME NEW d \in Drives PROVE ResultsOfIn(d)' /\ sent' \in Seq(Event)
  BY <1>1, QuietResults DEF IRes
<1>4. \E d \in Drives : TRUE
  BY PhaseAssumption DEF Drives
<1> QED
  BY <1>2, <1>3, <1>4 DEF IRes

\* A completed job is the first one of its drive without an outcome.
LEMMA CompletedResult ==
    ASSUME IRef, IRes, NEW w \in Pool, JobCompletes(w)
    PROVE  IRes'
<1>1. PICK d : d = batch[w]
  OBVIOUS
<1>2. /\ d \in Drives /\ left[d] > 0 /\ left \in [Drives -> Int] /\ Jobs[d] \in Nat
      /\ batch \in [Pool -> Drives \cup {0}]
  BY <1>1, PoolAssumption
  DEF IRef, IOne, PoolTyped, HasBatch, FeederTyped, JobCompletes, IRes, WorkLeft
<1>3. PICK k : k = Jobs[d] - left[d] + 1
  OBVIOUS
<1>4. /\ k \in Int /\ Jobs[d] - left[d] = k - 1 /\ k - 1 \in 0..Jobs[d] /\ k <= Jobs[d]
      /\ left'[d] = left[d] - 1 /\ Jobs[d] - left'[d] = k
      /\ \A e \in Drives : e # d => left'[e] = left[e]
      /\ UNCHANGED <<unfed, jobChan>>
      /\ \A v \in Pool : v # w => batch'[v] = batch[v]
      /\ batch'[w] = 0 \/ (batch'[w] = d /\ left[d] # 1)
      /\ Emit(Result(d, k))
  <2>1. left' = [left EXCEPT ![d] = @ - 1] /\ Emit(Result(d, k)) /\ UNCHANGED <<unfed, jobChan>>
    BY <1>1, <1>3 DEF JobCompletes
  <2>2. batch' = [batch EXCEPT ![w] = IF left[d] = 1 THEN 0 ELSE d]
    BY <1>1 DEF JobCompletes
  <2>3. /\ left'[d] = left[d] - 1 /\ left[d] \in Int
        /\ \A e \in Drives : e # d => left'[e] = left[e]
    BY <1>2, <2>1
  <2>4. Jobs[d] - left[d] \in 0..Jobs[d]
    BY <1>2 DEF IRes, ResultsOfIn
  <2>5. /\ \A v \in Pool : v # w => batch'[v] = batch[v]
        /\ batch'[w] = 0 \/ (batch'[w] = d /\ left[d] # 1)
    BY <1>2, <2>2
  <2>6. /\ k \in Int /\ Jobs[d] - left[d] = k - 1 /\ k - 1 \in 0..Jobs[d] /\ k <= Jobs[d]
        /\ Jobs[d] - left'[d] = k
    BY <1>2, <1>3, <2>3, <2>4
  <2> QED
    BY <2>1, <2>3, <2>5, <2>6
<1>5. Result(d, k) \in Event /\ Result(d, k).type = "Result"
      /\ Result(d, k).drive = d /\ Result(d, k).job = k
  BY <1>2, <1>4 DEF Result, Event
<1>6. /\ sent' \in Seq(Event) /\ Len(sent) \in Nat
      /\ Len(sent') = Len(sent) + 1 /\ sent'[Len(sent) + 1].job = k
      /\ \A i \in 1..Len(sent) : sent'[i] = sent[i]
  BY <1>4, <1>5, Emitted DEF IRes
<1>7. WorkLeft'
  <2>1. \A i \in 1..Len(jobChan) : jobChan[i] # d /\ jobChan[i] \in Drives
    BY <1>1, ElementOfSeq DEF IRef, IOne, PoolTyped, OneWorkerPerDrive
  <2>2. \A v \in Pool : v # w /\ batch[v] # 0 => batch[v] # d /\ batch[v] \in Drives
    BY <1>1, <1>2 DEF IRef, IOne, OneWorkerPerDrive
  <2>3. \A e \in unfed : e # d /\ e \in Drives
    BY <1>1 DEF IRef, IOne, PoolTyped, OneWorkerPerDrive
  <2>4. left[d] # 1 => left'[d] > 0
    BY <1>2, <1>4
  <2> QED
    BY <1>4, <2>1, <2>2, <2>3, <2>4 DEF IRes, WorkLeft
<1>8. ASSUME NEW e \in Drives, e # d PROVE ResultsOfIn(e)'
  <2>1. ResultsOf(e)' = ResultsOf(e)
    BY <1>4, <1>5, <1>8, EmittedResults DEF IRes
  <2>2. \A i \in ResultsOf(e) : sent'[i] = sent[i]
    BY <1>6 DEF ResultsOf
  <2>3. {sent'[i].job : i \in ResultsOf(e)'} = {sent[i].job : i \in ResultsOf(e)}
    BY <2>1, <2>2
  <2> QED
    BY <1>4, <1>8, <2>1, <2>2, <2>3 DEF IRes, ResultsOfIn
<1>9. ResultsOfIn(d)'
  <2> DEFINE n == Len(sent) + 1
  <2>1. ResultsOf(d)' = ResultsOf(d) \cup {n}
    <3>1. PICK e \in Event : e = Result(d, k)
      BY <1>5
    <3>2. Emit(e) /\ sent \in Seq(Event)
      BY <1>4, <3>1 DEF IRes
    <3>3. ResultsOf(d)' = IF e.type = "Result" /\ e.drive = d
                          THEN ResultsOf(d) \cup {Len(sent) + 1} ELSE ResultsOf(d)
      BY <1>2, <3>2, EmittedResults
    <3> QED
      BY <1>5, <3>1, <3>3
  <2>2. \A i \in ResultsOf(d) : sent'[i] = sent[i] /\ i \in 1..Len(sent) /\ i < n
    BY <1>6 DEF ResultsOf
  <2>3. {sent[i].job : i \in ResultsOf(d)} = 1..(k - 1)
    BY <1>2, <1>4 DEF IRes, ResultsOfIn
  <2>4. {sent'[i].job : i \in ResultsOf(d)'} = 1..(k - 1) \cup {k}
    BY <1>6, <2>1, <2>2, <2>3
  <2>5. 1..(k - 1) \cup {k} = 1..k
    BY <1>4
  <2>6. \A i \in ResultsOf(d) : sent[i].job \in 1..(k - 1)
    BY <2>3
  <2>7. ASSUME NEW i \in ResultsOf(d)', NEW j \in ResultsOf(d)', i < j
        PROVE  sent'[i].job < sent'[j].job
    <3>1. CASE i \in ResultsOf(d) /\ j \in ResultsOf(d)
      BY <1>2, <2>2, <2>7, <3>1 DEF IRes, ResultsOfIn
    <3>2. CASE i \in ResultsOf(d) /\ j = n
      <4>1. sent'[i].job \in 1..(k - 1) /\ sent'[j].job = k
        BY <1>6, <2>2, <2>6, <3>2
      <4> QED
        BY <1>4, <4>1
    <3>3. CASE i = n
      BY <1>6, <2>1, <2>2, <2>7, <3>3
    <3> QED
      BY <2>1, <3>1, <3>2, <3>3
  <2>8. k \in 0..Jobs[d]
    BY <1>2, <1>4
  <2> QED
    BY <1>4, <2>4, <2>5, <2>7, <2>8 DEF ResultsOfIn
<1> QED
  BY <1>6, <1>7, <1>8, <1>9 DEF IRes

\* Every step keeps the results in order.
LEMMA StepRes == ASSUME IRef, IRes, [Next]_vars PROVE IRes'
<1>1. CASE FeedBatch \/ \E w \in Pool : Recv(w)
  BY <1>1, PassesOn
<1>2. CASE \E w \in Pool : RecvClosed(w) \/ EnterBatch(w) \/ BeginJob(w) \/ JobAborts(w)
  BY <1>2, WorkQuiet
<1>3. CASE \E w \in Pool : JobCompletes(w)
  BY <1>3, CompletedResult
<1>4. CASE /\ sent' = sent \/ Emit(Aborted)
           /\ UNCHANGED <<left, unfed, jobChan, batch>>
  <2>1. WorkLeft'
    BY <1>4 DEF IRes, WorkLeft
  <2>2. ASSUME NEW d \in Drives PROVE ResultsOfIn(d)' /\ sent' \in Seq(Event)
    BY <1>4, QuietResults DEF IRes
  <2>3. \E d \in Drives : TRUE
    BY PhaseAssumption DEF Drives
  <2> QED
    BY <2>1, <2>2, <2>3 DEF IRes
<1> QED
  BY <1>1, <1>2, <1>3, <1>4
  DEF Next, Feeder, Thread, FeederSeesAbort, CloseJobChan, RecvDone, ReturnOk, ReturnErr, GuiFlips, Gone, vars

\* The result events of a drive are exactly its jobs up to the first one
\* without an outcome, each once and in the order of its manifests (the loop
\* of a pool thread in run_drive_phase of execute.rs).
THEOREM ResultsAreInOrder == Spec => []ResultsInOrder
<1>1. IRef /\ [Next]_vars => IRef'
  BY StepRef
<1>2. IRef /\ IRes /\ [Next]_vars => IRes'
  BY StepRes
<1>3. IRes => ResultsInOrder
  BY DEF IRes, ResultsOfIn, ResultsInOrder
<1> QED
  BY InitRef, InitRes, <1>1, <1>2, <1>3, PTL DEF Spec
=============================================================================
