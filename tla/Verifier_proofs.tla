--------------------------- MODULE Verifier_proofs ---------------------------
(***************************************************************************)
(* The channel discipline of the verifier application, for every number of *)
(* drives, workers, runs and scans and every contents of the drives: an    *)
(* abort is silent and nothing of an aborted run reaches the user, every   *)
(* result is counted once, and the panel and the finished state are those  *)
(* of the run that is on, as long as manifests load.                       *)
(***************************************************************************)
EXTENDS Verifier, FiniteSetTheorems, SequenceTheorems, TLAPS

----------------------------------------------------------------------------
(* The operations of a phase, for every number of drives and workers. *)

\* A phase in which every batch that is waiting, in work or given up has a job left.
PhaseInv(p) == /\ p \in Phase
               /\ \A d \in Drives : p.st[d] \notin {"none", "finished"} => p.left[d] > 0

\* The feeder's choice and the channel's head exist: First picks a batch of the set.
LEMMA FirstIn ==
    ASSUME NEW S \in SUBSET Drives, S # {}
    PROVE  First(S) \in S /\ \A e \in S : First(S) <= e
<1>. DEFINE Below(d) == {e \in S : e <= d}
            Downs    == {D \in SUBSET S : \E d \in S : D = Below(d)}
<1>1. S \in SUBSET Nat
  BY PhaseAssumption DEF Drives
<1>2. IsFiniteSet(S)
  <2>1. IsFiniteSet(Drives)
    BY FS_Interval, PhaseAssumption, 1 \in Int, NumDrives \in Int DEF Drives
  <2>. QED  BY <2>1, FS_Subset
<1>3. Downs \subseteq FiniteSubsetsOf(S) /\ Downs # {}
  <2>1. FiniteSubsetsOf(S) = SUBSET S
    BY <1>2, FS_FiniteSubsetsOfFinite
  <2>2. PICK d \in S : TRUE
    OBVIOUS
  <2>3. Below(d) \in Downs
    <3>1. Below(d) \in SUBSET S
      OBVIOUS
    <3>. QED  BY <3>1
  <2>. QED  BY <2>1, <2>3
<1>4. PICK D \in Downs : \A E \in Downs : <<E, D>> \notin StrictSubsetOrdering(S)
  <2>. HIDE DEF Downs
  <2>. QED  BY <1>3, FS_StrictSubsetOrderingWellFounded, WFMin
<1>5. PICK d \in S : D = Below(d)
  BY <1>4
<1>6. ASSUME NEW e \in S  PROVE d <= e
  <2>1. SUFFICES ASSUME e < d  PROVE FALSE
    BY <1>1
  <2>2. d \in Nat /\ e \in Nat /\ \A x \in S : x \in Nat
    BY <1>1
  <2>3. Below(e) \in SUBSET S /\ Below(e) \subseteq Below(d)
    <3>1. \A x \in S : x <= e => x <= d
      BY <2>1, <2>2
    <3>. QED  BY <3>1
  <2>4. d \in Below(d) /\ d \notin Below(e)
    BY <2>1, <2>2
  <2>5. Below(e) \in Downs
    BY <2>3
  <2>6. <<Below(e), D>> \in StrictSubsetOrdering(S)
    <3>1. Below(e) # D
      BY <2>4, <1>5
    <3>2. Below(e) \subseteq D /\ D \in SUBSET S
      BY <2>3, <1>5
    <3>. HIDE DEF Below
    <3>. QED  BY <3>1, <3>2, <2>3 DEF StrictSubsetOrdering
  <2>. QED  BY <2>5, <2>6, <1>4
<1>. QED
  BY <1>6 DEF First

\* run_drive_phase starts with every batch nonempty.
LEMMA NewPhaseInv ==
    ASSUME NEW jobs \in [Drives -> Nat]
    PROVE  PhaseInv(NewPhase(jobs))
BY DEF PhaseInv, NewPhase, Phase, BatchState, Owned, GivenUp

\* Moving a batch with work left to another stage keeps the phase well formed.
LEMMA MoveInv ==
    ASSUME NEW p, PhaseInv(p), NEW d \in Drives, p.left[d] > 0, NEW to \in BatchState
    PROVE  PhaseInv(Move(p, d, to))
BY DEF PhaseInv, Move, Phase

\* A completed job leaves the batch finished, or with a job left.
LEMMA CompleteInv ==
    ASSUME NEW p, PhaseInv(p), NEW d \in Drives, p.st[d] = "running"
    PROVE  PhaseInv(Complete(p, d))
<1>1. p.left[d] \in Nat /\ p.left[d] > 0
  BY DEF PhaseInv, Phase
<1>2. p.left[d] - 1 \in Nat /\ (p.left[d] # 1 => p.left[d] - 1 > 0)
  BY <1>1
<1>. QED
  BY <1>1, <1>2 DEF PhaseInv, Complete, Phase, BatchState, Owned

\* The feeder stopping or returning keeps the phase's invariant.
LEMMA FeederInv ==
    ASSUME NEW p, PhaseInv(p)
    PROVE  PhaseInv(StopFeeding(p)) /\ PhaseInv(Return(p))
BY DEF PhaseInv, StopFeeding, Return, Phase

----------------------------------------------------------------------------

(***************************************************************************)
(* The inductive invariant.  The argument: request_abort raises the flag   *)
(* and replaces the channel in one step, and only a new scan or run, which *)
(* gets the current channel, lowers the flag.  So a thread that sees the   *)
(* flag raised holds a dropped channel, and so does a thread whose run     *)
(* lost a worker.                                                          *)
(***************************************************************************)

\* A run has a channel that existed when it started; a run not started has no work.
RunsOK ==
    \A r \in Runs :
        IF r <= runs THEN chan[r] \in 1..rx
        ELSE chan[r] = 0 /\ pc[r] = "none" /\ work[r] = [ph \in Phases |-> NoPhase]

\* The phases of a run are well formed and no larger than the plan.
PhaseOK(w, p, ph) == PhaseInv(w[ph]) /\ \A d \in Drives : w[ph].left[d] <= p[ph][d]
PhasesOK == \A r \in Runs, ph \in Phases : PhaseOK(work[r], plan[r], ph)

\* While the flag is up, no run holds the current channel.
FlagCutsOff == abort => \A r \in Runs : chan[r] # rx

\* A run that holds the current channel lost no worker and failed in no phase.
Clean(p)  == p.feeder # "err" /\ \A d \in Drives : p.st[d] \notin GivenUp
LiveClean == \A r \in Runs, ph \in Phases : chan[r] = rx => Clean(work[r][ph])

\* Every result in the channel is of a run that holds this channel.
QueueLive == \A i \in 1..Len(queue) : queue[i].type = "Result" => chan[queue[i].run] = rx

\* An aborted run holds a dropped channel.
AbortedCutOff == \A r \in aborted : r <= runs /\ chan[r] # rx

IInv == /\ TypeOK /\ RunsOK /\ PhasesOK /\ FlagCutsOff /\ LiveClean
        /\ AbortIsSilent /\ QueueLive /\ AbortedCutOff

----------------------------------------------------------------------------
\* The channel stays typed, silent about aborts and live when what is sent on it is: an
\* event of run r, or of a scan.
QueueOK(q) == /\ q \in Seq(Event)
              /\ \A i \in 1..Len(q) : /\ q[i].type # "Aborted" /\ q[i] # Fatal("run")
                                      /\ q[i].type = "Result" => chan[q[i].run] = rx

\* Sending an event that is neither Aborted nor of a dropped run keeps the channel so.
LEMMA SendOK ==
    ASSUME TypeOK, QueueOK(queue), NEW c, NEW e \in Event, Send(c, e),
           c = rx => /\ e.type # "Aborted" /\ e # Fatal("run")
                     /\ e.type = "Result" => chan[e.run] = rx
    PROVE  QueueOK(queue')
<1>1. CASE c # rx
  BY <1>1 DEF Send
<1>2. CASE c = rx
  <2>1. queue' = Append(queue, e) /\ queue \in Seq(Event)
    BY <1>2 DEF Send, TypeOK
  <2>2. queue' \in Seq(Event) /\ Len(queue') = Len(queue) + 1
    BY <2>1
  <2>3. \A i \in 1..Len(queue') : queue'[i] = IF i <= Len(queue) THEN queue[i] ELSE e
    BY <2>1
  <2>4. \A i \in 1..Len(queue') : i <= Len(queue) => i \in 1..Len(queue)
    BY <2>1
  <2>. QED  BY <1>2, <2>2, <2>3, <2>4 DEF QueueOK
<1>. QED  BY <1>1, <1>2

\* The events are events.
LEMMA EventsAre ==
    /\ Aborted \in Event /\ Fatal("run") \in Event /\ Fatal("scan") \in Event
    /\ \A n \in Nat : JobsReady(n) \in Event
    /\ \A D \in SUBSET Drives : DrivesFound(D) \in Event
    /\ \A r \in Runs, k \in Kinds, d \in Drives, n \in Nat : Result(r, k, d, n) \in Event
BY DEF Event, Aborted, Fatal, JobsReady, DrivesFound, Result

\* An event of run r is fit for its channel when it is no sign of an abort.
LEMMA RunSends ==
    ASSUME IInv, NEW r \in Runs, NEW e \in Event, Send(chan[r], e),
           chan[r] = rx => /\ e.type # "Aborted" /\ e # Fatal("run")
                           /\ e.type = "Result" => e.run = r
    PROVE  QueueOK(queue')
<1>1. QueueOK(queue)
  BY DEF IInv, QueueOK, AbortIsSilent, QueueLive, TypeOK
<1>. QED
  BY <1>1, SendOK DEF IInv

----------------------------------------------------------------------------
\* A step of the threads of one run that keeps its own part of the invariant keeps it all.
RunStep(r) ==
    /\ UNCHANGED <<gui, abort, rx, history, scans, scanChan, runs, chan>>
    /\ pc' \in [Runs -> {"none", "plan", "ended"} \cup Phases]
    /\ plan' \in [Runs -> Plan] /\ work' \in [Runs -> [Phases -> Phase]]
    /\ \A q \in Runs \ {r} : pc'[q] = pc[q] /\ plan'[q] = plan[q] /\ work'[q] = work[q]
    /\ \A ph \in Phases : PhaseOK(work'[r], plan'[r], ph)
    /\ chan[r] = rx => \A ph \in Phases : Clean(work'[r][ph])
    /\ QueueOK(queue')

\* A step of one run that keeps its own part of the invariant keeps all of it.
LEMMA RunStepInv ==
    ASSUME IInv, NEW r \in 1..runs, RunStep(r)
    PROVE  IInv'
<1>. USE DEF IInv, RunStep
<1>0. r \in Runs
  BY VerifierAssumption DEF TypeOK, Runs
<1>1. TypeOK'
  BY DEF TypeOK, gui, history, QueueOK
<1>2. RunsOK'
  <2>1. UNCHANGED <<runs, rx, chan>> /\ r <= runs
    BY DEF TypeOK
  <2>. QED  BY <2>1 DEF RunsOK
<1>3. PhasesOK'
  BY <1>0 DEF PhasesOK
<1>4. FlagCutsOff'
  BY DEF FlagCutsOff
<1>5. LiveClean'
  BY <1>0 DEF LiveClean
<1>6. AbortIsSilent' /\ QueueLive'
  BY DEF QueueOK, AbortIsSilent, QueueLive
<1>7. AbortedCutOff'
  BY DEF AbortedCutOff, history
<1>. QED
  BY <1>1, <1>2, <1>3, <1>4, <1>5, <1>6, <1>7

\* Only a run that was started has a thread, or a batch.
LEMMA Started ==
    ASSUME IInv, NEW r \in Runs
    PROVE  /\ pc[r] # "none" => r \in 1..runs
           /\ \A ph \in Phases, d \in Drives : work[r][ph].st[d] # "none" => r \in 1..runs
<1>1. r \in Nat /\ r >= 1 /\ runs \in Nat
  BY VerifierAssumption DEF IInv, TypeOK, Runs
<1>2. \A ph \in Phases, d \in Drives : [q \in Phases |-> NoPhase][ph].st[d] = "none"
  BY DEF NoPhase, NewPhase, NoJobs
<1>3. ~(r <= runs) => pc[r] = "none" /\ work[r] = [ph \in Phases |-> NoPhase]
  BY DEF IInv, RunsOK
<1>. QED
  BY <1>1, <1>2, <1>3

\* A step on one phase that adds no work and, with the current channel, loses no worker.
LEMMA PhaseStep ==
    ASSUME IInv, NEW r \in 1..runs, NEW ph \in Phases, NEW p, PhaseInv(p),
           \A d \in Drives : p.left[d] <= work[r][ph].left[d],
           chan[r] = rx => Clean(p),
           work' = [work EXCEPT ![r][ph] = p],
           UNCHANGED <<pc, plan>>, OfRun(r), QueueOK(queue')
    PROVE  IInv'
<1>1. r \in Runs
  BY VerifierAssumption DEF IInv, TypeOK, Runs
<1>2. p \in Phase
  BY DEF PhaseInv
<1>3. work' \in [Runs -> [Phases -> Phase]]
  BY <1>1, <1>2 DEF IInv, TypeOK
<1>4. /\ \A q \in Runs \ {r} : work'[q] = work[q]
      /\ \A q \in Phases : work'[r][q] = IF q = ph THEN p ELSE work[r][q]
  BY <1>1 DEF IInv, TypeOK
<1>5. \A q \in Phases : PhaseOK(work'[r], plan'[r], q)
  <2>1. TAKE q \in Phases
  <2>2. PhaseOK(work[r], plan[r], q) /\ PhaseOK(work[r], plan[r], ph)
    BY <1>1 DEF IInv, PhasesOK
  <2>3. CASE q # ph
    BY <2>2, <2>3, <1>4 DEF PhaseOK
  <2>4. CASE q = ph
    <3>1. ASSUME NEW d \in Drives  PROVE p.left[d] <= plan[r][ph][d]
      <4>1. p.left[d] <= work[r][ph].left[d] /\ work[r][ph].left[d] <= plan[r][ph][d]
        BY <2>2 DEF PhaseOK
      <4>2. p.left[d] \in Int /\ work[r][ph].left[d] \in Int /\ plan[r][ph][d] \in Int
        BY <1>1, <1>2 DEF IInv, TypeOK, Phase, Plan, Phases
      <4>. QED  BY <4>1, <4>2
    <3>. QED  BY <2>4, <1>4, <3>1 DEF PhaseOK
  <2>. QED  BY <2>3, <2>4
<1>6. chan[r] = rx => \A q \in Phases : Clean(work'[r][q])
  BY <1>1, <1>4 DEF IInv, LiveClean
<1>7. RunStep(r)
  BY <1>3, <1>4, <1>5, <1>6 DEF RunStep, OfRun, WorkersOnly, IInv, TypeOK
<1>. QED
  BY <1>7, RunStepInv

----------------------------------------------------------------------------
(* The pool threads and the coordinating thread in a phase. *)

\* What every action on a phase starts from.
LEMMA AtPhase ==
    ASSUME IInv, NEW r \in Runs, NEW ph \in Phases
    PROVE  /\ PhaseInv(work[r][ph]) /\ work[r][ph] \in Phase
           /\ chan[r] = rx => Clean(work[r][ph]) /\ ~abort
           /\ QueueOK(queue)
<1>1. PhaseInv(work[r][ph])
  BY DEF IInv, PhasesOK, PhaseOK
<1>2. QueueOK(queue)
  BY DEF IInv, QueueOK, AbortIsSilent, QueueLive, TypeOK
<1>. QED
  BY <1>1, <1>2 DEF PhaseInv, IInv, LiveClean, FlagCutsOff

\* Moving a batch along leaves its jobs and, unless it is given up, a clean phase clean.
LEMMA MoveKeeps ==
    ASSUME NEW p \in Phase, NEW d \in Drives, NEW to \in BatchState
    PROVE  /\ Move(p, d, to).left = p.left
           /\ to \notin GivenUp /\ Clean(p) => Clean(Move(p, d, to))
BY DEF Move, Phase, Clean

\* With the flag up the channel is gone: a thread may give up its batch and report it.
LEMMA GiveUp ==
    ASSUME IInv, NEW r \in Runs, NEW ph \in Phases, NEW d \in Drives, NEW to \in GivenUp,
           abort, work[r][ph].st[d] \in Owned,
           Moves(r, ph, d, to), Send(chan[r], Aborted), UNCHANGED <<pc, plan>>, OfRun(r)
    PROVE  IInv'
<1>. DEFINE p == work[r][ph]
<1>1. PhaseInv(p) /\ p \in Phase /\ chan[r] # rx
  BY AtPhase
<1>2. r \in 1..runs
  BY Started DEF Owned
<1>3. p.left[d] > 0 /\ to \in BatchState
  BY <1>1 DEF PhaseInv, Owned, BatchState
<1>4. PhaseInv(Move(p, d, to)) /\ Move(p, d, to).left = p.left
  BY <1>1, <1>3, MoveInv, MoveKeeps
<1>5. QueueOK(queue')
  BY <1>1, EventsAre, RunSends
<1>6. \A e \in Drives : Move(p, d, to).left[e] <= p.left[e]
  BY <1>1, <1>4 DEF Phase
<1>. QED
  BY <1>1, <1>2, <1>4, <1>5, <1>6, PhaseStep DEF Moves

\* Without the flag the batch moves on and nothing is sent.
LEMMA MoveOn ==
    ASSUME IInv, NEW r \in Runs, NEW ph \in Phases, NEW d \in Drives,
           NEW to \in BatchState \ GivenUp, work[r][ph].st[d] \in {"unfed", "queued"} \cup Owned,
           Moves(r, ph, d, to), UNCHANGED <<pc, plan, queue>>, OfRun(r)
    PROVE  IInv'
<1>. DEFINE p == work[r][ph]
<1>1. PhaseInv(p) /\ p \in Phase /\ (chan[r] = rx => Clean(p)) /\ QueueOK(queue)
  BY AtPhase
<1>2. r \in 1..runs
  BY Started DEF Owned
<1>3. p.left[d] > 0
  BY <1>1 DEF PhaseInv, Owned
<1>4. PhaseInv(Move(p, d, to)) /\ Move(p, d, to).left = p.left
  BY <1>1, <1>3, MoveInv, MoveKeeps
<1>5. QueueOK(queue')
  BY <1>1 DEF QueueOK, OfRun
<1>6. \A e \in Drives : Move(p, d, to).left[e] <= p.left[e]
  BY <1>1, <1>4 DEF Phase
<1>7. chan[r] = rx => Clean(Move(p, d, to))
  BY <1>1, MoveKeeps
<1>. QED
  BY <1>2, <1>4, <1>5, <1>6, <1>7, PhaseStep DEF Moves

\* A pool thread takes up its batch, or gives it up when the flag is raised.
LEMMA EntersBatchInv ==
    ASSUME IInv, NEW r \in Runs, NEW ph \in Phases, NEW d \in Drives, EntersBatch(r, ph, d)
    PROVE  IInv'
<1>1. CASE abort
  BY <1>1, GiveUp, "quit" \in GivenUp DEF EntersBatch, Owned, GivenUp
<1>2. CASE ~abort
  BY <1>2, MoveOn, "held" \in BatchState \ GivenUp DEF EntersBatch, Owned, BatchState, GivenUp
<1>. QED  BY <1>1, <1>2

\* A pool thread starts a job, or gives its batch up when the flag is raised.
LEMMA BeginsJobInv ==
    ASSUME IInv, NEW r \in Runs, NEW ph \in Phases, NEW d \in Drives, BeginsJob(r, ph, d)
    PROVE  IInv'
<1>1. CASE abort
  BY <1>1, GiveUp, "lost" \in GivenUp DEF BeginsJob, Owned, GivenUp
<1>2. CASE ~abort
  BY <1>2, MoveOn, "running" \in BatchState \ GivenUp DEF BeginsJob, Owned, BatchState, GivenUp
<1>. QED  BY <1>1, <1>2

\* A job sees the flag: its run's channel is dropped, so its event is lost.
LEMMA JobAbortsInv ==
    ASSUME IInv, NEW r \in Runs, NEW ph \in Phases, NEW d \in Drives, JobAborts(r, ph, d)
    PROVE  IInv'
BY GiveUp, "lost" \in GivenUp DEF JobAborts, Owned, GivenUp

\* A pool thread receives a batch.
LEMMA TakesInv ==
    ASSUME IInv, NEW r \in Runs, NEW ph \in Phases, Takes(r, ph)
    PROVE  IInv'
<1>. DEFINE d == First(In(work[r][ph], {"queued"}))
<1>1. d \in Drives /\ work[r][ph].st[d] = "queued"
  BY FirstIn DEF Takes, CanTake, In
<1>2. Moves(r, ph, d, "taken")
  BY DEF Takes, Take, Moves
<1>. QED
  BY <1>1, <1>2, MoveOn, "taken" \in BatchState \ GivenUp DEF Takes, BatchState, Owned, GivenUp

\* The coordinator feeds a batch, or stops feeding when the flag is raised.
LEMMA FeedsInv ==
    ASSUME IInv, NEW r \in Runs, NEW ph \in Phases, Feeds(r, ph)
    PROVE  IInv'
<1>. DEFINE d == First(In(work[r][ph], {"unfed"}))
            p == work[r][ph]
<1>1. d \in Drives /\ work[r][ph].st[d] = "unfed"
  BY FirstIn DEF Feeds, CanFeed, In
<1>2. CASE ~abort
  <2>1. Moves(r, ph, d, "queued")
    BY <1>2 DEF Feeds, Feed, Moves
  <2>. QED
    BY <1>1, <1>2, <2>1, MoveOn, "queued" \in BatchState \ GivenUp
       DEF Feeds, InPhase, BatchState, Owned, GivenUp
<1>3. CASE abort
  <2>1. PhaseInv(p) /\ p \in Phase /\ chan[r] # rx
    BY <1>3, AtPhase
  <2>2. r \in 1..runs
    BY <1>1, Started
  <2>3. PhaseInv(StopFeeding(p)) /\ \A e \in Drives : StopFeeding(p).left[e] <= p.left[e]
    BY <2>1, FeederInv DEF StopFeeding, Phase
  <2>4. QueueOK(queue')
    BY <1>3, <2>1, EventsAre, RunSends DEF Feeds
  <2>. QED
    BY <1>3, <2>1, <2>2, <2>3, <2>4, PhaseStep DEF Feeds, InPhase
<1>. QED  BY <1>2, <1>3

\* A phase fails only when it lost a worker, which a run with the current channel did not.
LEMMA JoinsInv ==
    ASSUME IInv, NEW r \in Runs, NEW ph \in Phases, Joins(r, ph)
    PROVE  IInv'
<1>. DEFINE p == work[r][ph]
<1>1. PhaseInv(p) /\ p \in Phase /\ (chan[r] = rx => Clean(p)) /\ QueueOK(queue)
  BY AtPhase
<1>2. r \in 1..runs
  BY Started, ph # "none" DEF Joins, InPhase, Phases
<1>3. PhaseInv(Return(p)) /\ \A e \in Drives : Return(p).left[e] <= p.left[e]
  BY <1>1, FeederInv DEF Return, Phase
<1>4. Clean(p) => Clean(Return(p))
  BY <1>1 DEF Clean, Return, In, Phase, GivenUp
<1>5. QueueOK(queue')
  BY <1>1 DEF QueueOK, Joins, InPhase, OfRun
<1>. QED
  BY <1>1, <1>2, <1>3, <1>4, <1>5, PhaseStep DEF Joins, InPhase

\* A plan holds a number of jobs for every phase and drive.
LEMMA PlanCounts ==
    ASSUME NEW p \in Plan, NEW ph \in Phases, NEW d \in Drives
    PROVE  p[ph][d] \in Nat
<1>1. p.sha[d] \in Nat /\ p.embedded[d] \in 0..1
  BY DEF Plan
<1>. QED  BY <1>1 DEF Phases

\* The result of a completed job is the next of its batch, so its number is a natural.
LEMMA JobCompletesInv ==
    ASSUME IInv, NEW r \in Runs, NEW ph \in Phases, NEW d \in Drives, JobCompletes(r, ph, d)
    PROVE  IInv'
<1>. DEFINE p == work[r][ph]
            n == plan[r][ph][d] - work[r][ph].left[d] + 1
<1>1. PhaseInv(p) /\ p \in Phase /\ p.st[d] = "running" /\ (chan[r] = rx => Clean(p))
  BY AtPhase DEF JobCompletes
<1>2. r \in 1..runs
  BY <1>1, Started
<1>3. PhaseInv(Complete(p, d))
  BY <1>1, CompleteInv
<1>4. \A e \in Drives : Complete(p, d).left[e] <= p.left[e]
  BY <1>1 DEF Complete, Phase
<1>5. Clean(p) => Clean(Complete(p, d))
  BY <1>1 DEF Clean, Complete, Phase, GivenUp
<1>6. n \in Nat
  <2>1. PhaseOK(work[r], plan[r], ph)
    BY DEF IInv, PhasesOK
  <2>2. p.left[d] \in Nat
    BY <1>1 DEF Phase
  <2>3. plan[r][ph][d] \in Nat
    BY PlanCounts DEF IInv, TypeOK
  <2>. QED  BY <2>1, <2>2, <2>3 DEF PhaseOK
<1>7. Result(r, ph, d, n) \in Event
  BY <1>6, EventsAre DEF Kinds
<1>8. QueueOK(queue')
  <2>1. Send(chan[r], Result(r, ph, d, n))
    BY DEF JobCompletes
  <2>2. /\ Result(r, ph, d, n).type # "Aborted" /\ Result(r, ph, d, n) # Fatal("run")
        /\ Result(r, ph, d, n).run = r
    BY DEF Result, Fatal
  <2>. QED  BY <1>7, <2>1, <2>2, RunSends
<1>. QED
  BY <1>1, <1>2, <1>3, <1>4, <1>5, <1>8, PhaseStep DEF JobCompletes

----------------------------------------------------------------------------
(* The coordinating thread outside a phase. *)

\* The thread ends, and nothing but its last event changes.
LEMMA EndRunInv ==
    ASSUME IInv, NEW r \in Runs, pc[r] # "none",
           EndRun(r), UNCHANGED <<plan, work>>, OfRun(r), QueueOK(queue')
    PROVE  IInv'
<1>1. r \in 1..runs
  BY Started
<1>2. RunStep(r)
  BY DEF RunStep, EndRun, OfRun, WorkersOnly, IInv, TypeOK, PhasesOK, LiveClean
<1>. QED
  BY <1>1, <1>2, RunStepInv

\* A run ends: after its phases, or with an event nobody reads, or with a Fatal one.
LEMMA EndsInv ==
    ASSUME IInv, NEW r \in Runs,
           \/ PlanStops(r) \/ PlanFails(r) \/ EmbeddedReturned(r)
           \/ \E ph \in Phases : PhaseFailed(r, ph)
    PROVE  IInv'
<1>1. QueueOK(queue) /\ (chan[r] = rx => ~abort)
  BY AtPhase, "sha" \in Phases DEF Phases
<1>2. CASE PlanStops(r)
  <2>1. QueueOK(queue')
    BY <1>1, <1>2, EventsAre, RunSends DEF PlanStops
  <2>. QED  BY <1>2, <2>1, EndRunInv DEF PlanStops
<1>3. CASE PlanFails(r)
  <2>1. QueueOK(queue')
    BY <1>1, <1>3 DEF PlanFails, QueueOK, OfRun
  <2>. QED  BY <1>3, <2>1, EndRunInv DEF PlanFails
<1>4. CASE EmbeddedReturned(r)
  <2>1. QueueOK(queue')
    BY <1>1, <1>4 DEF EmbeddedReturned, QueueOK, InPhase, OfRun
  <2>. QED  BY <1>4, <2>1, EndRunInv DEF EmbeddedReturned, InPhase
<1>5. ASSUME NEW ph \in Phases, PhaseFailed(r, ph)  PROVE IInv'
  <2>1. chan[r] # rx
    BY <1>5, AtPhase DEF PhaseFailed, Clean
  <2>2. QueueOK(queue')
    BY <1>5, <2>1, EventsAre, RunSends DEF PhaseFailed
  <2>. QED
    BY <1>5, <2>2, EndRunInv, ph # "none" DEF PhaseFailed, InPhase, Phases
<1>. QED  BY <1>2, <1>3, <1>4, <1>5

\* A planning step adds jobs, never takes one away.
LEMMA PlannedGrows ==
    ASSUME NEW p \in Plan, NEW s \in p.todo
    PROVE  /\ Planned(p, s[1], s[2]) \in Plan
           /\ \A ph \in Phases, d \in Drives : p[ph][d] <= Planned(p, s[1], s[2])[ph][d]
           /\ s[1] \in Drives /\ s[2] \in Nat
<1>1. PICK d \in Drives : s[1] = d /\ s[2] \in 0..Len(Manifests[d])
  BY DEF Plan, PlanSteps
<1>. DEFINE k == s[2]
            rest == [p EXCEPT !.todo = @ \ {<<d, k>>}]
<1>2. rest \in Plan /\ k \in Nat /\ rest.sha = p.sha /\ rest.embedded = p.embedded
  <2>1. k \in Nat /\ p.todo \ {<<d, k>>} \in SUBSET PlanSteps(Drives)
    BY <1>1 DEF Plan
  <2>. QED  BY <2>1 DEF Plan
<1>3. k > 0 => Manifests[d][k] \in Nat \cup {Unreadable}
  <2>1. Manifests[d] \in Seq(Nat \cup {Unreadable}) /\ (k > 0 => k \in 1..Len(Manifests[d]))
    BY <1>1, VerifierAssumption
  <2>. QED  BY <2>1
<1>4. \A e \in Drives : /\ rest.sha[e] \in Nat /\ rest.embedded[e] \in 0..1
                        /\ rest.sha[e] = p.sha[e] /\ rest.embedded[e] = p.embedded[e]
  BY <1>2 DEF Plan
<1>5. CASE k = 0 /\ d \in Embedded
  <2>. DEFINE q == [rest EXCEPT !.embedded[d] = 1, !.count = @ + 1]
  <2>1. Planned(p, d, k) = q
    BY <1>5 DEF Planned
  <2>2. q \in Plan
    <3>1. [rest.embedded EXCEPT ![d] = 1] \in [Drives -> 0..1] /\ rest.count + 1 \in Nat
      BY <1>2 DEF Plan
    <3>. HIDE DEF rest
    <3>. QED  BY <3>1, <1>2 DEF Plan
  <2>3. \A e \in Drives : q.sha[e] = rest.sha[e] /\ q.embedded[e] \in {rest.embedded[e], 1}
    BY <1>2 DEF Plan
  <2>. HIDE DEF q
  <2>4. \A e \in Drives : p.sha[e] <= q.sha[e] /\ p.embedded[e] <= q.embedded[e]
    BY <2>3, <1>4
  <2>. QED  BY <1>1, <1>2, <2>1, <2>2, <2>4 DEF Phases
<1>6. CASE (k = 0 /\ d \notin Embedded) \/ IsUnreadable(d, k)
  <2>1. Planned(p, d, k) = rest
    BY <1>6, <1>2 DEF Planned, IsUnreadable
  <2>2. \A e \in Drives : p.sha[e] <= rest.sha[e] /\ p.embedded[e] <= rest.embedded[e]
    BY <1>4
  <2>. QED  BY <1>1, <1>2, <2>1, <2>2 DEF Phases
<1>7. CASE k > 0 /\ ~IsUnreadable(d, k)
  <2>. DEFINE m == Manifests[d][k]
              q == [rest EXCEPT !.sha[d] = @ + m, !.count = @ + m]
  <2>1. Planned(p, d, k) = q
    BY <1>7 DEF Planned
  <2>2. m \in Nat
    BY <1>3, <1>7 DEF IsUnreadable
  <2>. HIDE DEF m
  <2>3. q \in Plan
    <3>1. [rest.sha EXCEPT ![d] = @ + m] \in [Drives -> Nat] /\ rest.count + m \in Nat
      BY <1>2, <2>2 DEF Plan
    <3>. HIDE DEF rest
    <3>. QED  BY <3>1, <1>2 DEF Plan
  <2>4. \A e \in Drives : q.embedded[e] = rest.embedded[e]
                          /\ q.sha[e] \in {rest.sha[e], rest.sha[e] + m}
    BY <1>2 DEF Plan
  <2>. HIDE DEF q
  <2>5. \A e \in Drives : p.sha[e] <= q.sha[e] /\ p.embedded[e] <= q.embedded[e]
    BY <2>2, <2>4, <1>4
  <2>. QED  BY <1>1, <1>2, <2>1, <2>3, <2>5 DEF Phases
<1>. QED
  BY <1>2, <1>5, <1>6, <1>7

\* Planning goes on to the next drive or manifest; a broken one sends its result.
LEMMA PlanAdvancesInv ==
    ASSUME IInv, NEW r \in Runs, PlanAdvances(r)
    PROVE  IInv'
<1>1. r \in 1..runs
  BY Started DEF PlanAdvances
<1>2. PICK s \in plan[r].todo :
         /\ plan' = [plan EXCEPT ![r] = Planned(@, s[1], s[2])]
         /\ IF IsUnreadable(s[1], s[2]) THEN Send(chan[r], Result(r, "manifest", s[1], s[2]))
                                        ELSE UNCHANGED queue
  BY DEF PlanAdvances
<1>3. plan[r] \in Plan /\ QueueOK(queue)
  BY AtPhase, "sha" \in Phases DEF IInv, TypeOK, Phases
<1>4. /\ Planned(plan[r], s[1], s[2]) \in Plan
      /\ \A ph \in Phases, d \in Drives : plan[r][ph][d] <= Planned(plan[r], s[1], s[2])[ph][d]
      /\ s[1] \in Drives /\ s[2] \in Nat
  BY <1>3, PlannedGrows
<1>5. QueueOK(queue')
  <2>1. CASE ~IsUnreadable(s[1], s[2])
    BY <1>2, <1>3, <2>1 DEF QueueOK, PlanAdvances, OfRun
  <2>2. CASE IsUnreadable(s[1], s[2])
    <3>. DEFINE e == Result(r, "manifest", s[1], s[2])
    <3>1. e \in Event
      BY <1>4, EventsAre DEF Kinds
    <3>2. e.type # "Aborted" /\ e # Fatal("run") /\ e.run = r
      BY DEF Result, Fatal
    <3>3. Send(chan[r], e)
      BY <1>2, <2>2
    <3>. QED  BY <3>1, <3>2, <3>3, RunSends
  <2>. QED  BY <2>1, <2>2
<1>6. plan' \in [Runs -> Plan] /\ plan'[r] = Planned(plan[r], s[1], s[2])
      /\ \A q \in Runs \ {r} : plan'[q] = plan[q]
  BY <1>2, <1>4 DEF IInv, TypeOK
<1>7. ASSUME NEW ph \in Phases  PROVE PhaseOK(work[r], plan'[r], ph)
  <2>1. PhaseInv(work[r][ph]) /\ work[r][ph] \in Phase
    BY AtPhase
  <2>2. ASSUME NEW d \in Drives  PROVE work[r][ph].left[d] <= plan'[r][ph][d]
    <3>1. work[r][ph].left[d] <= plan[r][ph][d] /\ plan[r][ph][d] <= plan'[r][ph][d]
      BY <1>4, <1>6 DEF IInv, PhasesOK, PhaseOK
    <3>2. plan[r][ph][d] \in Nat /\ plan'[r][ph][d] \in Nat /\ work[r][ph].left[d] \in Nat
      BY <1>3, <1>4, <1>6, <2>1, PlanCounts DEF Phase
    <3>. QED  BY <3>1, <3>2
  <2>. QED  BY <2>1, <2>2 DEF PhaseOK
<1>8. RunStep(r)
  BY <1>5, <1>6, <1>7 DEF RunStep, PlanAdvances, OfRun, WorkersOnly, IInv, TypeOK, LiveClean
<1>. QED
  BY <1>1, <1>8, RunStepInv

\* A phase starts with the jobs that were planned for it and no worker lost.
LEMMA StartPhaseInv ==
    ASSUME IInv, NEW r \in Runs, pc[r] # "none", NEW ph \in Phases,
           StartPhase(r, ph), UNCHANGED plan, OfRun(r), QueueOK(queue')
    PROVE  IInv'
<1>. DEFINE jobs == plan[r][ph]
            p    == NewPhase(jobs)
<1>1. r \in 1..runs
  BY Started
<1>2. jobs \in [Drives -> Nat]
  <2>1. plan[r].sha \in [Drives -> Nat] /\ plan[r].embedded \in [Drives -> 0..1]
    BY DEF IInv, TypeOK, Plan
  <2>. QED  BY <2>1 DEF Phases
<1>3. PhaseInv(p) /\ p \in Phase
  BY <1>2, NewPhaseInv DEF PhaseInv
<1>4. p.left = jobs /\ Clean(p)
  BY <1>2 DEF NewPhase, Clean, GivenUp
<1>5. work' \in [Runs -> [Phases -> Phase]]
      /\ (\A q \in Runs \ {r} : work'[q] = work[q])
      /\ \A q \in Phases : work'[r][q] = IF q = ph THEN p ELSE work[r][q]
  BY <1>3 DEF StartPhase, IInv, TypeOK
<1>6. PhaseOK(work'[r], plan'[r], ph)
  <2>1. \A d \in Drives : p.left[d] <= jobs[d]
    BY <1>2, <1>4
  <2>2. work'[r][ph] = p
    BY <1>5
  <2>. QED  BY <1>3, <2>1, <2>2 DEF PhaseOK
<1>7. \A q \in Phases : PhaseOK(work'[r], plan'[r], q)
  BY <1>5, <1>6 DEF IInv, PhasesOK, PhaseOK
<1>8. chan[r] = rx => \A q \in Phases : Clean(work'[r][q])
  BY <1>4, <1>5 DEF IInv, LiveClean
<1>9. pc' \in [Runs -> {"none", "plan", "ended"} \cup Phases]
      /\ \A q \in Runs \ {r} : pc'[q] = pc[q]
  BY DEF StartPhase, IInv, TypeOK
<1>10. RunStep(r)
  BY <1>5, <1>7, <1>8, <1>9 DEF RunStep, OfRun, WorkersOnly, IInv, TypeOK
<1>. QED
  BY <1>1, <1>10, RunStepInv

\* Planning ends: the jobs are announced and the first phase begins.
LEMMA PlanReadyInv ==
    ASSUME IInv, NEW r \in Runs, PlanReady(r)
    PROVE  IInv'
<1>1. QueueOK(queue')
  <2>. DEFINE e == JobsReady(plan[r].count)
  <2>1. plan[r].count \in Nat
    BY DEF IInv, TypeOK, Plan
  <2>2. e \in Event /\ e.type \notin {"Aborted", "Result"} /\ e # Fatal("run")
    BY <2>1, EventsAre DEF JobsReady, Fatal
  <2>3. Send(chan[r], e)
    BY DEF PlanReady
  <2>. QED  BY <2>2, <2>3, RunSends
<1>. QED
  BY <1>1, EndRunInv, StartPhaseInv, "sha" \in Phases DEF PlanReady, Phases

\* The SHA-256 phase is over: the embedded one begins, unless the run is aborted.
LEMMA ShaReturnedInv ==
    ASSUME IInv, NEW r \in Runs, ShaReturned(r)
    PROVE  IInv'
<1>1. QueueOK(queue) /\ (chan[r] = rx => ~abort)
  BY AtPhase, "sha" \in Phases DEF Phases
<1>2. QueueOK(queue')
  BY <1>1, EventsAre, RunSends DEF ShaReturned, InPhase, OfRun, QueueOK
<1>. QED
  BY <1>2, EndRunInv, StartPhaseInv, "embedded" \in Phases DEF ShaReturned, InPhase, Phases


----------------------------------------------------------------------------
(* The GUI thread and the scan. *)

GuiType ==
    /\ frame \in {"top", "drain", "ui", "gone"}
    /\ discovering \in BOOLEAN /\ verifying \in BOOLEAN /\ drives \subseteq Drives
    /\ total \in Nat /\ done \in Nat /\ results \subseteq Event
    /\ confirmOpen \in BOOLEAN /\ closeAfter \in BOOLEAN
    /\ decision \in {"none", "asked", "dismissed", "continue", "abortAndClose", "close"}

\* A step that touches no run and no channel, and does not raise the flag.
LEMMA GuiStep ==
    ASSUME IInv, UNCHANGED <<rx, runs, chan, pc, plan, work, aborted>>,
           GuiType', abort' \in BOOLEAN, abort' => abort,
           scans' \in 0..MaxScans, scanChan' \in [Scans -> Nat], QueueOK(queue')
    PROVE  IInv'
<1>. USE DEF IInv
<1>1. TypeOK'
  BY DEF TypeOK, GuiType, QueueOK
<1>2. RunsOK'
  BY DEF RunsOK
<1>3. PhasesOK'
  BY DEF PhasesOK
<1>4. FlagCutsOff' /\ LiveClean' /\ AbortedCutOff'
  BY DEF FlagCutsOff, LiveClean, AbortedCutOff
<1>5. AbortIsSilent' /\ QueueLive'
  BY DEF QueueOK, AbortIsSilent, QueueLive
<1>. QED
  BY <1>1, <1>2, <1>3, <1>4, <1>5

\* The next event of the channel is one of the events above, and the rest stays in order.
LEMMA ReceiveOK ==
    ASSUME IInv, NEW type, Receive(type)
    PROVE  /\ Head(queue) \in Event /\ Head(queue).type = type
           /\ type = "Result" => chan[Head(queue).run] = rx
           /\ QueueOK(queue')
           /\ UNCHANGED <<frame, confirmOpen, closeAfter, abort, rx, threads, history>>
<1>1. QueueOK(queue) /\ queue # <<>> /\ queue' = Tail(queue)
  BY DEF IInv, QueueOK, AbortIsSilent, QueueLive, TypeOK, Receive
<1>2. queue \in Seq(Event) /\ Len(queue) \in Nat \ {0}
  BY <1>1 DEF QueueOK
<1>3. Head(queue) = queue[1] /\ 1 \in 1..Len(queue) /\ queue[1] \in Event
  BY <1>2
<1>4. queue' \in Seq(Event) /\ Len(queue') = Len(queue) - 1
  BY <1>1, <1>2
<1>5. \A i \in 1..Len(queue') : queue'[i] = queue[i + 1] /\ i + 1 \in 1..Len(queue)
  BY <1>1, <1>2, <1>4
<1>6. QueueOK(queue')
  BY <1>1, <1>4, <1>5 DEF QueueOK
<1>7. Head(queue).type = type
  BY DEF Receive
<1>8. type = "Result" => chan[Head(queue).run] = rx
  BY <1>1, <1>3, <1>7 DEF QueueOK
<1>. QED
  BY <1>3, <1>6, <1>7, <1>8 DEF Receive

\* The GUI takes an event off its channel.
LEMMA EventsInv ==
    ASSUME IInv, OnDrivesFound \/ OnJobsReady \/ OnResult \/ OnStop
    PROVE  IInv'
<1>. DEFINE e == Head(queue)
<1>0. GuiType /\ scans \in 0..MaxScans /\ scanChan \in [Scans -> Nat] /\ abort \in BOOLEAN
  BY DEF IInv, TypeOK, GuiType
<1>1. CASE OnDrivesFound
  <2>1. e \in Event /\ e.type = "DrivesFound" /\ QueueOK(queue')
        /\ UNCHANGED <<frame, confirmOpen, closeAfter, abort, rx, threads, history>>
    BY <1>1, ReceiveOK DEF OnDrivesFound
  <2>2. e.drives \subseteq Drives
    BY <2>1 DEF Event
  <2>3. GuiType'
    BY <1>0, <1>1, <2>1, <2>2 DEF GuiType, OnDrivesFound, history
  <2>. QED  BY <1>0, <2>1, <2>3, GuiStep DEF threads, history
<1>2. CASE OnJobsReady
  <2>1. e \in Event /\ e.type = "JobsReady" /\ QueueOK(queue')
        /\ UNCHANGED <<frame, confirmOpen, closeAfter, abort, rx, threads, history>>
    BY <1>2, ReceiveOK DEF OnJobsReady
  <2>2. e.count \in Nat
    BY <2>1 DEF Event
  <2>3. GuiType'
    BY <1>0, <1>2, <2>1, <2>2 DEF GuiType, OnJobsReady, history
  <2>. QED  BY <1>0, <2>1, <2>3, GuiStep DEF threads, history
<1>3. CASE OnResult
  <2>1. e \in Event /\ e.type = "Result" /\ QueueOK(queue')
        /\ UNCHANGED <<frame, confirmOpen, closeAfter, abort, rx, threads, history>>
    BY <1>3, ReceiveOK DEF OnResult
  <2>2. GuiType'
    BY <1>0, <1>3, <2>1 DEF GuiType, OnResult, history
  <2>. QED  BY <1>0, <2>1, <2>2, GuiStep DEF threads, history
<1>4. CASE OnStop
  <2>1. QueueOK(queue') /\ UNCHANGED <<frame, confirmOpen, closeAfter, abort, rx, threads, history>>
    BY <1>4, ReceiveOK DEF OnStop
  <2>2. GuiType'
    BY <1>0, <1>4, <2>1 DEF GuiType, OnStop, history
  <2>. QED  BY <1>0, <2>1, <2>2, GuiStep DEF threads, history
<1>. QED
  BY <1>1, <1>2, <1>3, <1>4

\* A scan ends and sends what it found on the channel it was started with.
LEMMA ScanEndsInv ==
    ASSUME IInv, NEW s \in Scans, ScanEnds(s)
    PROVE  IInv'
<1>1. PICK e \in Event : Send(scanChan[s], e) /\ e.type \notin {"Aborted", "Result"} /\ e # Fatal("run")
  BY EventsAre DEF ScanEnds, DrivesFound, Fatal
<1>2. QueueOK(queue)
  BY DEF IInv, QueueOK, AbortIsSilent, QueueLive, TypeOK
<1>3. QueueOK(queue')
  BY <1>1, <1>2, SendOK DEF IInv
<1>4. GuiType'
  BY DEF IInv, TypeOK, GuiType, ScanEnds, WorkersOnly, gui, history
<1>5. scans' \in 0..MaxScans /\ scanChan' \in [Scans -> Nat] /\ abort' \in BOOLEAN
  BY DEF IInv, TypeOK, ScanEnds, WorkersOnly
<1>. QED
  BY <1>3, <1>4, <1>5, GuiStep DEF ScanEnds, WorkersOnly, history

\* The actions of the user that neither start a run nor abort one, and the frame itself.
LEMMA WidgetsInv ==
    ASSUME IInv,
           FrameStarts \/ Drained \/ NoClick \/ StartScan \/ AbortButton \/ Continue \/ DismissDialog
    PROVE  IInv'
<1>1. QueueOK(queue)
  BY DEF IInv, QueueOK, AbortIsSilent, QueueLive, TypeOK
<1>0. GuiType /\ scans \in 0..MaxScans /\ scanChan \in [Scans -> Nat] /\ abort \in BOOLEAN
      /\ rx \in Nat
  BY DEF IInv, TypeOK, GuiType
<1>2. CASE FrameStarts
  <2>1. GuiType'
    BY <1>0, <1>2 DEF FrameStarts, GuiType
  <2>. QED  BY <1>0, <1>1, <1>2, <2>1, GuiStep DEF FrameStarts, threads, QueueOK
<1>3. CASE Drained
  <2>1. GuiType'
    BY <1>0, <1>3 DEF Drained, GuiType, history
  <2>. QED  BY <1>0, <1>1, <1>3, <2>1, GuiStep DEF Drained, threads, history, QueueOK
<1>4. CASE NoClick
  <2>1. GuiType'
    BY <1>0, <1>4 DEF NoClick, Widgets, GuiType, history
  <2>. QED  BY <1>0, <1>1, <1>4, <2>1, GuiStep DEF NoClick, threads, history, QueueOK
<1>5. CASE StartScan
  <2>1. GuiType'
    BY <1>0, <1>5 DEF StartScan, Widgets, ResetResults, GuiType, history
  <2>2. scans' \in 0..MaxScans /\ scanChan' \in [Scans -> Nat]
    <3>1. scans < MaxScans /\ scans' = scans + 1 /\ scanChan' = [scanChan EXCEPT ![scans + 1] = rx]
      BY <1>5 DEF StartScan
    <3>2. scanChan' \in [Scans -> Nat]
      BY <3>1, <1>0
    <3>3. scans' \in 0..MaxScans
      BY <3>1, <1>0, VerifierAssumption
    <3>. QED  BY <3>2, <3>3
  <2>3. abort' = FALSE
    BY <1>5 DEF StartScan, ResetResults
  <2>. QED  BY <1>1, <1>5, <2>1, <2>2, <2>3, GuiStep DEF StartScan, history, QueueOK
<1>6. CASE AbortButton
  <2>1. GuiType'
    BY <1>0, <1>6 DEF AbortButton, Widgets, GuiType
  <2>. QED  BY <1>0, <1>1, <1>6, <2>1, GuiStep DEF AbortButton, threads, QueueOK
<1>7. CASE Continue
  <2>1. GuiType'
    BY <1>0, <1>7 DEF Continue, Widgets, GuiType
  <2>. QED  BY <1>0, <1>1, <1>7, <2>1, GuiStep DEF Continue, threads, QueueOK
<1>8. CASE DismissDialog
  <2>1. GuiType'
    BY <1>0, <1>8 DEF DismissDialog, Widgets, GuiType
  <2>. QED  BY <1>0, <1>1, <1>8, <2>1, GuiStep DEF DismissDialog, threads, QueueOK
<1>. QED
  BY <1>2, <1>3, <1>4, <1>5, <1>6, <1>7, <1>8

\* A run gets the current channel and an empty plan, and lowers the flag.
LEMMA StartVerificationInv ==
    ASSUME IInv, StartVerification
    PROVE  IInv'
<1>. DEFINE r == runs + 1
<1>1. r \in Runs /\ runs \in Nat /\ ~(r <= runs) /\ rx \in Nat \ {0}
  BY VerifierAssumption DEF IInv, TypeOK, StartVerification, Runs
<1>2. PICK sel \in SUBSET drives :
         plan' = [plan EXCEPT ![r] = [NoPlan EXCEPT !.todo = PlanSteps(sel)]]
  BY DEF StartVerification
<1>3. [NoPlan EXCEPT !.todo = PlanSteps(sel)] \in Plan
  <2>1. PlanSteps(sel) \subseteq PlanSteps(Drives)
    BY DEF PlanSteps, IInv, TypeOK
  <2>. QED  BY <2>1 DEF NoPlan, Plan, NoJobs
<1>4. plan' \in [Runs -> Plan] /\ \A q \in Runs \ {r} : plan'[q] = plan[q]
  BY <1>1, <1>2, <1>3 DEF IInv, TypeOK
<1>5. UNCHANGED <<discovering, drives, confirmOpen, closeAfter, rx, queue, scans, scanChan, work, decision, aborted>>
  BY DEF StartVerification, history
<1>6. /\ runs' = r /\ abort' = FALSE
      /\ chan' \in [Runs -> Nat] /\ chan'[r] = rx /\ \A q \in Runs \ {r} : chan'[q] = chan[q]
      /\ pc' \in [Runs -> {"none", "plan", "ended"} \cup Phases]
      /\ \A q \in Runs \ {r} : pc'[q] = pc[q]
  BY <1>1 DEF IInv, TypeOK, StartVerification, ResetResults
<1>7. chan[r] = 0 /\ work[r] = [ph \in Phases |-> NoPhase]
  BY <1>1 DEF IInv, RunsOK
<1>8. TypeOK'
  <2>1. r \in 0..MaxRuns
    BY <1>1 DEF Runs
  <2>2. frame' = "top" /\ verifying' = TRUE /\ total' = 0 /\ done' = 0 /\ results' = {}
    BY DEF StartVerification, Widgets, ResetResults
  <2>. QED  BY <1>4, <1>5, <1>6, <2>1, <2>2 DEF IInv, TypeOK
<1>9. RunsOK'
  <2>1. ASSUME NEW q \in Runs, q <= r, q # r  PROVE q <= runs
    BY <2>1, <1>1 DEF Runs
  <2>2. ASSUME NEW q \in Runs, q # r
        PROVE  IF q <= r THEN chan[q] \in 1..rx
               ELSE chan[q] = 0 /\ pc[q] = "none" /\ work[q] = [ph \in Phases |-> NoPhase]
    <3>1. ~(q <= r) => ~(q <= runs)
      BY <1>1, VerifierAssumption DEF Runs
    <3>. QED  BY <2>1, <2>2, <3>1 DEF IInv, RunsOK
  <2>. QED  BY <1>1, <1>5, <1>6, <2>2 DEF RunsOK
<1>10. PhasesOK'
  <2>1. ASSUME NEW ph \in Phases  PROVE PhaseOK(work'[r], plan'[r], ph)
    <3>1. PhaseInv(work[r][ph]) /\ work'[r] = work[r]
      BY <1>1, <1>5, AtPhase
    <3>2. \A d \in Drives : work[r][ph].left[d] = 0
      BY <1>7 DEF NoPhase, NewPhase, NoJobs
    <3>3. plan'[r] \in Plan
      BY <1>1, <1>4
    <3>4. \A d \in Drives : plan'[r][ph][d] \in Nat
      BY <3>3, PlanCounts
    <3>. QED  BY <3>1, <3>2, <3>4 DEF PhaseOK
  <2>. QED  BY <1>4, <1>5, <2>1 DEF IInv, PhasesOK
<1>11. FlagCutsOff'
  BY <1>6 DEF FlagCutsOff
<1>12. LiveClean'
  <2>1. \A ph \in Phases : Clean(work[r][ph])
    BY <1>7 DEF Clean, NoPhase, NewPhase, NoJobs, GivenUp
  <2>. QED  BY <1>5, <1>6, <2>1 DEF IInv, LiveClean
<1>13. AbortIsSilent'
  BY <1>5 DEF IInv, AbortIsSilent
<1>14. QueueLive'
  <2>1. ASSUME NEW i \in 1..Len(queue), queue[i].type = "Result"  PROVE chan'[queue[i].run] = rx
    <3>1. queue[i] \in Event /\ chan[queue[i].run] = rx
      BY <2>1 DEF IInv, TypeOK, QueueLive
    <3>2. queue[i].run \in Runs
      BY <2>1, <3>1 DEF Event
    <3>. QED  BY <3>1, <3>2, <1>6
  <2>. QED  BY <1>5, <2>1 DEF QueueLive
<1>15. AbortedCutOff'
  <2>1. ASSUME NEW q \in aborted  PROVE q <= r /\ chan'[q] # rx
    <3>1. q \in Runs /\ q <= runs /\ chan[q] # rx
      BY DEF IInv, TypeOK, AbortedCutOff
    <3>. QED  BY <3>1, <1>1, <1>6 DEF Runs
  <2>. QED  BY <1>5, <1>6, <2>1 DEF AbortedCutOff
<1>. QED
  BY <1>8, <1>9, <1>10, <1>11, <1>12, <1>13, <1>14, <1>15 DEF IInv

\* request_abort cuts every run off from the GUI.
LEMMA ConfirmAbortInv ==
    ASSUME IInv, ConfirmAbort
    PROVE  IInv'
<1>0. GuiType /\ scans \in 0..MaxScans /\ scanChan \in [Scans -> Nat] /\ abort \in BOOLEAN
  BY DEF IInv, TypeOK, GuiType
<1>1. CASE ~verifying
  <2>1. QueueOK(queue')
    BY <1>1 DEF IInv, QueueOK, AbortIsSilent, QueueLive, TypeOK, ConfirmAbort
  <2>2. GuiType'
    BY <1>0, <1>1 DEF ConfirmAbort, Widgets, GuiType, history
  <2>. QED  BY <1>0, <1>1, <2>1, <2>2, GuiStep DEF ConfirmAbort, threads, history
<1>2. CASE verifying
  <2>1. /\ frame' = "top" /\ confirmOpen' = FALSE /\ abort' = TRUE /\ verifying' = FALSE
        /\ rx' = rx + 1 /\ queue' = <<>> /\ aborted' = aborted \cup {r \in Runs : chan[r] = rx}
        /\ decision' \in {"none", "abortAndClose"}
        /\ UNCHANGED <<discovering, drives, total, done, results, closeAfter,
                       scans, scanChan, runs, chan, pc, plan, work>>
    BY <1>2 DEF ConfirmAbort, Widgets, threads
  <2>2. rx \in Nat \ {0} /\ rx' \in Nat \ {0}
    BY <2>1 DEF IInv, TypeOK
  <2>3. queue' \in Seq(Event) /\ Len(queue') = 0
    BY <2>1
  <2>4. TypeOK'
    BY <2>1, <2>2, <2>3 DEF IInv, TypeOK
  <2>5. \A r \in Runs : chan[r] \in 0..rx
    BY <2>2 DEF IInv, RunsOK
  <2>6. RunsOK'
    BY <2>1, <2>2 DEF IInv, RunsOK
  <2>7. PhasesOK'
    BY <2>1 DEF IInv, PhasesOK
  <2>8. FlagCutsOff' /\ LiveClean'
    BY <2>1, <2>2, <2>5 DEF FlagCutsOff, LiveClean
  <2>9. AbortIsSilent' /\ QueueLive'
    BY <2>3 DEF AbortIsSilent, QueueLive
  <2>10. AbortedCutOff'
    <3>1. ASSUME NEW r \in aborted'  PROVE r <= runs /\ chan[r] # rx + 1
      <4>1. r \in Runs
        BY <2>1 DEF IInv, TypeOK
      <4>2. r <= runs
        BY <2>1, <2>2, <4>1 DEF IInv, RunsOK, AbortedCutOff
      <4>. QED  BY <4>1, <4>2, <2>2, <2>5
    <3>. QED  BY <2>1, <3>1 DEF AbortedCutOff
  <2>. QED
    BY <2>4, <2>6, <2>7, <2>8, <2>9, <2>10 DEF IInv
<1>. QED
  BY <1>1, <1>2 DEF IInv, TypeOK

----------------------------------------------------------------------------
(* The theorems. *)

\* The application as it starts.
LEMMA InitInv ==
    ASSUME Init
    PROVE  IInv
<1>1. NoJobs \in [Drives -> Nat] /\ NoJobs \in [Drives -> 0..1]
  BY DEF NoJobs
<1>2. PhaseInv(NoPhase) /\ NoPhase \in Phase
  BY <1>1, NewPhaseInv DEF NoPhase, PhaseInv
<1>3. NoPlan \in Plan
  BY <1>1 DEF NoPlan, Plan
<1>4. TypeOK
  <2>1. /\ scanChan \in [Scans -> Nat] /\ chan \in [Runs -> Nat]
        /\ pc \in [Runs -> {"none", "plan", "ended"} \cup Phases]
    BY DEF Init
  <2>2. plan \in [Runs -> Plan]
    BY <1>3 DEF Init
  <2>3. work \in [Runs -> [Phases -> Phase]]
    BY <1>2 DEF Init
  <2>4. scans \in 0..MaxScans /\ runs \in 0..MaxRuns
    BY VerifierAssumption DEF Init
  <2>5. queue \in Seq(Event) /\ rx \in Nat \ {0}
    BY DEF Init
  <2>. QED  BY <2>1, <2>2, <2>3, <2>4, <2>5 DEF Init, TypeOK
<1>5. RunsOK
  BY VerifierAssumption DEF Init, RunsOK, Runs
<1>6. PhasesOK
  <2>1. ASSUME NEW r \in Runs, NEW ph \in Phases  PROVE PhaseOK(work[r], plan[r], ph)
    <3>1. work[r][ph] = NoPhase /\ plan[r] \in Plan
      BY <1>3 DEF Init
    <3>2. \A d \in Drives : NoPhase.left[d] = 0 /\ plan[r][ph][d] \in Nat
      BY <3>1, PlanCounts DEF NoPhase, NewPhase, NoJobs
    <3>. QED  BY <1>2, <3>1, <3>2 DEF PhaseOK
  <2>. QED  BY <2>1 DEF PhasesOK
<1>7. FlagCutsOff /\ LiveClean /\ AbortIsSilent /\ QueueLive /\ AbortedCutOff
  BY DEF Init, FlagCutsOff, LiveClean, AbortIsSilent, QueueLive, AbortedCutOff
<1>. QED
  BY <1>4, <1>5, <1>6, <1>7 DEF IInv

\* The steps of a run's coordinator together.
LEMMA CoordinatorInv ==
    ASSUME IInv, NEW r \in Runs, Coordinator(r)
    PROVE  IInv'
BY EndsInv, PlanAdvancesInv, PlanReadyInv, ShaReturnedInv, FeedsInv, JoinsInv DEF Coordinator

\* The steps of a run's pool threads together.
LEMMA PoolThreadInv ==
    ASSUME IInv, NEW r \in Runs, NEW ph \in Phases, NEW d \in Drives, PoolThread(r, ph, d)
    PROVE  IInv'
BY EntersBatchInv, BeginsJobInv, JobCompletesInv, JobAbortsInv DEF PoolThread

\* Nothing changes.
LEMMA StutterInv ==
    ASSUME IInv, UNCHANGED vars
    PROVE  IInv'
<1>1. UNCHANGED <<gui, abort, rx, queue, threads, history>>
  BY DEF vars
<1>2. QueueOK(queue')
  BY <1>1 DEF IInv, QueueOK, AbortIsSilent, QueueLive, TypeOK
<1>3. GuiType'
  BY <1>1 DEF IInv, TypeOK, GuiType, gui, history
<1>. QED
  BY <1>1, <1>2, <1>3, GuiStep DEF threads, history, IInv, TypeOK

\* Every step of the application keeps the invariant.
LEMMA NextInv ==
    ASSUME IInv, [Next]_vars
    PROVE  IInv'
<1>1. ASSUME Gui  PROVE IInv'
  BY <1>1, EventsInv, WidgetsInv, StartVerificationInv, ConfirmAbortInv DEF Gui, Click
<1>2. ASSUME Worker  PROVE IInv'
  BY <1>2, ScanEndsInv, CoordinatorInv, TakesInv, PoolThreadInv DEF Worker
<1>3. ASSUME Gone  PROVE IInv'
  BY <1>3, StutterInv DEF Gone
<1>. QED
  BY <1>1, <1>2, <1>3, StutterInv DEF Next

\* The inductive invariant holds in every reachable state.
THEOREM Inductive == Spec => []IInv
<1>1. Init => IInv
  BY InitInv
<1>2. IInv /\ [Next]_vars => IInv'
  BY NextInv
<1>. QED
  BY <1>1, <1>2, PTL DEF Spec

\* Every variable of the application keeps its type: in particular the counters stay natural,
\* no phase holds a batch without jobs and every result names a run that can exist.
THEOREM TypeCorrect == Spec => []TypeOK
<1>1. IInv => TypeOK
  BY DEF IInv
<1>. QED
  BY <1>1, Inductive, PTL

\* request_abort and the workers: no Aborted event, and no Fatal event of a run whose workers
\* left early, ever waits in the channel process_events reads.
THEOREM AbortSilent == Spec => []AbortIsSilent
<1>1. IInv => AbortIsSilent
  BY DEF IInv
<1>. QED
  BY <1>1, Inductive, PTL

\* The results panel: whatever the threads of an aborted run still do, and whatever is started
\* next, process_events shows and counts no result of that run any more.
THEOREM AbortedStayOut == Spec => NothingFromAborted
<1>1. ASSUME IInv, [Next]_vars  PROVE \A e \in results' \ results : e.run \notin aborted
  <2>1. CASE OnResult
    <3>1. Head(queue).type = "Result" /\ chan[Head(queue).run] = rx
      BY <1>1, <2>1, ReceiveOK DEF OnResult
    <3>2. results' \ results \subseteq {Head(queue)}
      BY <2>1 DEF OnResult
    <3>. QED  BY <1>1, <3>1, <3>2 DEF IInv, AbortedCutOff
  <2>2. ASSUME ~OnResult  PROVE results' \subseteq results
    <3>1. ASSUME Gui  PROVE results' \subseteq results
      BY <2>2, <3>1 DEF Gui, Click, FrameStarts, OnDrivesFound, OnJobsReady, OnStop, Drained,
            NoClick, StartScan, StartVerification, ResetResults, AbortButton, ConfirmAbort,
            Continue, DismissDialog
    <3>2. ASSUME Worker  PROVE UNCHANGED gui
      <4>1. ASSUME NEW s \in Scans, ScanEnds(s)  PROVE UNCHANGED gui
        BY <4>1 DEF ScanEnds, WorkersOnly
      <4>2. ASSUME NEW r \in Runs, Coordinator(r)  PROVE UNCHANGED gui
        BY <4>2 DEF Coordinator, PlanStops, PlanAdvances, PlanFails, PlanReady, ShaReturned,
              EmbeddedReturned, Feeds, Joins, PhaseFailed, InPhase, OfRun, WorkersOnly
      <4>3. ASSUME NEW r \in Runs, NEW ph \in Phases, Takes(r, ph)  PROVE UNCHANGED gui
        BY <4>3 DEF Takes, OfRun, WorkersOnly
      <4>4. ASSUME NEW r \in Runs, NEW ph \in Phases, NEW d \in Drives, PoolThread(r, ph, d)
            PROVE  UNCHANGED gui
        BY <4>4 DEF PoolThread, EntersBatch, BeginsJob, JobCompletes, JobAborts, OfRun, WorkersOnly
      <4>. QED  BY <3>2, <4>1, <4>2, <4>3, <4>4 DEF Worker
    <3>. QED
      BY <1>1, <3>1, <3>2 DEF Next, Gone, vars, gui
  <2>. QED  BY <2>1, <2>2
<1>2. IInv /\ [Next]_vars => [\A e \in results' \ results : e.run \notin aborted]_vars
  BY <1>1
<1>. QED
  BY <1>2, Inductive, PTL DEF Spec, NothingFromAborted

----------------------------------------------------------------------------
(* What one step may make of the phases of a run, whoever takes it. *)

\* A phase starts with the plan's jobs; a batch that is in work moves, or has
\* reported a job; the feeder stops, because of the flag, or returns.
Goes(r, ph) ==
    LET p == work[r][ph]
        q == work'[r][ph]
    IN  \/ q = p
        \/ /\ q = NewPhase(plan[r][ph]) /\ pc'[r] = ph
           /\ \/ ph = "sha" /\ pc[r] = "plan"
              \/ ph = "embedded" /\ pc[r] = "sha" /\ work[r]["sha"].feeder = "ok"
        \/ \E d \in Drives, to \in BatchState \ {"none", "finished"} :
              p.st[d] \notin {"none", "finished"} /\ q = Move(p, d, to)
        \/ \E d \in Drives : p.st[d] = "running" /\ q = Complete(p, d)
        \/ q = StopFeeding(p) /\ abort
        \/ q = Return(p) /\ CanReturn(p)

\* Only the one phase that a step names is changed by it.
LEMMA OnePhase ==
    ASSUME TypeOK, NEW r \in Runs, NEW ph \in Phases, NEW p,
           work' = [work EXCEPT ![r][ph] = p]
    PROVE  /\ work'[r][ph] = p
           /\ Goes(r, ph) => \A q \in Runs, s \in Phases : Goes(q, s)
<1>1. \A q \in Runs, s \in Phases :
         work'[q][s] = IF q = r /\ s = ph THEN p ELSE work[q][s]
  BY DEF TypeOK
<1>2. ASSUME NEW q \in Runs, NEW s \in Phases, q # r \/ s # ph  PROVE Goes(q, s)
  BY <1>1, <1>2 DEF Goes
<1>. QED  BY <1>1, <1>2

\* The steps of the pool threads on a phase.
LEMMA PoolGoes ==
    ASSUME IInv, NEW r \in Runs, NEW ph \in Phases, NEW d \in Drives,
           Takes(r, ph) \/ PoolThread(r, ph, d)
    PROVE  \A q \in Runs, s \in Phases : Goes(q, s)
<1>. DEFINE p == work[r][ph]
<1>1. ASSUME NEW e \in Drives, NEW to \in BatchState \ {"none", "finished"},
             p.st[e] \notin {"none", "finished"}, Moves(r, ph, e, to)
      PROVE  \A q \in Runs, s \in Phases : Goes(q, s)
  <2>1. work' = [work EXCEPT ![r][ph] = Move(p, e, to)]
    BY <1>1 DEF Moves
  <2>2. work'[r][ph] = Move(p, e, to)
    BY <2>1, OnePhase DEF IInv
  <2>3. Goes(r, ph)
    BY <1>1, <2>2 DEF Goes
  <2>. QED  BY <2>1, <2>3, OnePhase DEF IInv
<1>2. CASE Takes(r, ph)
  <2>. DEFINE e == First(In(p, {"queued"}))
  <2>1. e \in Drives /\ p.st[e] = "queued"
    BY <1>2, FirstIn DEF Takes, CanTake, In
  <2>2. Moves(r, ph, e, "taken")
    BY <1>2 DEF Takes, Take, Moves
  <2>. HIDE DEF e, p
  <2>. QED  BY <2>1, <2>2, <1>1 DEF BatchState, Owned
<1>3. CASE EntersBatch(r, ph, d)
  BY <1>1, <1>3 DEF EntersBatch, BatchState, Owned, GivenUp
<1>4. CASE BeginsJob(r, ph, d)
  BY <1>1, <1>4 DEF BeginsJob, BatchState, Owned, GivenUp
<1>5. CASE JobAborts(r, ph, d)
  BY <1>1, <1>5 DEF JobAborts, BatchState, Owned, GivenUp
<1>6. CASE JobCompletes(r, ph, d)
  <2>1. p.st[d] = "running" /\ work' = [work EXCEPT ![r][ph] = Complete(p, d)]
    BY <1>6 DEF JobCompletes
  <2>2. work'[r][ph] = Complete(p, d)
    BY <2>1, OnePhase DEF IInv
  <2>3. Goes(r, ph)
    BY <2>1, <2>2 DEF Goes
  <2>. QED  BY <2>1, <2>3, OnePhase DEF IInv
<1>. QED
  BY <1>2, <1>3, <1>4, <1>5, <1>6 DEF PoolThread

\* The steps of the coordinating thread.
LEMMA CoordinatorGoes ==
    ASSUME IInv, NEW r \in Runs, Coordinator(r)
    PROVE  \A q \in Runs, s \in Phases : Goes(q, s)
<1>1. ASSUME UNCHANGED work  PROVE \A q \in Runs, s \in Phases : Goes(q, s)
  BY <1>1 DEF Goes
<1>2. CASE PlanStops(r) \/ PlanAdvances(r) \/ PlanFails(r) \/ EmbeddedReturned(r)
  BY <1>1, <1>2 DEF PlanStops, PlanAdvances, PlanFails, EmbeddedReturned
<1>3. ASSUME NEW ph \in Phases, PhaseFailed(r, ph)  PROVE \A q \in Runs, s \in Phases : Goes(q, s)
  BY <1>1, <1>3 DEF PhaseFailed
<1>4. ASSUME NEW ph \in Phases, Feeds(r, ph)  PROVE \A q \in Runs, s \in Phases : Goes(q, s)
  <2>. DEFINE p == work[r][ph]
              d == First(In(p, {"unfed"}))
  <2>1. CASE abort
    <3>1. work' = [work EXCEPT ![r][ph] = StopFeeding(p)]
      BY <1>4, <2>1 DEF Feeds
    <3>2. work'[r][ph] = StopFeeding(p)
      BY <3>1, OnePhase DEF IInv
    <3>3. Goes(r, ph)
      BY <3>2, <2>1 DEF Goes
    <3>. QED  BY <3>1, <3>3, OnePhase DEF IInv
  <2>2. CASE ~abort
    <3>1. work' = [work EXCEPT ![r][ph] = Move(p, d, "queued")]
      BY <1>4, <2>2 DEF Feeds, Feed
    <3>3. d \in Drives /\ p.st[d] = "unfed"
      BY <1>4, FirstIn DEF Feeds, CanFeed, In
    <3>. HIDE DEF d, p
    <3>2. work'[r][ph] = Move(p, d, "queued")
      BY <3>1, OnePhase DEF IInv
    <3>4. "queued" \in BatchState \ {"none", "finished"} /\ p.st[d] \notin {"none", "finished"}
      BY <3>3 DEF BatchState
    <3>5. Goes(r, ph)
      BY <3>2, <3>3, <3>4 DEF Goes, p
    <3>. QED  BY <3>1, <3>5, OnePhase DEF IInv
  <2>. QED  BY <2>1, <2>2
<1>5. ASSUME NEW ph \in Phases, Joins(r, ph)  PROVE \A q \in Runs, s \in Phases : Goes(q, s)
  <2>1. work' = [work EXCEPT ![r][ph] = Return(work[r][ph])] /\ CanReturn(work[r][ph])
    BY <1>5 DEF Joins
  <2>2. work'[r][ph] = Return(work[r][ph])
    BY <2>1, OnePhase DEF IInv
  <2>3. Goes(r, ph)
    BY <2>1, <2>2 DEF Goes
  <2>. QED  BY <2>1, <2>3, OnePhase DEF IInv
<1>6. ASSUME NEW ph \in Phases, StartPhase(r, ph),
             \/ ph = "sha" /\ pc[r] = "plan"
             \/ ph = "embedded" /\ pc[r] = "sha" /\ work[r]["sha"].feeder = "ok"
      PROVE  \A q \in Runs, s \in Phases : Goes(q, s)
  <2>. PICK p : p = NewPhase(plan[r][ph])
    OBVIOUS
  <2>0. pc'[r] = ph
    BY <1>6 DEF StartPhase, IInv, TypeOK
  <2>1. TypeOK /\ work' = [work EXCEPT ![r][ph] = p]
    BY <1>6 DEF StartPhase, IInv
  <2>2. work'[r][ph] = p
    BY <2>1, OnePhase
  <2>3. Goes(r, ph)
    BY <1>6, <2>0, <2>2 DEF Goes
  <2>. QED  BY <2>1, <2>3, OnePhase
<1>7. CASE PlanReady(r)
  BY <1>1, <1>6, <1>7, "sha" \in Phases DEF PlanReady, Phases
<1>8. CASE ShaReturned(r)
  BY <1>1, <1>6, <1>8, "embedded" \in Phases DEF ShaReturned, InPhase, Phases
<1>. QED
  BY <1>2, <1>3, <1>4, <1>5, <1>7, <1>8 DEF Coordinator

\* The coordinating thread goes through planning and the two phases in this
\* order, and ends once.
PcGoes(r) ==
    \/ pc'[r] = pc[r]
    \/ pc[r] # "none" /\ pc'[r] = "ended"
    \/ pc[r] = "plan" /\ pc'[r] = "sha" /\ work'[r]["sha"] = NewPhase(plan[r]["sha"])
    \/ /\ pc[r] = "sha" /\ pc'[r] = "embedded" /\ work[r]["sha"].feeder = "ok"
       /\ work'[r]["embedded"] = NewPhase(plan[r]["embedded"])
       /\ work'[r]["sha"] = work[r]["sha"]

\* No other thread moves it.
LEMMA CoordinatorPc ==
    ASSUME IInv, NEW r \in Runs, Coordinator(r)
    PROVE  \A q \in Runs : PcGoes(q)
<1>1. pc \in [Runs -> {"none", "plan", "ended"} \cup Phases]
  BY DEF IInv, TypeOK
<1>2. ASSUME UNCHANGED pc  PROVE \A q \in Runs : PcGoes(q)
  BY <1>2 DEF PcGoes
<1>3. ASSUME EndRun(r), pc[r] # "none"  PROVE \A q \in Runs : PcGoes(q)
  BY <1>1, <1>3 DEF PcGoes, EndRun
<1>4. CASE PlanStops(r) \/ PlanAdvances(r) \/ PlanFails(r) \/ EmbeddedReturned(r)
  BY <1>2, <1>3, <1>4 DEF PlanStops, PlanAdvances, PlanFails, EmbeddedReturned, InPhase
<1>5. ASSUME NEW ph \in Phases, Feeds(r, ph) \/ Joins(r, ph)  PROVE \A q \in Runs : PcGoes(q)
  BY <1>2, <1>5 DEF Feeds, Joins
<1>6. ASSUME NEW ph \in Phases, PhaseFailed(r, ph)  PROVE \A q \in Runs : PcGoes(q)
  BY <1>3, <1>6, ph # "none" DEF PhaseFailed, InPhase, Phases
<1>7. ASSUME NEW ph \in Phases, StartPhase(r, ph)
      PROVE  /\ pc'[r] = ph /\ \A q \in Runs \ {r} : pc'[q] = pc[q]
             /\ \A s \in Phases : work'[r][s] = IF s = ph THEN NewPhase(plan[r][ph]) ELSE work[r][s]
  BY <1>1, <1>7 DEF StartPhase, IInv, TypeOK
<1>8. CASE PlanReady(r)
  <2>1. CASE plan[r].count = 0
    BY <1>3, <1>8, <2>1 DEF PlanReady
  <2>2. CASE plan[r].count # 0
    <3>1. pc[r] = "plan" /\ StartPhase(r, "sha") /\ "sha" \in Phases
      BY <1>8, <2>2 DEF PlanReady, Phases
    <3>2. pc'[r] = "sha" /\ work'[r]["sha"] = NewPhase(plan[r]["sha"])
          /\ \A q \in Runs \ {r} : pc'[q] = pc[q]
      BY <3>1, <1>7
    <3>. QED  BY <3>1, <3>2 DEF PcGoes
  <2>. QED  BY <2>1, <2>2
<1>9. CASE ShaReturned(r)
  <2>1. pc[r] = "sha" /\ work[r]["sha"].feeder = "ok"
    BY <1>9 DEF ShaReturned, InPhase
  <2>2. CASE abort
    BY <1>3, <1>9, <2>1, <2>2 DEF ShaReturned
  <2>3. CASE ~abort
    <3>1. StartPhase(r, "embedded") /\ "embedded" \in Phases /\ "sha" \in Phases
      BY <1>9, <2>3 DEF ShaReturned, Phases
    <3>2. /\ pc'[r] = "embedded" /\ work'[r]["embedded"] = NewPhase(plan[r]["embedded"])
          /\ work'[r]["sha"] = work[r]["sha"]
          /\ \A q \in Runs \ {r} : pc'[q] = pc[q]
      BY <3>1, <1>7
    <3>. QED  BY <2>1, <3>2 DEF PcGoes
  <2>. QED  BY <2>2, <2>3
<1>. QED
  BY <1>4, <1>5, <1>6, <1>8, <1>9 DEF Coordinator

\* Every step is one of the threads of the runs and the scans, which leave the
\* channel of each run alone, or one of the user's, which leaves the work alone.
LEMMA StepIs ==
    ASSUME IInv, [Next]_vars
    PROVE  \/ /\ UNCHANGED <<gui, abort, rx, history, runs, chan>>
              /\ \A q \in Runs : PcGoes(q) /\ \A s \in Phases : Goes(q, s)
           \/ Gui
<1>1. ASSUME NEW s \in Scans, ScanEnds(s)
      PROVE  UNCHANGED <<gui, abort, rx, history, runs, chan, pc, work>>
  BY <1>1 DEF ScanEnds, WorkersOnly
<1>2. ASSUME UNCHANGED <<pc, work>>
      PROVE  \A q \in Runs : PcGoes(q) /\ \A s \in Phases : Goes(q, s)
  BY <1>2 DEF PcGoes, Goes
<1>3. ASSUME NEW r \in Runs, Coordinator(r)
      PROVE  /\ UNCHANGED <<gui, abort, rx, history, runs, chan>>
             /\ \A q \in Runs : PcGoes(q) /\ \A s \in Phases : Goes(q, s)
  <2>1. UNCHANGED <<gui, abort, rx, history, runs, chan>>
    BY <1>3 DEF Coordinator, PlanStops, PlanAdvances, PlanFails, PlanReady, ShaReturned,
          EmbeddedReturned, Feeds, Joins, PhaseFailed, InPhase, OfRun, WorkersOnly
  <2>. QED  BY <1>3, <2>1, CoordinatorPc, CoordinatorGoes
<1>4. ASSUME NEW r \in Runs, NEW ph \in Phases, NEW d \in Drives,
             Takes(r, ph) \/ PoolThread(r, ph, d)
      PROVE  /\ UNCHANGED <<gui, abort, rx, history, runs, chan>>
             /\ \A q \in Runs : PcGoes(q) /\ \A s \in Phases : Goes(q, s)
  <2>1. UNCHANGED <<gui, abort, rx, history, runs, chan, pc>>
    BY <1>4 DEF Takes, PoolThread, EntersBatch, BeginsJob, JobCompletes, JobAborts, OfRun, WorkersOnly
  <2>2. \A q \in Runs, s \in Phases : Goes(q, s)
    BY <1>4, PoolGoes
  <2>. QED  BY <2>1, <2>2 DEF PcGoes
<1>5. 1 \in Drives
  BY PhaseAssumption DEF Drives
<1>6. ASSUME UNCHANGED vars
      PROVE  /\ UNCHANGED <<gui, abort, rx, history, runs, chan>>
             /\ \A q \in Runs : PcGoes(q) /\ \A s \in Phases : Goes(q, s)
  BY <1>2, <1>6 DEF vars, threads
<1>. QED
  BY <1>1, <1>2, <1>3, <1>4, <1>5, <1>6 DEF Next, Worker, Gone

\* The user's steps leave the work alone, and the thread of every run but a new one.
LEMMA GuiIs ==
    ASSUME IInv, Gui
    PROVE  /\ UNCHANGED work
           /\ \/ UNCHANGED <<runs, chan, pc, plan>> /\ UNCHANGED <<rx, aborted>>
              \/ StartVerification
              \/ ConfirmAbort /\ verifying
BY DEF Gui, Click, FrameStarts, OnDrivesFound, OnJobsReady, OnResult, OnStop, Receive, Drained,
       NoClick, StartScan, AbortButton, ConfirmAbort, Continue, DismissDialog, StartVerification,
       threads, history

(***************************************************************************)
(* The order of the phases.  A run that was not aborted still has the      *)
(* current channel, so it lost no worker; its SHA-256 phase then returned  *)
(* only when every batch was finished, that is, had no job left.           *)
(***************************************************************************)

\* A run loses its channel only by an abort.
NotAbortedLive == \A r \in 1..runs : r \notin aborted => chan[r] = rx

\* A batch that is over, or was never one, has no job left.
OverIsEmpty(p) ==
    \A d \in Drives : p.st[d] \in {"none", "finished"} => p.left[d] = 0

\* No job is left, or no batch there yet.
NoneLeft(p) == \A d \in Drives : p.left[d] = 0
NoBatch(p)  == \A d \in Drives : p.st[d] = "none"

WorkOrdered ==
    \A r \in Runs :
        /\ \A ph \in Phases : OverIsEmpty(work[r][ph])
        /\ \A ph \in Phases :
              chan[r] = rx /\ work[r][ph].feeder # "feeding" => NoneLeft(work[r][ph])
        /\ pc[r] = "embedded" /\ chan[r] = rx => NoneLeft(work[r]["sha"])
        /\ pc[r] \in {"none", "plan"} => \A ph \in Phases : NoBatch(work[r][ph])
        /\ pc[r] = "sha" => NoBatch(work[r]["embedded"])

OInv == IInv /\ NotAbortedLive /\ WorkOrdered

\* A phase that returns with no worker lost has finished every batch.
LEMMA ReturnIsEmpty ==
    ASSUME NEW p \in Phase, OverIsEmpty(p), Clean(p), CanReturn(p)
    PROVE  NoneLeft(p)
<1>1. In(p, {"unfed"}) = {} /\ In(p, Owned) = {} /\ In(p, GivenUp) = {}
  BY DEF CanReturn, PoolEnded, Clean, In
<1>2. In(p, {"queued"}) = {}
  <2>1. SUFFICES ASSUME In(p, {"queued"}) # {}  PROVE FALSE
    OBVIOUS
  <2>2. Cardinality(In(p, GivenUp)) = 0
    BY <1>1, FS_EmptySet
  <2>3. Workers(p) = 0
    BY <2>1, <2>2 DEF CanReturn, PoolEnded
  <2>4. IsFiniteSet(Batches(p)) /\ Batches(p) # {}
    <3>1. IsFiniteSet(Drives)
      BY FS_Interval, PhaseAssumption, 1 \in Int, NumDrives \in Int DEF Drives
    <3>2. Batches(p) \in SUBSET Drives
      BY DEF Batches
    <3>3. Batches(p) # {}
      BY <2>1 DEF Batches, In
    <3>. QED  BY <3>1, <3>2, <3>3, FS_Subset
  <2>5. Cardinality(Batches(p)) \in Nat /\ Cardinality(Batches(p)) # 0
    BY <2>4, FS_CardinalityType, FS_EmptySet
  <2>. QED  BY <2>3, <2>5, PhaseAssumption DEF Workers
<1>3. ASSUME NEW d \in Drives  PROVE p.st[d] \in {"none", "finished"}
  <2>1. p.st[d] \in BatchState
    BY DEF Phase
  <2>. QED  BY <2>1, <1>1, <1>2 DEF BatchState, In
<1>. QED
  BY <1>3 DEF OverIsEmpty, NoneLeft

\* A phase goes on without adding work: a job is left in each batch not over.
LEMMA GoesKeeps ==
    ASSUME NEW p, PhaseInv(p), OverIsEmpty(p), NEW q,
           \/ q = p
           \/ \E d \in Drives, to \in BatchState \ {"none", "finished"} :
                 p.st[d] \notin {"none", "finished"} /\ q = Move(p, d, to)
           \/ \E d \in Drives : p.st[d] = "running" /\ q = Complete(p, d)
           \/ q = StopFeeding(p)
           \/ q = Return(p)
    PROVE  /\ OverIsEmpty(q)
           /\ NoneLeft(p) => NoneLeft(q)
           /\ NoBatch(p) => NoBatch(q)
<1>0. p \in Phase
  BY DEF PhaseInv
<1>1. CASE q = p
  BY <1>1
<1>2. ASSUME NEW d \in Drives, NEW to \in BatchState \ {"none", "finished"},
             p.st[d] \notin {"none", "finished"}, q = Move(p, d, to)
      PROVE  OverIsEmpty(q) /\ (NoneLeft(p) => NoneLeft(q)) /\ (NoBatch(p) => NoBatch(q))
  BY <1>0, <1>2 DEF Move, Phase, OverIsEmpty, NoneLeft, NoBatch
<1>3. ASSUME NEW d \in Drives, p.st[d] = "running", q = Complete(p, d)
      PROVE  OverIsEmpty(q) /\ (NoneLeft(p) => NoneLeft(q)) /\ (NoBatch(p) => NoBatch(q))
  <2>1. p.left[d] \in Nat /\ p.left[d] > 0
    BY <1>0, <1>3 DEF PhaseInv, Phase
  <2>2. /\ \A e \in Drives : q.left[e] = IF e = d THEN p.left[d] - 1 ELSE p.left[e]
        /\ \A e \in Drives : q.st[e] = IF e = d THEN IF p.left[d] = 1 THEN "finished" ELSE "held"
                                       ELSE p.st[e]
    BY <1>0, <1>3 DEF Complete, Phase
  <2>3. OverIsEmpty(q)
    BY <2>1, <2>2 DEF OverIsEmpty
  <2>4. ~NoneLeft(p) /\ ~NoBatch(p)
    BY <1>3, <2>1 DEF NoneLeft, NoBatch
  <2>. QED  BY <2>3, <2>4
<1>4. CASE q = StopFeeding(p) \/ q = Return(p)
  <2>1. q.st = p.st /\ q.left = p.left
    BY <1>0, <1>4 DEF StopFeeding, Return, Phase
  <2>. QED  BY <2>1 DEF OverIsEmpty, NoneLeft, NoBatch
<1>. QED
  BY <1>1, <1>2, <1>3, <1>4

\* What a step of the threads makes of one phase.
LEMMA PhaseOrdered ==
    ASSUME OInv, NEW r \in Runs, NEW ph \in Phases, Goes(r, ph)
    PROVE  /\ OverIsEmpty(work'[r][ph])
           /\ chan[r] = rx /\ work'[r][ph].feeder # "feeding" => NoneLeft(work'[r][ph])
           /\ pc'[r] # ph => /\ NoneLeft(work[r][ph]) => NoneLeft(work'[r][ph])
                             /\ NoBatch(work[r][ph]) => NoBatch(work'[r][ph])
<1>. DEFINE p == work[r][ph]
<1>. PICK q : q = work'[r][ph]
  OBVIOUS
<1>1. /\ PhaseInv(p) /\ p \in Phase /\ OverIsEmpty(p)
      /\ chan[r] = rx => Clean(p) /\ ~abort
      /\ chan[r] = rx /\ p.feeder # "feeding" => NoneLeft(p)
  BY AtPhase DEF OInv, WorkOrdered
<1>2. CASE q = NewPhase(plan[r][ph]) /\ pc'[r] = ph
  <2>1. q.feeder = "feeding" /\ OverIsEmpty(q)
    BY <1>2 DEF NewPhase, OverIsEmpty
  <2>. QED  BY <1>2, <2>1
<1>3. ASSUME \/ q = p
             \/ \E d \in Drives, to \in BatchState \ {"none", "finished"} :
                   p.st[d] \notin {"none", "finished"} /\ q = Move(p, d, to)
             \/ \E d \in Drives : p.st[d] = "running" /\ q = Complete(p, d)
             \/ q = StopFeeding(p) /\ abort
             \/ q = Return(p) /\ CanReturn(p)
      PROVE  /\ OverIsEmpty(q)
             /\ chan[r] = rx /\ q.feeder # "feeding" => NoneLeft(q)
             /\ NoneLeft(p) => NoneLeft(q)
             /\ NoBatch(p) => NoBatch(q)
  <2>. HIDE DEF p
  <2>1. /\ OverIsEmpty(q) /\ (NoneLeft(p) => NoneLeft(q)) /\ (NoBatch(p) => NoBatch(q))
    BY <1>1, <1>3, GoesKeeps
  <2>2. ASSUME chan[r] = rx, q.feeder # "feeding"  PROVE NoneLeft(q)
    <3>1. CASE p.feeder # "feeding"
      BY <1>1, <2>1, <2>2, <3>1
    <3>2. CASE p.feeder = "feeding" /\ ~(q = Return(p) /\ CanReturn(p))
      <4>1. ~(q = StopFeeding(p) /\ abort)
        BY <1>1, <2>2
      <4>2. q.feeder = p.feeder
        BY <1>1, <1>3, <3>2, <4>1 DEF Move, Complete, Phase
      <4>. QED  BY <2>2, <3>2, <4>2
    <3>3. CASE q = Return(p) /\ CanReturn(p)
      BY <1>1, <2>1, <2>2, <3>3, ReturnIsEmpty
    <3>. QED  BY <3>1, <3>2, <3>3
  <2>. QED  BY <2>1, <2>2
<1>. QED
  BY <1>2, <1>3 DEF Goes

\* A step of the threads keeps the order of every run.
LEMMA ThreadsOrdered ==
    ASSUME OInv, NEW r \in Runs, PcGoes(r), \A s \in Phases : Goes(r, s),
           UNCHANGED <<rx, chan>>
    PROVE  /\ \A ph \in Phases : OverIsEmpty(work'[r][ph])
           /\ \A ph \in Phases :
                 chan'[r] = rx' /\ work'[r][ph].feeder # "feeding" => NoneLeft(work'[r][ph])
           /\ pc'[r] = "embedded" /\ chan'[r] = rx' => NoneLeft(work'[r]["sha"])
           /\ pc'[r] \in {"none", "plan"} => \A ph \in Phases : NoBatch(work'[r][ph])
           /\ pc'[r] = "sha" => NoBatch(work'[r]["embedded"])
<1>0. "sha" \in Phases /\ "embedded" \in Phases /\ Phases = {"sha", "embedded"}
  BY DEF Phases
<1>1. \A ph \in Phases :
         /\ OverIsEmpty(work'[r][ph])
         /\ chan[r] = rx /\ work'[r][ph].feeder # "feeding" => NoneLeft(work'[r][ph])
         /\ pc'[r] # ph => /\ NoneLeft(work[r][ph]) => NoneLeft(work'[r][ph])
                           /\ NoBatch(work[r][ph]) => NoBatch(work'[r][ph])
  BY PhaseOrdered
<1>2. /\ \A ph \in Phases :
            chan[r] = rx /\ work[r][ph].feeder # "feeding" => NoneLeft(work[r][ph])
      /\ pc[r] = "embedded" /\ chan[r] = rx => NoneLeft(work[r]["sha"])
      /\ pc[r] \in {"none", "plan"} => \A ph \in Phases : NoBatch(work[r][ph])
      /\ pc[r] = "sha" => NoBatch(work[r]["embedded"])
  BY DEF OInv, WorkOrdered
<1>3. ASSUME pc'[r] = "embedded", chan[r] = rx  PROVE NoneLeft(work'[r]["sha"])
  <2>1. CASE pc[r] = "embedded"
    BY <1>0, <1>1, <1>2, <1>3, <2>1
  <2>2. CASE pc[r] # "embedded"
    <3>1. pc[r] = "sha" /\ work[r]["sha"].feeder = "ok" /\ work'[r]["sha"] = work[r]["sha"]
      BY <1>3, <2>2 DEF PcGoes
    <3>. QED  BY <1>0, <1>2, <1>3, <3>1
  <2>. QED  BY <2>1, <2>2
<1>4. ASSUME pc'[r] \in {"none", "plan"}  PROVE \A ph \in Phases : NoBatch(work'[r][ph])
  <2>1. pc[r] = pc'[r]
    BY <1>4 DEF PcGoes
  <2>. QED  BY <1>0, <1>1, <1>2, <1>4, <2>1
<1>5. ASSUME pc'[r] = "sha"  PROVE NoBatch(work'[r]["embedded"])
  <2>1. pc[r] \in {"plan", "sha"}
    BY <1>5 DEF PcGoes
  <2>. QED  BY <1>0, <1>1, <1>2, <1>5, <2>1
<1>. QED
  BY <1>1, <1>3, <1>4, <1>5

\* The order of the phases and the fate of the channels are inductive.
LEMMA OrderStep ==
    ASSUME OInv, [Next]_vars
    PROVE  OInv'
<1>0. IInv /\ IInv'
  BY NextInv DEF OInv
<1>1. CASE /\ UNCHANGED <<gui, abort, rx, history, runs, chan>>
           /\ \A q \in Runs : PcGoes(q) /\ \A s \in Phases : Goes(q, s)
  <2>1. NotAbortedLive'
    BY <1>1 DEF OInv, NotAbortedLive, history
  <2>2. WorkOrdered'
    BY <1>1, ThreadsOrdered DEF WorkOrdered
  <2>. QED  BY <1>0, <2>1, <2>2 DEF OInv
<1>2. CASE UNCHANGED <<work, runs, chan, pc, rx, aborted>>
  BY <1>0, <1>2 DEF OInv, NotAbortedLive, WorkOrdered
<1>3. CASE StartVerification /\ UNCHANGED work
  <2>. DEFINE n == runs + 1
  <2>1. n \in Runs /\ runs \in Nat /\ ~(n <= runs)
    BY <1>0, <1>3, VerifierAssumption DEF IInv, TypeOK, StartVerification, Runs
  <2>2. /\ runs' = n /\ UNCHANGED <<rx, aborted>>
        /\ chan'[n] = rx /\ pc'[n] = "plan"
        /\ \A q \in Runs \ {n} : chan'[q] = chan[q] /\ pc'[q] = pc[q]
    BY <1>0, <1>3, <2>1 DEF IInv, TypeOK, StartVerification, history
  <2>3. NotAbortedLive'
    <3>1. ASSUME NEW q \in 1..n, q # n  PROVE q \in 1..runs /\ q \in Runs \ {n}
      <4>1. n \in Nat /\ n <= MaxRuns /\ MaxRuns \in Nat
        BY <2>1, VerifierAssumption DEF Runs
      <4>. QED  BY <2>1, <3>1, <4>1 DEF Runs
    <3>. QED  BY <2>2, <3>1 DEF OInv, NotAbortedLive
  <2>4. work[n] = [ph \in Phases |-> NoPhase]
    BY <1>0, <2>1 DEF IInv, RunsOK
  <2>5. \A ph \in Phases : work[n][ph].feeder = "feeding" /\ NoBatch(work[n][ph])
    BY <2>4 DEF NoPhase, NewPhase, NoJobs, NoBatch
  <2>6. WorkOrdered'
    BY <1>3, <2>2, <2>5 DEF OInv, WorkOrdered
  <2>. QED  BY <1>0, <2>3, <2>6 DEF OInv
<1>4. CASE ConfirmAbort /\ verifying /\ UNCHANGED work
  <2>1. /\ rx' = rx + 1 /\ aborted' = aborted \cup {q \in Runs : chan[q] = rx}
        /\ UNCHANGED <<runs, chan, pc>>
    BY <1>4 DEF ConfirmAbort, threads
  <2>2. rx \in Nat /\ \A q \in Runs : chan[q] \in 0..rx
    BY <1>0 DEF IInv, TypeOK, RunsOK
  <2>3. \A q \in Runs : chan[q] # rx + 1
    BY <2>2
  <2>4. NotAbortedLive'
    <3>1. \A q \in 1..runs : q \in Runs
      BY <1>0, VerifierAssumption DEF IInv, TypeOK, Runs
    <3>. QED  BY <2>1, <3>1 DEF OInv, NotAbortedLive
  <2>5. WorkOrdered'
    BY <1>4, <2>1, <2>3 DEF OInv, WorkOrdered
  <2>. QED  BY <1>0, <2>4, <2>5 DEF OInv
<1>. QED
  BY <1>0, <1>1, <1>2, <1>3, <1>4, StepIs, GuiIs

\* The order holds in every reachable state.
LEMMA Ordered == Spec => []OInv
<1>1. ASSUME Init  PROVE OInv
  <2>1. IInv
    BY <1>1, InitInv
  <2>2. NotAbortedLive
    BY <1>1 DEF Init, NotAbortedLive
  <2>3. \A ph \in Phases : OverIsEmpty(NoPhase) /\ NoPhase.feeder = "feeding" /\ NoBatch(NoPhase)
    BY DEF OverIsEmpty, NoBatch, NoPhase, NewPhase, NoJobs
  <2>4. WorkOrdered
    BY <1>1, <2>3 DEF Init, WorkOrdered
  <2>. QED  BY <2>1, <2>2, <2>4 DEF OInv
<1>2. OInv /\ [Next]_vars => OInv'
  BY OrderStep
<1>. QED
  BY <1>1, <1>2, PTL DEF Spec

\* verify_drives_worker: no embedded check of a run starts before the last
\* SHA-256 job of it was reported, unless the user aborted the run.
THEOREM EmbeddedComesLast == Spec => []EmbeddedAfterSha
<1>1. ASSUME OInv  PROVE EmbeddedAfterSha
  <2>1. ASSUME NEW r \in 1..runs, r \notin aborted, pc[r] = "embedded"
        PROVE  \A d \in Drives : work[r]["sha"].left[d] = 0
    <3>1. r \in Runs
      BY <1>1, VerifierAssumption DEF OInv, IInv, TypeOK, Runs
    <3>2. chan[r] = rx
      BY <1>1, <2>1 DEF OInv, NotAbortedLive
    <3>. QED  BY <1>1, <2>1, <3>1, <3>2 DEF OInv, WorkOrdered, NoneLeft
  <2>. QED  BY <2>1 DEF EmbeddedAfterSha
<1>. QED
  BY Ordered, <1>1, PTL

----------------------------------------------------------------------------
(***************************************************************************)
(* The results.  Every result event is one of its run's work that was done *)
(* before it was sent: a job that is no longer left, a planning step that  *)
(* is no longer to do.  A new event is one that was not reported so far.   *)
(***************************************************************************)

\* Of run r: job n of the batch of drive d, or its n-th manifest step, was done.
IsDone(r, k, d, n) ==
    /\ pc[r] # "none"
    /\ IF k = "manifest" THEN <<d, n>> \notin plan[r].todo
       ELSE /\ pc[r] # "plan" /\ (k = "embedded" => pc[r] # "sha")
            /\ n <= plan[r][k][d] - work[r][k].left[d]
Reported(e) == IsDone(e.run, e.kind, e.drive, e.job)

\* Events shown and events in the channel are all of work that was done, and all different.
ShownOnce == \A e \in results : e.type = "Result" /\ Reported(e)
SentOnce  ==
    \A i \in 1..Len(queue) : queue[i].type = "Result" =>
        /\ Reported(queue[i]) /\ queue[i] \notin results
        /\ \A j \in 1..Len(queue) : queue[j] = queue[i] => j = i
Counted == /\ IsFiniteSet(results) /\ done = Cardinality(results)
           /\ ShownOnce /\ SentOnce

\* A plan only shrinks what is to do, and is fixed when planning ends.
PlanGoes(r) ==
    /\ plan'[r].todo \subseteq plan[r].todo
    /\ pc[r] # "plan" => plan'[r] = plan[r]

\* At most one event is sent; a result is of work that was not reported before.
Sends ==
    \/ UNCHANGED queue
    \/ \E e \in Event : /\ queue' = Append(queue, e)
                        /\ e.type = "Result" => ~Reported(e) /\ Reported(e)'

\* The parts of a result event.
LEMMA ResultIs ==
    ASSUME NEW e \in Event, e.type = "Result"
    PROVE  e.run \in Runs /\ e.kind \in Kinds /\ e.drive \in Drives /\ e.job \in Nat
BY DEF Event

\* Once a phase runs, its jobs only become fewer.
LEMMA LeftFalls ==
    ASSUME IInv, NEW r \in Runs, NEW ph \in Phases, Goes(r, ph),
           pc[r] \notin {"none", "plan"}, ph = "embedded" => pc[r] # "sha"
    PROVE  \A d \in Drives : work'[r][ph].left[d] <= work[r][ph].left[d]
<1>. DEFINE p == work[r][ph]
<1>. PICK q : q = work'[r][ph]
  OBVIOUS
<1>1. p \in Phase
  BY AtPhase
<1>2. \A d \in Drives : p.left[d] \in Nat
  BY <1>1 DEF Phase
<1>3. CASE q = p
  BY <1>2, <1>3
<1>4. ASSUME NEW d \in Drives, NEW to \in BatchState, q = Move(p, d, to)
      PROVE  q.left = p.left
  BY <1>1, <1>4 DEF Move, Phase
<1>5. ASSUME NEW d \in Drives, q = Complete(p, d)
      PROVE  \A e \in Drives : q.left[e] <= p.left[e]
  BY <1>1, <1>2, <1>5 DEF Complete, Phase
<1>6. ASSUME q = StopFeeding(p) \/ q = Return(p)
      PROVE  q.left = p.left
  BY <1>1, <1>6 DEF StopFeeding, Return, Phase
<1>7. \/ q = p
      \/ \E d \in Drives, to \in BatchState : q = Move(p, d, to)
      \/ \E d \in Drives : q = Complete(p, d)
      \/ q = StopFeeding(p) \/ q = Return(p)
  BY DEF Goes
<1>. HIDE DEF p
<1>. QED
  BY <1>2, <1>3, <1>4, <1>5, <1>6, <1>7 DEF p

\* What was done stays done.
LEMMA ReportedStays ==
    ASSUME IInv, IInv', NEW e \in Event, e.type = "Result", Reported(e),
           PcGoes(e.run), PlanGoes(e.run), \A ph \in Phases : Goes(e.run, ph)
    PROVE  Reported(e)'
<1>. PICK r, k, d, n : r = e.run /\ k = e.kind /\ d = e.drive /\ n = e.job
  OBVIOUS
<1>1. /\ r \in Runs /\ k \in Kinds /\ d \in Drives /\ n \in Nat
      /\ PcGoes(r) /\ PlanGoes(r) /\ \A ph \in Phases : Goes(r, ph)
  BY ResultIs
<1>2. IsDone(r, k, d, n) /\ pc[r] # "none" /\ pc'[r] # "none"
  BY <1>1 DEF Reported, IsDone, PcGoes
<1>3. CASE k = "manifest"
  BY <1>1, <1>2, <1>3 DEF Reported, IsDone, PlanGoes
<1>4. CASE k # "manifest"
  <2>1. /\ pc[r] # "plan" /\ (k = "embedded" => pc[r] # "sha")
        /\ n <= plan[r][k][d] - work[r][k].left[d]
    BY <1>2, <1>4 DEF IsDone
  <2>2. k \in Phases /\ plan'[r] = plan[r]
    BY <1>1, <1>4, <2>1 DEF Kinds, PlanGoes
  <2>3. pc'[r] # "plan" /\ (k = "embedded" => pc'[r] # "sha")
    BY <1>1, <2>1 DEF PcGoes
  <2>4. work'[r][k].left[d] <= work[r][k].left[d]
    BY <1>1, <1>2, <2>1, <2>2, LeftFalls
  <2>5. work[r][k].left[d] \in Nat /\ work'[r][k].left[d] \in Nat /\ plan[r][k][d] \in Nat
    <3>1. work[r][k] \in Phase /\ work'[r][k] \in Phase /\ plan[r] \in Plan
      BY <1>1, <2>2 DEF IInv, TypeOK
    <3>. QED  BY <1>1, <2>2, <3>1, PlanCounts DEF Phase
  <2>6. n <= plan'[r][k][d] - work'[r][k].left[d]
    BY <1>1, <2>1, <2>2, <2>4, <2>5
  <2>7. IsDone(r, k, d, n)'
    BY <1>2, <1>4, <2>3, <2>6 DEF IsDone
  <2>. QED  BY <2>7 DEF Reported
<1>. QED
  BY <1>1, <1>3, <1>4 DEF Kinds

\* execute_job: a job that completes was not reported before.
LEMMA NewJob ==
    ASSUME OInv, NEW r \in Runs, NEW ph \in Phases, NEW d \in Drives, JobCompletes(r, ph, d),
           NEW e, e = Result(r, ph, d, plan[r][ph][d] - work[r][ph].left[d] + 1)
    PROVE  e \in Event /\ ~Reported(e) /\ Reported(e)'
<1>. PICK p, n : p = work[r][ph] /\ n = plan[r][ph][d] - work[r][ph].left[d] + 1
  OBVIOUS
<1>1. IInv /\ p \in Phase /\ p.st[d] = "running" /\ PhaseInv(p)
  BY AtPhase DEF OInv, JobCompletes
<1>2. /\ p.left[d] \in Nat /\ plan[r][ph][d] \in Nat /\ p.left[d] <= plan[r][ph][d]
      /\ n \in Nat
  <2>1. p.left[d] \in Nat
    BY <1>1 DEF Phase
  <2>2. plan[r][ph][d] \in Nat
    BY <1>1, PlanCounts DEF IInv, TypeOK
  <2>3. p.left[d] <= plan[r][ph][d]
    BY <1>1 DEF IInv, PhasesOK, PhaseOK
  <2>. QED  BY <2>1, <2>2, <2>3
<1>3. e \in Event /\ e.run = r /\ e.kind = ph /\ e.drive = d /\ e.job = n
  BY <1>2, EventsAre DEF Kinds, Result
<1>4. ph # "manifest"
  BY DEF Phases
<1>5. ~IsDone(r, ph, d, n)
  <2>1. ~(n <= plan[r][ph][d] - work[r][ph].left[d])
    BY <1>2
  <2>. QED  BY <1>4, <2>1 DEF IsDone
<1>6. work'[r][ph] = Complete(p, d) /\ UNCHANGED <<pc, plan>>
  BY <1>1, OnePhase DEF JobCompletes, IInv
<1>7. work'[r][ph].left[d] = p.left[d] - 1
  BY <1>1, <1>6 DEF Complete, Phase
<1>8. pc[r] \notin {"none", "plan"} /\ (ph = "embedded" => pc[r] # "sha")
  BY <1>1 DEF OInv, WorkOrdered, NoBatch
<1>9. IsDone(r, ph, d, n)'
  <2>1. n <= plan'[r][ph][d] - work'[r][ph].left[d]
    BY <1>2, <1>6, <1>7
  <2>. QED  BY <1>4, <1>6, <1>8, <2>1 DEF IsDone
<1>. QED
  BY <1>3, <1>5, <1>9 DEF Reported

\* From plan p to q by planning step k of drive d: the drive's embedded check, nothing, or
\* the entries of a manifest.
PlanGrows(p, q, d, k) ==
    /\ q.todo = p.todo \ {<<d, k>>}
    /\ \/ /\ k = 0 /\ d \in Embedded
          /\ q.sha = p.sha /\ q.embedded = [p.embedded EXCEPT ![d] = 1]
          /\ q.count = p.count + 1
       \/ /\ (k = 0 /\ d \notin Embedded) \/ IsUnreadable(d, k)
          /\ q.sha = p.sha /\ q.embedded = p.embedded /\ q.count = p.count
       \/ /\ k > 0 /\ ~IsUnreadable(d, k)
          /\ q.sha = [p.sha EXCEPT ![d] = @ + Manifests[d][k]] /\ q.embedded = p.embedded
          /\ q.count = p.count + Manifests[d][k]

\* A planning step does that.
LEMMA PlannedIs ==
    ASSUME NEW p \in Plan, NEW d \in Drives, NEW k \in Nat, NEW q, q = Planned(p, d, k)
    PROVE  PlanGrows(p, q, d, k)
<1>. PICK rest : rest = [p EXCEPT !.todo = @ \ {<<d, k>>}]
  OBVIOUS
<1>1. /\ rest \in [todo : SUBSET PlanSteps(Drives), sha : [Drives -> Nat],
                   embedded : [Drives -> 0..1], count : Nat]
      /\ rest.todo = p.todo \ {<<d, k>>} /\ rest.sha = p.sha
      /\ rest.embedded = p.embedded /\ rest.count = p.count
  BY DEF Plan
<1>2. CASE k = 0 /\ d \in Embedded
  <2>1. q = [rest EXCEPT !.embedded[d] = 1, !.count = @ + 1]
    BY <1>2 DEF Planned
  <2>. QED  BY <1>1, <1>2, <2>1 DEF PlanGrows
<1>3. CASE (k = 0 /\ d \notin Embedded) \/ IsUnreadable(d, k)
  <2>1. q = rest
    BY <1>3 DEF Planned, IsUnreadable
  <2>. QED  BY <1>1, <1>3, <2>1 DEF PlanGrows
<1>4. CASE k > 0 /\ ~IsUnreadable(d, k)
  <2>. PICK m : m = Manifests[d][k]
    OBVIOUS
  <2>1. q = [rest EXCEPT !.sha[d] = @ + m, !.count = @ + m]
    BY <1>4 DEF Planned
  <2>2. q.todo = rest.todo /\ q.embedded = rest.embedded /\ q.count = rest.count + m
        /\ q.sha = [rest.sha EXCEPT ![d] = @ + m]
    BY <1>1, <2>1
  <2>. QED  BY <1>1, <1>4, <2>2 DEF PlanGrows
<1>. QED
  BY <1>2, <1>3, <1>4

\* load_verification_jobs: a manifest that cannot be loaded was not reported before.
LEMMA NewManifest ==
    ASSUME OInv, NEW r \in Runs, PlanAdvances(r)
    PROVE  PlanGoes(r) /\ Sends /\ \A q \in Runs \ {r} : plan'[q] = plan[q]
<1>1. PICK s \in plan[r].todo :
         /\ plan' = [plan EXCEPT ![r] = Planned(@, s[1], s[2])]
         /\ IF IsUnreadable(s[1], s[2]) THEN Send(chan[r], Result(r, "manifest", s[1], s[2]))
                                        ELSE UNCHANGED queue
  BY DEF PlanAdvances
<1>2. plan[r] \in Plan /\ plan \in [Runs -> Plan] /\ pc[r] = "plan" /\ UNCHANGED pc
  BY DEF OInv, IInv, TypeOK, PlanAdvances
<1>3. s[1] \in Drives /\ s[2] \in Nat /\ s = <<s[1], s[2]>> /\ Planned(plan[r], s[1], s[2]) \in Plan
  <2>1. s[1] \in Drives /\ s[2] \in Nat /\ Planned(plan[r], s[1], s[2]) \in Plan
    BY <1>2, PlannedGrows
  <2>2. s \in PlanSteps(Drives)
    BY <1>2 DEF Plan
  <2>. QED  BY <2>1, <2>2 DEF PlanSteps
<1>4. plan'[r] = Planned(plan[r], s[1], s[2]) /\ \A q \in Runs \ {r} : plan'[q] = plan[q]
  BY <1>1, <1>2
<1>5. plan'[r].todo = plan[r].todo \ {s}
  <2>1. PlanGrows(plan[r], plan'[r], s[1], s[2])
    BY <1>2, <1>3, <1>4, PlannedIs
  <2>. QED  BY <1>3, <2>1 DEF PlanGrows
<1>6. Sends
  <2>. PICK e : e = Result(r, "manifest", s[1], s[2])
    OBVIOUS
  <2>1. CASE IsUnreadable(s[1], s[2])
    <3>1. queue' = Append(queue, e) \/ UNCHANGED queue
      BY <1>1, <2>1 DEF Send
    <3>2. e \in Event /\ e.run = r /\ e.kind = "manifest" /\ e.drive = s[1] /\ e.job = s[2]
      BY <1>3, EventsAre DEF Kinds, Result
    <3>3. ~IsDone(r, "manifest", s[1], s[2])
      BY <1>3 DEF IsDone
    <3>4. IsDone(r, "manifest", s[1], s[2])'
      BY <1>2, <1>3, <1>5 DEF IsDone
    <3>5. ~Reported(e) /\ Reported(e)'
      BY <3>2, <3>3, <3>4 DEF Reported
    <3>. QED  BY <3>1, <3>2, <3>5 DEF Sends
  <2>. QED  BY <1>1, <2>1 DEF Sends
<1>. QED
  BY <1>2, <1>4, <1>5, <1>6 DEF PlanGoes

\* Sending another event than a result.
LEMMA SendsOther ==
    ASSUME NEW e \in Event, e.type # "Result", NEW c, Send(c, e)
    PROVE  Sends
BY DEF Send, Sends

\* The threads of the runs and the scans keep to the plans and send nothing twice.
LEMMA ThreadsSend ==
    ASSUME OInv, [Next]_vars, ~Gui
    PROVE  Sends /\ \A q \in Runs : PlanGoes(q)
<1>1. ASSUME UNCHANGED plan  PROVE \A q \in Runs : PlanGoes(q)
  BY <1>1 DEF PlanGoes
<1>2. /\ Aborted.type # "Result" /\ \A n \in Nat : JobsReady(n).type # "Result"
      /\ \A D \in SUBSET Drives : DrivesFound(D).type # "Result"
      /\ Fatal("run").type # "Result" /\ Fatal("scan").type # "Result"
  BY DEF Aborted, JobsReady, DrivesFound, Fatal
<1>3. ASSUME UNCHANGED queue  PROVE Sends
  BY <1>3 DEF Sends
<1>4. ASSUME NEW c, Send(c, Aborted) \/ Send(c, Fatal("run")) \/ Send(c, Fatal("scan"))  PROVE Sends
  BY <1>2, <1>4, EventsAre, SendsOther
<1>5. ASSUME NEW s \in Scans, ScanEnds(s)  PROVE Sends /\ UNCHANGED plan
  <2>1. ASSUME NEW D \in SUBSET Drives, Send(scanChan[s], DrivesFound(D))  PROVE Sends
    BY <1>2, <2>1, EventsAre, SendsOther
  <2>. QED  BY <1>4, <1>5, <2>1 DEF ScanEnds
<1>6. ASSUME NEW r \in Runs, Coordinator(r)  PROVE Sends /\ \A q \in Runs : PlanGoes(q)
  <2>1. CASE PlanAdvances(r)
    <3>1. ASSUME NEW q \in Runs \ {r}  PROVE PlanGoes(q)
      BY <2>1, NewManifest DEF PlanGoes
    <3>. QED  BY <2>1, <3>1, NewManifest
  <2>2. CASE PlanReady(r)
    <3>1. plan[r].count \in Nat
      BY DEF OInv, IInv, TypeOK, Plan
    <3>2. Sends
      BY <1>2, <2>2, <3>1, EventsAre, SendsOther DEF PlanReady
    <3>. QED  BY <1>1, <2>2, <3>2 DEF PlanReady
  <2>3. CASE PlanStops(r) \/ PlanFails(r)
    BY <1>1, <1>3, <1>4, <2>3 DEF PlanStops, PlanFails
  <2>4. CASE ShaReturned(r) \/ EmbeddedReturned(r)
    BY <1>1, <1>3, <1>4, <2>4 DEF ShaReturned, EmbeddedReturned, InPhase
  <2>5. ASSUME NEW ph \in Phases, Feeds(r, ph) \/ Joins(r, ph) \/ PhaseFailed(r, ph)
        PROVE  Sends /\ \A q \in Runs : PlanGoes(q)
    BY <1>1, <1>3, <1>4, <2>5 DEF Feeds, Joins, PhaseFailed, InPhase
  <2>. QED  BY <1>6, <2>1, <2>2, <2>3, <2>4, <2>5 DEF Coordinator
<1>7. ASSUME NEW r \in Runs, NEW ph \in Phases, NEW d \in Drives, PoolThread(r, ph, d)
      PROVE  Sends /\ UNCHANGED plan
  <2>1. CASE JobCompletes(r, ph, d)
    <3>. PICK e : e = Result(r, ph, d, plan[r][ph][d] - work[r][ph].left[d] + 1)
      OBVIOUS
    <3>1. e \in Event /\ ~Reported(e) /\ Reported(e)'
      BY <2>1, NewJob
    <3>2. Send(chan[r], e) /\ UNCHANGED plan
      BY <2>1 DEF JobCompletes
    <3>. QED  BY <3>1, <3>2 DEF Send, Sends
  <2>2. CASE EntersBatch(r, ph, d) \/ BeginsJob(r, ph, d) \/ JobAborts(r, ph, d)
    BY <1>3, <1>4, <2>2 DEF EntersBatch, BeginsJob, JobAborts
  <2>. QED  BY <1>7, <2>1, <2>2 DEF PoolThread
<1>8. ASSUME NEW r \in Runs, NEW ph \in Phases, Takes(r, ph)  PROVE Sends /\ UNCHANGED plan
  BY <1>3, <1>8 DEF Takes
<1>9. ASSUME UNCHANGED vars  PROVE Sends /\ UNCHANGED plan
  BY <1>3, <1>9 DEF vars, threads
<1>. QED
  BY <1>1, <1>5, <1>6, <1>7, <1>8, <1>9 DEF Next, Worker, Gone

\* Sending keeps the events in the channel unreported and different.
LEMMA CountedKept ==
    ASSUME TypeOK, Counted, Sends, UNCHANGED <<done, results>>,
           \A e \in Event : e.type = "Result" /\ Reported(e) => Reported(e)'
    PROVE  Counted'
<1>0. queue \in Seq(Event) /\ results \subseteq Event /\ \A i \in 1..Len(queue) : queue[i] \in Event
  BY DEF TypeOK
<1>1. ShownOnce'
  BY <1>0 DEF Counted, ShownOnce
<1>2. CASE UNCHANGED queue
  BY <1>0, <1>1, <1>2 DEF Counted, SentOnce
<1>3. ASSUME NEW e \in Event, queue' = Append(queue, e),
             e.type = "Result" => ~Reported(e) /\ Reported(e)'
      PROVE  SentOnce'
  <2>. PICK m, q, z : m \in Nat /\ m = Len(queue) /\ q = queue /\ z = queue'
    BY <1>0
  <2>1. /\ Len(z) = m + 1 /\ z[m + 1] = e
        /\ \A i \in 1..m : z[i] = q[i] /\ q[i] \in Event
    BY <1>0, <1>3
  <2>2. \A i \in 1..m : q[i].type = "Result" =>
           /\ Reported(q[i]) /\ Reported(q[i])' /\ q[i] \notin results
           /\ \A j \in 1..m : q[j] = q[i] => j = i
    BY <2>1 DEF Counted, SentOnce
  <2>3. e.type = "Result" => e \notin results /\ \A i \in 1..m : q[i] # e
    <3>1. e.type = "Result" => e \notin results
      BY <1>3 DEF Counted, ShownOnce
    <3>2. e.type = "Result" => \A i \in 1..m : q[i] # e
      BY <1>3, <2>2
    <3>. QED  BY <3>1, <3>2
  <2>4. ASSUME NEW i \in 1..Len(z), z[i].type = "Result"
        PROVE  /\ Reported(z[i])' /\ z[i] \notin results
               /\ \A j \in 1..Len(z) : z[j] = z[i] => j = i
    <3>1. \A j \in 1..Len(z) : j = m + 1 \/ j \in 1..m
      BY <2>1
    <3>2. CASE i = m + 1
      <4>1. z[i] = e
        BY <2>1, <3>2
      <4>2. Reported(z[i])'
        BY <1>3, <2>4, <4>1
      <4>3. z[i] \notin results /\ \A j \in 1..m : z[j] # z[i]
        BY <2>1, <2>3, <2>4, <4>1
      <4>. QED  BY <3>1, <3>2, <4>2, <4>3
    <3>3. CASE i \in 1..m
      <4>1. z[i] = q[i] /\ q[i].type = "Result"
        BY <2>1, <2>4, <3>3
      <4>2. Reported(z[i])' /\ z[i] \notin results /\ \A j \in 1..m : z[j] = z[i] => j = i
        BY <2>1, <2>2, <3>3, <4>1
      <4>3. z[m + 1] # z[i]
        <5>1. z[m + 1] = z[i] => e.type = "Result" /\ q[i] = e
          BY <2>1, <4>1
        <5>. QED  BY <2>3, <3>3, <5>1
      <4>. QED  BY <3>1, <4>2, <4>3
    <3>. QED  BY <3>1, <3>2, <3>3
  <2>. QED  BY <2>4 DEF SentOnce
<1>. QED
  BY <1>1, <1>2, <1>3 DEF Counted, Sends

\* The GUI takes an event off the channel: it counts a result, which is a new one.
LEMMA CountedReceive ==
    ASSUME TypeOK, Counted, queue # <<>>, queue' = Tail(queue),
           \A e \in Event : e.type = "Result" /\ Reported(e) => Reported(e)',
           \/ UNCHANGED <<done, results>>
           \/ /\ Head(queue).type = "Result"
              /\ done' = done + 1 /\ results' = results \cup {Head(queue)}
    PROVE  Counted'
<1>0. Len(queue) \in Nat
  BY DEF TypeOK
<1>. PICK m, q, z, h : m = Len(queue) /\ q = queue /\ z = queue' /\ h = Head(queue)
  OBVIOUS
<1>1. /\ q \in Seq(Event) /\ results \subseteq Event /\ m \in Nat /\ m >= 1 /\ h = q[1] /\ h \in Event
      /\ Len(z) = m - 1 /\ \A i \in 1..m : q[i] \in Event
  BY DEF TypeOK
<1>2. ASSUME NEW i \in 1..Len(z)
      PROVE  i + 1 \in 1..m /\ z[i] = q[i + 1] /\ i + 1 # 1
  BY <1>1
<1>3. \A i \in 1..m : q[i].type = "Result" =>
         /\ Reported(q[i])' /\ q[i] \notin results
         /\ \A j \in 1..m : q[j] = q[i] => j = i
  BY <1>1 DEF Counted, SentOnce
<1>4. \A e \in results : e.type = "Result" /\ Reported(e)'
  BY <1>1 DEF Counted, ShownOnce
<1>5. ASSUME NEW i \in 1..Len(z), z[i].type = "Result"
      PROVE  /\ Reported(z[i])' /\ z[i] \notin results /\ z[i] # h
             /\ \A j \in 1..Len(z) : z[j] = z[i] => j = i
  <2>1. i + 1 \in 1..m /\ z[i] = q[i + 1] /\ 1 \in 1..m
    BY <1>1, <1>2
  <2>2. Reported(z[i])' /\ z[i] \notin results /\ \A j \in 1..m : q[j] = z[i] => j = i + 1
    BY <1>3, <1>5, <2>1
  <2>3. z[i] # h
    BY <1>1, <2>1, <2>2
  <2>4. ASSUME NEW j \in 1..Len(z), z[j] = z[i]  PROVE j = i
    <3>1. j + 1 \in 1..m /\ q[j + 1] = z[i]
      BY <1>2, <2>4
    <3>2. j + 1 = i + 1
      BY <2>2, <3>1
    <3>. QED  BY <1>1, <3>2
  <2>. QED  BY <2>2, <2>3, <2>4
<1>6. CASE UNCHANGED <<done, results>>
  BY <1>4, <1>5, <1>6 DEF Counted, ShownOnce, SentOnce
<1>7. CASE /\ h.type = "Result"
           /\ done' = done + 1 /\ results' = results \cup {h}
  <2>1. h \notin results /\ Reported(h)'
    BY <1>1, <1>3, <1>7
  <2>2. IsFiniteSet(results') /\ done' = Cardinality(results')
    BY <1>7, <2>1, FS_AddElement DEF Counted
  <2>3. ShownOnce'
    BY <1>4, <1>7, <2>1 DEF ShownOnce
  <2>4. SentOnce'
    BY <1>5, <1>7 DEF SentOnce
  <2>. QED  BY <2>2, <2>3, <2>4 DEF Counted
<1>. QED
  BY <1>6, <1>7

\* The steps of the user; a run that starts had nothing reported.
LEMMA CountedGui ==
    ASSUME OInv, Counted, Gui
    PROVE  Counted'
<1>0. IInv /\ TypeOK
  BY DEF OInv, IInv
<1>1. ASSUME NEW e \in Event, e.type = "Result", Reported(e)  PROVE Reported(e)'
  <2>. PICK r, k, d, n : r = e.run /\ k = e.kind /\ d = e.drive /\ n = e.job
    OBVIOUS
  <2>1. r \in Runs /\ IsDone(r, k, d, n)
    BY <1>1, ResultIs DEF Reported
  <2>2. pc'[r] = pc[r] /\ plan'[r] = plan[r] /\ work'[r] = work[r]
    <3>1. CASE StartVerification
      <4>1. pc[runs + 1] = "none" \/ runs + 1 \notin Runs
        BY <1>0, VerifierAssumption DEF IInv, TypeOK, RunsOK, Runs
      <4>2. r # runs + 1
        BY <2>1, <4>1 DEF IsDone
      <4>3. UNCHANGED work /\ pc'[r] = pc[r]
        BY <1>0, <2>1, <3>1, <4>2 DEF StartVerification, TypeOK
      <4>4. plan'[r] = plan[r]
        BY <1>0, <2>1, <3>1, <4>2 DEF StartVerification, TypeOK
      <4>. QED  BY <4>3, <4>4
    <3>2. CASE ConfirmAbort
      BY <3>2 DEF ConfirmAbort, threads
    <3>. QED  BY <1>0, <3>1, <3>2, GuiIs
  <2>3. IsDone(r, k, d, n)'
    BY <2>1, <2>2 DEF IsDone
  <2>. QED  BY <2>3 DEF Reported
<1>2. \A e \in results : e \in Event
  BY <1>0 DEF TypeOK
<1>3. ASSUME UNCHANGED <<queue, done, results>>  PROVE Counted'
  <2>1. Sends
    BY <1>3 DEF Sends
  <2>. QED  BY <1>0, <1>1, <1>3, <2>1, CountedKept
<1>4. ASSUME UNCHANGED queue, done' = 0, results' = {}  PROVE Counted'
  <2>1. SentOnce'
    BY <1>0, <1>1, <1>4 DEF Counted, SentOnce, TypeOK
  <2>. QED  BY <1>4, <2>1, FS_EmptySet DEF Counted, ShownOnce
<1>5. ASSUME queue' = <<>>, UNCHANGED <<done, results>>  PROVE Counted'
  BY <1>1, <1>2, <1>5 DEF Counted, ShownOnce, SentOnce
<1>6. CASE OnDrivesFound \/ OnJobsReady \/ OnStop \/ OnResult
  <2>1. queue # <<>> /\ queue' = Tail(queue)
    BY <1>6 DEF OnDrivesFound, OnJobsReady, OnStop, OnResult, Receive
  <2>2. \/ UNCHANGED <<done, results>>
        \/ /\ Head(queue).type = "Result"
           /\ done' = done + 1 /\ results' = results \cup {Head(queue)}
    BY <1>6 DEF OnDrivesFound, OnJobsReady, OnStop, OnResult, Receive
  <2>. QED  BY <1>0, <1>1, <2>1, <2>2, CountedReceive
<1>7. CASE FrameStarts \/ Drained \/ NoClick \/ AbortButton \/ Continue \/ DismissDialog
  BY <1>3, <1>7 DEF FrameStarts, Drained, NoClick, AbortButton, Continue, DismissDialog
<1>8. CASE StartScan \/ StartVerification
  BY <1>4, <1>8 DEF StartScan, StartVerification, ResetResults
<1>9. CASE ConfirmAbort
  BY <1>3, <1>5, <1>9 DEF ConfirmAbort
<1>. QED
  BY <1>6, <1>7, <1>8, <1>9 DEF Gui, Click

\* What is counted stays so in every step.
LEMMA CountedStep ==
    ASSUME OInv, Counted, [Next]_vars
    PROVE  Counted'
<1>0. IInv /\ IInv' /\ TypeOK
  BY NextInv DEF OInv, IInv
<1>1. CASE Gui
  BY <1>1, CountedGui
<1>2. CASE ~Gui
  <2>1. Sends /\ \A q \in Runs : PlanGoes(q)
    BY <1>2, ThreadsSend
  <2>2. UNCHANGED gui /\ \A q \in Runs : PcGoes(q) /\ \A s \in Phases : Goes(q, s)
    BY <1>0, <1>2, StepIs
  <2>3. ASSUME NEW e \in Event, e.type = "Result", Reported(e)  PROVE Reported(e)'
    BY <1>0, <2>1, <2>2, <2>3, ResultIs, ReportedStays
  <2>4. UNCHANGED <<done, results>>
    BY <2>2 DEF gui
  <2>. QED  BY <1>0, <2>1, <2>3, <2>4, CountedKept
<1>. QED
  BY <1>1, <1>2

\* The count holds in every reachable state.
LEMMA CountIs == Spec => [](OInv /\ Counted)
<1>1. ASSUME Init  PROVE Counted
  BY <1>1, FS_EmptySet DEF Init, Counted, ShownOnce, SentOnce
<1>2. OInv /\ Counted /\ [Next]_vars => Counted'
  BY CountedStep
<1>. QED
  BY <1>1, <1>2, Ordered, PTL DEF Spec

\* process_events counts every outcome exactly once: the number of results it has counted is
\* the number of different jobs and manifests the list shows, whatever was aborted or restarted.
THEOREM ResultsAreCounted == Spec => []CountedOnce
<1>1. Counted => CountedOnce
  BY DEF Counted, CountedOnce
<1>. QED
  BY <1>1, CountIs, PTL

----------------------------------------------------------------------------
(***************************************************************************)
(* The end of a run, where every manifest can be loaded.  The plan counts  *)
(* the jobs of the run, so the results are as many as announced only when  *)
(* each job has been reported.                                             *)
(***************************************************************************)

AllLoad == \A d \in Drives : Manifests[d] \in Seq(Nat)

\* The result events a run with plan p can send for its jobs.
JobsOf(r, p) ==
    {e \in Event : /\ e.type = "Result" /\ e.run = r /\ e.kind \in Phases
                   /\ 1 <= e.job /\ e.job <= p[e.kind][e.drive]}

\* The plan counts the jobs; a drive still to be visited has no embedded check planned.
PlanCounted(r, p) ==
    /\ IsFiniteSet(JobsOf(r, p)) /\ Cardinality(JobsOf(r, p)) = p.count
    /\ \A d \in Drives : <<d, 0>> \in p.todo => p.embedded[d] = 0
PlansCount == \A r \in Runs : PlanCounted(r, plan[r])

\* The jobs of one more manifest or embedded check are as many as it has entries.
LEMMA NewJobs ==
    ASSUME NEW r \in Runs, NEW p \in Plan, NEW q \in Plan, IsFiniteSet(JobsOf(r, p)),
           NEW ph \in Phases, NEW d \in Drives, NEW m \in Nat,
           q[ph][d] = p[ph][d] + m,
           \A s \in Phases, e \in Drives : s # ph \/ e # d => q[s][e] = p[s][e]
    PROVE  /\ IsFiniteSet(JobsOf(r, q))
           /\ Cardinality(JobsOf(r, q)) = Cardinality(JobsOf(r, p)) + m
<1>. PICK n : n = p[ph][d]
  OBVIOUS
<1>1. n \in Nat /\ ph \in Kinds
  BY PlanCounts DEF Kinds
<1>. DEFINE f == [j \in 1..m |-> Result(r, ph, d, n + j)]
            N == {Result(r, ph, d, n + j) : j \in 1..m}
<1>2. /\ \A j \in 1..m : f[j] = Result(r, ph, d, n + j)
      /\ f \in [1..m -> N]
  OBVIOUS
<1>3. \A i, j \in 1..m : f[i] = f[j] => i = j
  <2>1. ASSUME NEW i \in 1..m, NEW j \in 1..m, f[i] = f[j]  PROVE i = j
    <3>1. Result(r, ph, d, n + i).job = n + i /\ Result(r, ph, d, n + j).job = n + j
      BY DEF Result
    <3>2. n + i = n + j
      BY <1>2, <2>1, <3>1
    <3>. QED  BY <1>1, <3>2
  <2>. QED  BY <2>1
<1>4. f \in Bijection(1..m, N)
  <2>. HIDE DEF f
  <2>1. f \in Injection(1..m, N)
    BY <1>2, <1>3 DEF Injection, IsInjective
  <2>2. \A e \in N : \E j \in 1..m : f[j] = e
    BY <1>2
  <2>. QED  BY <2>1, <2>2, <1>2 DEF Bijection, Surjection
<1>5. IsFiniteSet(N) /\ Cardinality(N) = m
  <2>1. IsFiniteSet(1..m) /\ Cardinality(1..m) = m
    BY FS_Interval, 1 \in Int, m \in Int
  <2>. HIDE DEF f, N
  <2>. QED  BY <1>4, <2>1, FS_Bijection DEF ExistsBijection
<1>6. \A e \in N : /\ e \in Event /\ e.type = "Result" /\ e.run = r /\ e.kind = ph /\ e.drive = d
                   /\ e.job \in Nat /\ n < e.job /\ e.job <= n + m
  <2>1. ASSUME NEW j \in 1..m
        PROVE  LET e == Result(r, ph, d, n + j)
               IN  /\ e \in Event /\ e.type = "Result" /\ e.run = r /\ e.kind = ph /\ e.drive = d
                   /\ e.job \in Nat /\ n < e.job /\ e.job <= n + m
    <3>1. n + j \in Nat /\ n < n + j /\ n + j <= n + m
      BY <1>1
    <3>2. Result(r, ph, d, n + j) \in Event
      BY <1>1, <3>1, EventsAre
    <3>. QED  BY <3>1, <3>2 DEF Result
  <2>. QED  BY <2>1
<1>7. \A e \in Event : e.type = "Result" /\ e.run = r /\ e.kind = ph /\ e.drive = d
                       /\ n < e.job /\ e.job <= n + m => e \in N
  <2>1. ASSUME NEW e \in Event, e.type = "Result", e.run = r, e.kind = ph, e.drive = d,
               n < e.job, e.job <= n + m
        PROVE  e \in N
    <3>. PICK j : j = e.job - n
      OBVIOUS
    <3>1. e.job \in Nat
      BY <2>1, ResultIs
    <3>2. j \in 1..m /\ e.job = n + j
      BY <1>1, <2>1, <3>1
    <3>3. e = Result(r, ph, d, n + j)
      BY <2>1, <3>2 DEF Event, Result
    <3>. QED  BY <3>2, <3>3
  <2>. QED  BY <2>1
<1>. HIDE DEF N
<1>8. JobsOf(r, q) = JobsOf(r, p) \cup N
  <2>1. ASSUME NEW e \in Event, e.type = "Result", e.run = r, e.kind \in Phases
        PROVE  e \in JobsOf(r, q) <=> e \in JobsOf(r, p) \/ e \in N
    <3>. PICK k, c, j : k = e.kind /\ c = e.drive /\ j = e.job
      OBVIOUS
    <3>1. k \in Phases /\ c \in Drives /\ j \in Nat
      BY <2>1, ResultIs
    <3>2. /\ e \in JobsOf(r, q) <=> 1 <= j /\ j <= q[k][c]
          /\ e \in JobsOf(r, p) <=> 1 <= j /\ j <= p[k][c]
      BY <2>1 DEF JobsOf
    <3>3. CASE k = ph /\ c = d
      <4>1. e \in N <=> n < j /\ j <= n + m
        BY <1>6, <1>7, <2>1, <3>3
      <4>2. q[k][c] = n + m /\ p[k][c] = n
        BY <3>3
      <4>. QED  BY <1>1, <3>1, <3>2, <4>1, <4>2
    <3>4. CASE k # ph \/ c # d
      <4>1. e \notin N /\ q[k][c] = p[k][c]
        BY <1>6, <3>1, <3>4
      <4>. QED  BY <3>2, <4>1
    <3>. QED  BY <3>3, <3>4
  <2>2. \A e \in JobsOf(r, q) \cup JobsOf(r, p) \cup N :
           e \in Event /\ e.type = "Result" /\ e.run = r /\ e.kind \in Phases
    BY <1>6 DEF JobsOf
  <2>. QED  BY <2>1, <2>2
<1>9. JobsOf(r, p) \cap N = {}
  <2>1. ASSUME NEW e \in N, e \in JobsOf(r, p)  PROVE FALSE
    <3>1. e.kind = ph /\ e.drive = d /\ e.job \in Nat /\ n < e.job
      BY <1>6
    <3>2. e.job <= n
      BY <2>1, <3>1 DEF JobsOf
    <3>. QED  BY <1>1, <3>1, <3>2
  <2>. QED  BY <2>1
<1>10. Cardinality(JobsOf(r, p)) \in Nat /\ Cardinality({}) = 0
  BY FS_CardinalityType, FS_EmptySet
<1>11. /\ IsFiniteSet(JobsOf(r, p) \cup N)
       /\ Cardinality(JobsOf(r, p) \cup N) =
             Cardinality(JobsOf(r, p)) + Cardinality(N) - Cardinality(JobsOf(r, p) \cap N)
  BY <1>5, FS_Union
<1>12. /\ IsFiniteSet(JobsOf(r, q))
       /\ Cardinality(JobsOf(r, q)) = Cardinality(JobsOf(r, p)) + m - 0
  BY <1>5, <1>8, <1>9, <1>10, <1>11
<1>. QED
  BY <1>10, <1>12

\* A planning step keeps the count of the jobs.
LEMMA GrowsCounted ==
    ASSUME NEW r \in Runs, NEW p \in Plan, NEW q \in Plan, PlanCounted(r, p),
           NEW d \in Drives, NEW k \in Nat, <<d, k>> \in p.todo, PlanGrows(p, q, d, k)
    PROVE  PlanCounted(r, q)
<1>0. "sha" \in Phases /\ "embedded" \in Phases /\ \A s \in Phases : s = "sha" \/ s = "embedded"
  BY DEF Phases
<1>1. /\ p.sha \in [Drives -> Nat] /\ q.sha \in [Drives -> Nat]
      /\ p.embedded \in [Drives -> 0..1] /\ q.embedded \in [Drives -> 0..1]
      /\ p.count \in Nat /\ q.count \in Nat
  BY DEF Plan
<1>2. q.todo = p.todo \ {<<d, k>>}
  BY DEF PlanGrows
<1>3. IsFiniteSet(JobsOf(r, p)) /\ Cardinality(JobsOf(r, p)) = p.count
      /\ \A e \in Drives : <<e, 0>> \in p.todo => p.embedded[e] = 0
  BY DEF PlanCounted
<1>4. CASE /\ k = 0 /\ d \in Embedded
           /\ q.sha = p.sha /\ q.embedded = [p.embedded EXCEPT ![d] = 1]
           /\ q.count = p.count + 1
  <2>1. p.embedded[d] = 0 /\ q.embedded[d] = p.embedded[d] + 1
        /\ \A e \in Drives : e # d => q.embedded[e] = p.embedded[e]
    BY <1>1, <1>3, <1>4
  <2>2. /\ q["embedded"][d] = p["embedded"][d] + 1
        /\ \A s \in Phases, e \in Drives : s # "embedded" \/ e # d => q[s][e] = p[s][e]
    BY <1>0, <1>4, <2>1
  <2>3. IsFiniteSet(JobsOf(r, q)) /\ Cardinality(JobsOf(r, q)) = Cardinality(JobsOf(r, p)) + 1
    BY <1>0, <1>3, <2>2, NewJobs, 1 \in Nat
  <2>4. \A e \in Drives : <<e, 0>> \in q.todo => q.embedded[e] = 0
    BY <1>2, <1>3, <1>4, <2>1
  <2>. QED  BY <1>3, <1>4, <2>3, <2>4 DEF PlanCounted
<1>5. CASE q.sha = p.sha /\ q.embedded = p.embedded /\ q.count = p.count
  <2>1. /\ q["sha"][d] = p["sha"][d] + 0
        /\ \A s \in Phases, e \in Drives : s # "sha" \/ e # d => q[s][e] = p[s][e]
    BY <1>0, <1>1, <1>5
  <2>2. IsFiniteSet(JobsOf(r, q)) /\ Cardinality(JobsOf(r, q)) = Cardinality(JobsOf(r, p)) + 0
    BY <1>0, <1>3, <2>1, NewJobs, 0 \in Nat
  <2>3. \A e \in Drives : <<e, 0>> \in q.todo => q.embedded[e] = 0
    BY <1>2, <1>3, <1>5
  <2>. QED  BY <1>1, <1>3, <1>5, <2>2, <2>3 DEF PlanCounted
<1>6. CASE /\ k > 0 /\ ~IsUnreadable(d, k)
           /\ q.sha = [p.sha EXCEPT ![d] = @ + Manifests[d][k]] /\ q.embedded = p.embedded
           /\ q.count = p.count + Manifests[d][k]
  <2>. PICK m : m = Manifests[d][k]
    OBVIOUS
  <2>1. m \in Nat
    <3>1. k \in 1..Len(Manifests[d]) /\ Manifests[d] \in Seq(Nat \cup {Unreadable})
      BY <1>6, VerifierAssumption DEF Plan, PlanSteps
    <3>2. m \in Nat \cup {Unreadable}
      BY <3>1
    <3>. QED  BY <1>6, <3>2 DEF IsUnreadable
  <2>2. q.sha[d] = p.sha[d] + m /\ \A e \in Drives : e # d => q.sha[e] = p.sha[e]
    BY <1>1, <1>6
  <2>3. /\ q["sha"][d] = p["sha"][d] + m
        /\ \A s \in Phases, e \in Drives : s # "sha" \/ e # d => q[s][e] = p[s][e]
    BY <1>0, <1>6, <2>2
  <2>4. IsFiniteSet(JobsOf(r, q)) /\ Cardinality(JobsOf(r, q)) = Cardinality(JobsOf(r, p)) + m
    BY <1>0, <1>3, <2>1, <2>3, NewJobs
  <2>5. \A e \in Drives : <<e, 0>> \in q.todo => q.embedded[e] = 0
    BY <1>2, <1>3, <1>6
  <2>. QED  BY <1>3, <1>6, <2>4, <2>5 DEF PlanCounted
<1>. QED
  BY <1>4, <1>5, <1>6 DEF PlanGrows

\* A plan that was not started has no job.
LEMMA NoPlanCounted ==
    ASSUME NEW r \in Runs, NEW p, p.sha = NoJobs, p.embedded = NoJobs, p.count = 0
    PROVE  PlanCounted(r, p)
<1>1. \A s \in Phases, d \in Drives : p[s][d] = 0
  BY DEF NoJobs, Phases
<1>2. JobsOf(r, p) = {}
  <2>1. ASSUME NEW e \in Event, e.type = "Result", e.kind \in Phases  PROVE p[e.kind][e.drive] = 0 /\ e.job \in Nat
    BY <1>1, <2>1, ResultIs
  <2>. QED  BY <2>1 DEF JobsOf
<1>. QED
  BY <1>1, <1>2, FS_EmptySet DEF PlanCounted, NoJobs

\* Only planning, and the start of a run, change a plan.
LEMMA PlanChanges ==
    ASSUME IInv, [Next]_vars
    PROVE  \/ UNCHANGED plan
           \/ \E r \in Runs : PlanAdvances(r)
           \/ StartVerification
<1>1. ASSUME Gui  PROVE UNCHANGED plan \/ StartVerification
  <2>1. ConfirmAbort => UNCHANGED plan
    BY DEF ConfirmAbort, threads
  <2>. QED  BY <1>1, <2>1, GuiIs
<1>2. ASSUME NEW s \in Scans, ScanEnds(s)  PROVE UNCHANGED plan
  BY <1>2 DEF ScanEnds
<1>3. ASSUME NEW r \in Runs, Coordinator(r)  PROVE UNCHANGED plan \/ PlanAdvances(r)
  BY <1>3 DEF Coordinator, PlanStops, PlanFails, PlanReady, ShaReturned, EmbeddedReturned,
        Feeds, Joins, PhaseFailed, InPhase
<1>4. ASSUME NEW r \in Runs, NEW ph \in Phases, NEW d \in Drives, PoolThread(r, ph, d)
      PROVE  UNCHANGED plan
  BY <1>4 DEF PoolThread, EntersBatch, BeginsJob, JobCompletes, JobAborts
<1>5. ASSUME NEW r \in Runs, NEW ph \in Phases, Takes(r, ph)  PROVE UNCHANGED plan
  BY <1>5 DEF Takes
<1>6. ASSUME UNCHANGED vars  PROVE UNCHANGED plan
  BY <1>6 DEF vars, threads
<1>. QED
  BY <1>1, <1>2, <1>3, <1>4, <1>5, <1>6 DEF Next, Worker, Gone

\* Every step keeps the count of the jobs of every plan.
LEMMA PlansStep ==
    ASSUME IInv, [Next]_vars, PlansCount
    PROVE  PlansCount'
<1>0. plan \in [Runs -> Plan] /\ runs \in Nat
  BY VerifierAssumption DEF IInv, TypeOK
<1>1. CASE UNCHANGED plan
  BY <1>1 DEF PlansCount, PlanCounted, JobsOf
<1>2. ASSUME NEW r \in Runs, PlanAdvances(r)  PROVE PlansCount'
  <2>1. PICK s \in plan[r].todo : plan' = [plan EXCEPT ![r] = Planned(@, s[1], s[2])]
    BY <1>2 DEF PlanAdvances
  <2>. PICK p, q, d, k : p = plan[r] /\ q = Planned(p, d, k) /\ d = s[1] /\ k = s[2]
    OBVIOUS
  <2>2. p \in Plan /\ PlanCounted(r, p)
    BY <1>0 DEF PlansCount
  <2>3. d \in Drives /\ k \in Nat /\ q \in Plan
    BY <2>2, PlannedGrows
  <2>4. s = <<d, k>>
    BY <2>2 DEF Plan, PlanSteps
  <2>5. PlanCounted(r, q)
    <3>1. PlanGrows(p, q, d, k)
      BY <2>2, <2>3, PlannedIs
    <3>2. <<d, k>> \in p.todo
      BY <2>4
    <3>. QED  BY <2>2, <2>3, <3>1, <3>2, GrowsCounted
  <2>6. plan'[r] = q /\ \A t \in Runs \ {r} : plan'[t] = plan[t]
    BY <1>0, <2>1
  <2>7. ASSUME NEW t \in Runs, NEW z, z = plan'[t]  PROVE PlanCounted(t, z)
    BY <2>5, <2>6, <2>7 DEF PlansCount
  <2>. QED  BY <2>7 DEF PlansCount, PlanCounted, JobsOf
<1>3. CASE StartVerification
  <2>. PICK r : r = runs + 1
    OBVIOUS
  <2>1. PICK S : plan' = [plan EXCEPT ![r] = [NoPlan EXCEPT !.todo = PlanSteps(S)]]
    BY <1>3 DEF StartVerification
  <2>. PICK q : q = [NoPlan EXCEPT !.todo = PlanSteps(S)]
    OBVIOUS
  <2>2. q.sha = NoJobs /\ q.embedded = NoJobs /\ q.count = 0
    BY DEF NoPlan
  <2>3. r \in Runs
    BY <1>0, <1>3, VerifierAssumption DEF StartVerification, Runs, IInv, TypeOK
  <2>4. plan'[r] = q /\ \A t \in Runs \ {r} : plan'[t] = plan[t]
    BY <1>0, <2>1, <2>3
  <2>5. ASSUME NEW t \in Runs, NEW z, z = plan'[t]  PROVE PlanCounted(t, z)
    BY <2>2, <2>3, <2>4, <2>5, NoPlanCounted DEF PlansCount
  <2>. QED  BY <2>5 DEF PlansCount, PlanCounted, JobsOf
<1>. QED
  BY <1>1, <1>2, <1>3, PlanChanges

----------------------------------------------------------------------------
(* What the threads send, where every manifest can be loaded. *)

\* The work of a run is over, as FinishedIsLast has it.
Over(r) == pc[r] # "plan" /\ AllReported(r) /\ (pc[r] = "sha" => plan[r].embedded = NoJobs)

\* A result comes from a job of a run that is not over, on the channel in use.
NewResult(e) ==
    /\ e.type = "Result" /\ e.kind \in Phases /\ e.job >= 1
    /\ e.run \in 1..runs /\ chan[e.run] = rx /\ ~Over(e.run)

\* The number of jobs comes from a run that ends its planning, on the channel in use.
NewReady(e) ==
    \E r \in 1..runs : /\ e = JobsReady(plan[r].count)
                       /\ chan[r] = rx /\ pc[r] = "plan" /\ pc'[r] # "plan"

RunSent == \/ UNCHANGED queue
           \/ \E e \in Event : queue' = Append(queue, e) /\ (NewResult(e) \/ NewReady(e))

\* A completed job sends its result.
LEMMA JobSends ==
    ASSUME IInv, NEW r \in Runs, NEW ph \in Phases, NEW d \in Drives, JobCompletes(r, ph, d)
    PROVE  RunSent
<1>. PICK p, n : p = work[r][ph] /\ n = plan[r][ph][d] - work[r][ph].left[d] + 1
  OBVIOUS
<1>. PICK e : e = Result(r, ph, d, n)
  OBVIOUS
<1>1. p \in Phase /\ p.st[d] = "running" /\ PhaseInv(p)
  BY AtPhase DEF JobCompletes
<1>2. p.left[d] > 0 /\ p.left[d] \in Nat /\ plan[r][ph][d] \in Nat /\ p.left[d] <= plan[r][ph][d]
  <2>1. p.left[d] > 0 /\ p.left[d] \in Nat
    BY <1>1 DEF PhaseInv, Phase
  <2>2. plan[r][ph][d] \in Nat
    BY PlanCounts DEF IInv, TypeOK
  <2>3. p.left[d] <= plan[r][ph][d]
    BY DEF IInv, PhasesOK, PhaseOK
  <2>. QED  BY <2>1, <2>2, <2>3
<1>3. n \in Nat /\ n >= 1
  BY <1>2
<1>4. e \in Event /\ e.type = "Result" /\ e.run = r /\ e.kind = ph /\ e.job = n
  BY <1>3, EventsAre DEF Kinds, Result
<1>5. ~Over(r)
  <2>1. work[r][ph].left[d] # 0
    BY <1>2
  <2>. QED  BY <2>1 DEF Over, AllReported
<1>6. r \in 1..runs
  BY <1>1, Started
<1>7. queue' = Append(queue, e) \/ UNCHANGED queue
  BY DEF JobCompletes, Send
<1>8. chan[r] = rx => NewResult(e)
  BY <1>3, <1>4, <1>5, <1>6 DEF NewResult
<1>9. chan[r] # rx => UNCHANGED queue
  BY DEF JobCompletes, Send
<1>. QED
  BY <1>4, <1>7, <1>8, <1>9 DEF RunSent

\* The threads of the runs send results of jobs and the number of jobs, and nothing else.
LEMMA RunThreads ==
    ASSUME AllLoad, IInv, [Next]_vars, ~Gui, \A s \in Scans : ~ScanEnds(s)
    PROVE  RunSent /\ UNCHANGED scanChan
<1>1. ASSUME UNCHANGED <<queue, scanChan>>  PROVE RunSent /\ UNCHANGED scanChan
  BY <1>1 DEF RunSent
<1>2. ASSUME NEW r \in Runs, NEW e, Send(chan[r], e), abort, OfRun(r)
      PROVE  UNCHANGED <<queue, scanChan>>
  BY <1>2 DEF IInv, FlagCutsOff, Send, OfRun
<1>3. ASSUME NEW r \in Runs, Coordinator(r)  PROVE RunSent /\ UNCHANGED scanChan
  <2>1. CASE PlanStops(r)
    BY <1>1, <1>2, <2>1 DEF PlanStops
  <2>2. CASE PlanAdvances(r)
    <3>1. PICK s \in plan[r].todo :
             IF IsUnreadable(s[1], s[2]) THEN Send(chan[r], Result(r, "manifest", s[1], s[2]))
                                         ELSE UNCHANGED queue
      BY <2>2 DEF PlanAdvances
    <3>2. s \in PlanSteps(Drives)
      BY DEF IInv, TypeOK, Plan
    <3>3. ~IsUnreadable(s[1], s[2])
      <4>1. PICK d, k : d \in Drives /\ s[1] = d /\ s[2] = k /\ k \in 0..Len(Manifests[d])
        BY <3>2 DEF PlanSteps
      <4>2. Manifests[d] \in Seq(Nat)
        BY <4>1 DEF AllLoad
      <4>3. k > 0 => Manifests[d][k] \in Nat
        <5>1. k > 0 => k \in 1..Len(Manifests[d])
          BY <4>1, <4>2
        <5>. QED  BY <4>2, <5>1
      <4>. QED  BY <4>1, <4>3, VerifierAssumption DEF IsUnreadable
    <3>. QED  BY <1>1, <2>2, <3>1, <3>3 DEF PlanAdvances, OfRun
  <2>3. CASE PlanFails(r) \/ EmbeddedReturned(r)
    BY <1>1, <2>3 DEF PlanFails, EmbeddedReturned, InPhase, OfRun
  <2>4. CASE PlanReady(r)
    <3>. PICK e : e = JobsReady(plan[r].count)
      OBVIOUS
    <3>1. pc[r] = "plan" /\ chan[r] = rx /\ queue' = Append(queue, e) /\ UNCHANGED scanChan
      BY <2>4 DEF PlanReady, Send, OfRun
    <3>2. r \in 1..runs /\ e \in Event
      <4>1. plan[r].count \in Nat
        BY DEF IInv, TypeOK, Plan
      <4>. QED  BY <3>1, <4>1, Started, EventsAre
    <3>3. pc'[r] # "plan"
      BY <2>4 DEF PlanReady, EndRun, StartPhase, IInv, TypeOK
    <3>4. NewReady(e)
      BY <3>1, <3>2, <3>3 DEF NewReady
    <3>. QED  BY <3>1, <3>2, <3>4 DEF RunSent
  <2>5. CASE ShaReturned(r)
    BY <1>1, <1>2, <2>5 DEF ShaReturned, InPhase, OfRun
  <2>6. ASSUME NEW ph \in Phases, Feeds(r, ph) \/ Joins(r, ph)  PROVE RunSent /\ UNCHANGED scanChan
    BY <1>1, <1>2, <2>6 DEF Feeds, Joins, InPhase, OfRun
  <2>7. ASSUME NEW ph \in Phases, PhaseFailed(r, ph)  PROVE RunSent /\ UNCHANGED scanChan
    <3>1. chan[r] # rx
      BY <2>7, AtPhase DEF PhaseFailed, Clean
    <3>. QED  BY <1>1, <2>7, <3>1 DEF PhaseFailed, InPhase, OfRun, Send
  <2>. QED  BY <1>3, <2>1, <2>2, <2>3, <2>4, <2>5, <2>6, <2>7 DEF Coordinator
<1>4. ASSUME NEW r \in Runs, NEW ph \in Phases, NEW d \in Drives, PoolThread(r, ph, d)
      PROVE  RunSent /\ UNCHANGED scanChan
  <2>1. CASE JobCompletes(r, ph, d)
    BY <2>1, JobSends DEF JobCompletes, OfRun
  <2>2. CASE EntersBatch(r, ph, d) \/ BeginsJob(r, ph, d) \/ JobAborts(r, ph, d)
    BY <1>1, <1>2, <2>2 DEF EntersBatch, BeginsJob, JobAborts, OfRun
  <2>. QED  BY <1>4, <2>1, <2>2 DEF PoolThread
<1>5. ASSUME NEW r \in Runs, NEW ph \in Phases, Takes(r, ph)  PROVE RunSent /\ UNCHANGED scanChan
  BY <1>1, <1>5 DEF Takes, OfRun
<1>6. ASSUME UNCHANGED vars  PROVE RunSent /\ UNCHANGED scanChan
  BY <1>1, <1>6 DEF vars, threads
<1>. QED
  BY <1>3, <1>4, <1>5, <1>6 DEF Next, Worker, Gone

----------------------------------------------------------------------------
(* The scans.  The application scans or verifies, never both, and one scan  *)
(* at a time: its only event ends it.                                       *)

ScanEvents(q) == {i \in 1..Len(q) : q[i].type \in {"DrivesFound", "Fatal"}}

ScansOK ==
    /\ discovering => ~verifying
    /\ \A s \in Scans : scanChan[s] # 0 => /\ discovering /\ ScanEvents(queue) = {}
                                           /\ \A t \in Scans : scanChan[t] # 0 => s = t
    /\ ScanEvents(queue) # {} => discovering
    /\ \A i, j \in ScanEvents(queue) : i = j

\* The events of the scans in the channel when one more event is sent.
LEMMA ScanAppends ==
    ASSUME NEW q \in Seq(Event), NEW e \in Event, NEW z, z = Append(q, e)
    PROVE  /\ ScanEvents(z) \subseteq ScanEvents(q) \cup {Len(q) + 1}
           /\ e.type \notin {"DrivesFound", "Fatal"} => ScanEvents(z) = ScanEvents(q)
<1>. PICK m \in Nat : m = Len(q)
  OBVIOUS
<1>1. Len(z) = m + 1 /\ z[m + 1] = e /\ \A i \in 1..m : z[i] = q[i]
  OBVIOUS
<1>2. 1..m + 1 = (1..m) \cup {m + 1} /\ m + 1 \notin 1..m
  OBVIOUS
<1>. QED  BY <1>1, <1>2 DEF ScanEvents

\* The events of the scans in the channel when an event is received.
LEMMA ScanReceives ==
    ASSUME NEW q \in Seq(Event), q # <<>>, NEW z, z = Tail(q)
    PROVE  /\ Head(q).type \in {"DrivesFound", "Fatal"} <=> 1 \in ScanEvents(q)
           /\ \A i \in ScanEvents(z) : i + 1 \in ScanEvents(q) /\ i \in Nat \ {0}
<1>. PICK m \in Nat : m = Len(q)
  OBVIOUS
<1>1. m >= 1 /\ Head(q) = q[1] /\ Len(z) = m - 1
  OBVIOUS
<1>2. \A i \in 1..Len(z) : i + 1 \in 1..m /\ z[i] = q[i + 1] /\ i \in Nat \ {0}
  BY <1>1
<1>. QED  BY <1>1, <1>2 DEF ScanEvents

\* Every step keeps to one scan at a time.
LEMMA ScansStep ==
    ASSUME AllLoad, IInv, ScansOK, [Next]_vars
    PROVE  ScansOK'
<1>. PICK q, z : q = queue /\ z = queue'
  OBVIOUS
<1>0. q \in Seq(Event) /\ scanChan \in [Scans -> Nat] /\ discovering \in BOOLEAN /\ verifying \in BOOLEAN
  BY DEF IInv, TypeOK
<1>1. /\ discovering => ~verifying
      /\ \A s \in Scans : scanChan[s] # 0 => /\ discovering /\ ScanEvents(q) = {}
                                             /\ \A t \in Scans : scanChan[t] # 0 => s = t
      /\ ScanEvents(q) # {} => discovering
      /\ \A i, j \in ScanEvents(q) : i = j
  BY DEF ScansOK
<1>2. ASSUME discovering' => ~verifying',
             \A s \in Scans : scanChan'[s] # 0 => /\ discovering' /\ ScanEvents(z) = {}
                                                  /\ \A t \in Scans : scanChan'[t] # 0 => s = t,
             ScanEvents(z) # {} => discovering',
             \A i, j \in ScanEvents(z) : i = j
      PROVE  ScansOK'
  BY <1>2 DEF ScansOK, ScanEvents
<1>3. ASSUME UNCHANGED <<discovering, scanChan>>, verifying' => verifying, ScanEvents(z) = ScanEvents(q)
      PROVE  ScansOK'
  BY <1>1, <1>2, <1>3
<1>4. ASSUME NEW s \in Scans, ScanEnds(s)  PROVE ScansOK'
  <2>1. PICK e \in Event : Send(scanChan[s], e) /\ e.type \in {"DrivesFound", "Fatal"}
    <3>1. ASSUME NEW D \in SUBSET Drives, Send(scanChan[s], DrivesFound(D))
          PROVE  \E e \in Event : Send(scanChan[s], e) /\ e.type \in {"DrivesFound", "Fatal"}
      BY <3>1, EventsAre DEF DrivesFound
    <3>2. ASSUME Send(scanChan[s], Fatal("scan"))
          PROVE  \E e \in Event : Send(scanChan[s], e) /\ e.type \in {"DrivesFound", "Fatal"}
      BY <3>2, EventsAre DEF Fatal
    <3>. QED  BY <1>4, <3>1, <3>2 DEF ScanEnds
  <2>2. z = q \/ z = Append(q, e)
    BY <2>1 DEF Send
  <2>3. discovering /\ ScanEvents(q) = {} /\ \A t \in Scans : scanChan[t] # 0 => s = t
    BY <1>1, <1>4 DEF ScanEnds
  <2>4. ScanEvents(z) \subseteq {Len(q) + 1}
    BY <1>0, <2>2, <2>3, ScanAppends
  <2>5. \A t \in Scans : scanChan'[t] = 0
    BY <1>0, <1>4, <2>3 DEF ScanEnds
  <2>6. UNCHANGED <<discovering, verifying>>
    BY <1>4 DEF ScanEnds, WorkersOnly, gui
  <2>. QED  BY <1>1, <1>2, <2>3, <2>4, <2>5, <2>6
<1>5. ASSUME ~Gui, \A s \in Scans : ~ScanEnds(s)  PROVE ScansOK'
  <2>1. RunSent /\ UNCHANGED scanChan
    BY <1>5, RunThreads
  <2>2. UNCHANGED <<discovering, verifying>>
    BY <1>5, StepIs DEF gui
  <2>3. ASSUME NEW e \in Event, z = Append(q, e), NewResult(e) \/ NewReady(e)
        PROVE  ScanEvents(z) = ScanEvents(q)
    <3>1. e.type \notin {"DrivesFound", "Fatal"}
      BY <2>3 DEF NewResult, NewReady, JobsReady
    <3>. QED  BY <1>0, <2>3, <3>1, ScanAppends
  <2>. QED  BY <1>3, <2>1, <2>2, <2>3 DEF RunSent
<1>6. ASSUME q # <<>>, z = Tail(q), UNCHANGED scanChan, verifying' => verifying,
             discovering' = (discovering /\ 1 \notin ScanEvents(q))
      PROVE  ScansOK'
  <2>1. \A i \in ScanEvents(z) : i + 1 \in ScanEvents(q) /\ i \in Nat \ {0}
    BY <1>0, <1>6, ScanReceives
  <2>2. \A i, j \in ScanEvents(z) : i = j
    <3>1. \A i, j \in ScanEvents(z) : i + 1 = j + 1 /\ i \in Nat /\ j \in Nat
      BY <1>1, <2>1
    <3>. QED  BY <3>1
  <2>3. CASE 1 \in ScanEvents(q)
    <3>1. ScanEvents(z) = {}
      <4>1. ASSUME NEW i \in ScanEvents(z)  PROVE FALSE
        <5>1. i + 1 = 1 /\ i \in Nat \ {0}
          BY <1>1, <2>1, <2>3
        <5>. QED  BY <5>1
      <4>. QED  BY <4>1
    <3>2. ~discovering' /\ \A s \in Scans : scanChan'[s] = 0
      BY <1>1, <1>6, <2>3
    <3>. QED  BY <1>2, <3>1, <3>2
  <2>4. CASE 1 \notin ScanEvents(q)
    <3>1. discovering' = discovering
      BY <1>0, <1>6, <2>4, Zenon
    <3>2. ScanEvents(q) = {} => ScanEvents(z) = {}
      BY <2>1
    <3>. QED  BY <1>1, <1>2, <1>6, <2>1, <2>2, <3>1, <3>2
  <2>. QED  BY <2>3, <2>4
<1>7. CASE OnDrivesFound \/ OnJobsReady \/ OnResult \/ OnStop
  <2>1. q # <<>> /\ z = Tail(q) /\ UNCHANGED scanChan
    BY <1>7 DEF OnDrivesFound, OnJobsReady, OnResult, OnStop, Receive, threads
  <2>2. verifying' => verifying
    BY <1>7 DEF OnDrivesFound, OnJobsReady, OnResult, OnStop
  <2>3. 1 \in ScanEvents(q) <=> Head(q).type \in {"DrivesFound", "Fatal"}
    BY <1>0, <2>1, ScanReceives
  <2>4. Head(q).type # "Aborted"
    <3>1. Head(q) = q[1] /\ 1 \in 1..Len(q)
      BY <1>0, <2>1
    <3>. QED  BY <3>1 DEF IInv, AbortIsSilent
  <2>5. discovering' = (discovering /\ 1 \notin ScanEvents(q))
    <3>1. CASE OnDrivesFound
      <4>1. ~discovering' /\ discovering' \in BOOLEAN /\ 1 \in ScanEvents(q)
        BY <2>3, <3>1 DEF OnDrivesFound, Receive
      <4>. QED  BY <4>1, Zenon
    <3>2. CASE OnJobsReady \/ OnResult
      <4>1. discovering' = discovering /\ 1 \notin ScanEvents(q)
        BY <2>3, <3>2 DEF OnJobsReady, OnResult, Receive
      <4>. QED  BY <1>0, <4>1, Zenon
    <3>3. CASE OnStop
      <4>1. 1 \in ScanEvents(q) /\ discovering' = (discovering /\ FALSE)
        BY <2>3, <2>4, <3>3 DEF OnStop, Receive
      <4>. QED  BY <4>1, Zenon
    <3>. QED  BY <1>7, <3>1, <3>2, <3>3
  <2>. QED  BY <1>6, <2>1, <2>2, <2>5
<1>8. CASE StartScan
  <2>1. /\ ~discovering /\ ~verifying /\ discovering' /\ UNCHANGED verifying /\ z = q
        /\ scanChan' = [scanChan EXCEPT ![scans + 1] = rx]
    BY <1>8 DEF StartScan, Idle
  <2>2. ScanEvents(q) = {} /\ \A s \in Scans : scanChan[s] = 0
    BY <1>1, <2>1
  <2>3. \A s \in Scans : scanChan'[s] # 0 => s = scans + 1
    BY <1>0, <2>1, <2>2
  <2>. QED  BY <1>2, <2>1, <2>2, <2>3
<1>9. CASE StartVerification
  <2>1. ~discovering /\ ~discovering' /\ UNCHANGED <<scanChan, queue>>
    BY <1>9 DEF StartVerification, Idle
  <2>. QED  BY <1>1, <1>2, <2>1
<1>10. CASE ConfirmAbort
  <2>1. UNCHANGED <<discovering, scanChan>> /\ (verifying' => verifying)
    BY <1>10 DEF ConfirmAbort, threads
  <2>2. z = <<>> \/ z = q
    BY <1>10 DEF ConfirmAbort
  <2>3. z = <<>> => ScanEvents(z) = {}
    BY DEF ScanEvents
  <2>. QED  BY <1>1, <1>2, <2>1, <2>2, <2>3
<1>11. CASE FrameStarts \/ Drained \/ NoClick \/ AbortButton \/ Continue \/ DismissDialog
  <2>1. UNCHANGED <<discovering, verifying, scanChan, queue>>
    BY <1>11 DEF FrameStarts, Drained, NoClick, AbortButton, Continue, DismissDialog, threads
  <2>. QED  BY <1>3, <2>1
<1>. QED
  BY <1>4, <1>5, <1>7, <1>8, <1>9, <1>10, <1>11 DEF Gui, Click

----------------------------------------------------------------------------
(***************************************************************************)
(* The run on display.  Only it has work left, so only its results can     *)
(* still be sent; it is over when the last of them is received.            *)
(***************************************************************************)

\* The result of a job of the run started last.
IsCurrent(e) == e.type = "Result" /\ e.run = runs /\ e.kind \in Phases /\ e.job >= 1

ShownCurrent == \A e \in results : IsCurrent(e)
SentCurrent  == \A i \in 1..Len(queue) :
                   queue[i].type = "Result" => verifying /\ IsCurrent(queue[i])
RestIsOver   == \A r \in 1..runs : chan[r] = rx /\ (r < runs \/ ~verifying) => Over(r)

\* The total is the plan's, once it was announced; it is announced once, after planning.
TotalIsPlanned ==
    verifying => /\ runs >= 1 /\ chan[runs] = rx
                 /\ pc[runs] = "plan" => total = 0
                 /\ total > 0 => total = plan[runs].count
IsReady(e)   == e.type = "JobsReady"
ReadyOnce    ==
    \A i \in 1..Len(queue) : IsReady(queue[i]) =>
        /\ verifying /\ total = 0 /\ pc[runs] # "plan" /\ queue[i].count = plan[runs].count
        /\ \A j \in 1..Len(queue) : IsReady(queue[j]) => j = i

Current == ShownCurrent /\ SentCurrent /\ RestIsOver /\ TotalIsPlanned /\ ReadyOnce

\* A run of which every job was reported is over.
LEMMA AllDoneIsOver ==
    ASSUME IInv, NEW r \in Runs, pc[r] # "plan", \A e \in JobsOf(r, plan[r]) : Reported(e)
    PROVE  Over(r)
<1>1. plan[r] \in Plan
  BY DEF IInv, TypeOK
<1>2. ASSUME NEW ph \in Phases, NEW d \in Drives, NEW n \in Nat, 1 <= n, n <= plan[r][ph][d]
      PROVE  IsDone(r, ph, d, n)
  <2>. PICK e : e = Result(r, ph, d, n)
    OBVIOUS
  <2>1. e \in Event /\ e.type = "Result" /\ e.run = r /\ e.kind = ph /\ e.drive = d /\ e.job = n
    BY EventsAre DEF Kinds, Result
  <2>2. e \in JobsOf(r, plan[r])
    BY <1>2, <2>1 DEF JobsOf
  <2>. QED  BY <2>1, <2>2 DEF Reported
<1>3. ASSUME NEW ph \in Phases, NEW d \in Drives  PROVE work[r][ph].left[d] = 0
  <2>. PICK n, m : n = plan[r][ph][d] /\ m = work[r][ph].left[d]
    OBVIOUS
  <2>1. n \in Nat /\ m \in Nat /\ m <= n
    <3>1. work[r][ph] \in Phase /\ m <= n
      BY DEF IInv, TypeOK, PhasesOK, PhaseOK
    <3>. QED  BY <1>1, <3>1, PlanCounts DEF Phase
  <2>2. SUFFICES ASSUME m > 0  PROVE FALSE
    BY <2>1
  <2>3. IsDone(r, ph, d, n)
    BY <1>2, <2>1, <2>2
  <2>4. ph # "manifest"
    BY DEF Phases
  <2>5. n <= n - m
    BY <2>3, <2>4 DEF IsDone
  <2>. QED  BY <2>1, <2>2, <2>5
<1>4. ASSUME pc[r] = "sha"  PROVE plan[r].embedded = NoJobs
  <2>1. plan[r].embedded \in [Drives -> 0..1]
    BY <1>1 DEF Plan
  <2>2. ASSUME NEW d \in Drives, plan[r].embedded[d] # 0  PROVE FALSE
    <3>1. 1 <= plan[r]["embedded"][d]
      BY <2>1, <2>2
    <3>2. IsDone(r, "embedded", d, 1)
      BY <1>2, <3>1, "embedded" \in Phases, 1 \in Nat DEF Phases
    <3>. QED  BY <1>4, <3>2 DEF IsDone
  <2>. QED  BY <2>1, <2>2 DEF NoJobs
<1>. QED
  BY <1>3, <1>4 DEF Over, AllReported

\* A run that is over stays so.
LEMMA OverStays ==
    ASSUME OInv, NEW r \in Runs, Over(r), PcGoes(r), PlanGoes(r), \A ph \in Phases : Goes(r, ph)
    PROVE  Over(r)'
<1>1. pc[r] # "plan" /\ AllReported(r) /\ (pc[r] = "sha" => plan[r].embedded = NoJobs)
  BY DEF Over
<1>2. pc'[r] # "plan" /\ (pc'[r] = "sha" => pc[r] = "sha") /\ plan'[r] = plan[r]
  BY <1>1 DEF PcGoes, PlanGoes
<1>3. ASSUME NEW ph \in Phases  PROVE \A d \in Drives : work'[r][ph].left[d] = 0
  <2>. PICK p, q : p = work[r][ph] /\ q = work'[r][ph]
    OBVIOUS
  <2>1. PhaseInv(p) /\ OverIsEmpty(p) /\ NoneLeft(p)
    BY <1>1, AtPhase DEF OInv, WorkOrdered, AllReported, NoneLeft
  <2>2. CASE q = NewPhase(plan[r][ph]) /\ ph = "embedded" /\ pc[r] = "sha"
    <3>1. plan[r][ph] = NoJobs
      BY <1>1, <2>2
    <3>. QED  BY <2>2, <3>1 DEF NewPhase, NoJobs
  <2>3. CASE \/ q = p
             \/ \E d \in Drives, to \in BatchState \ {"none", "finished"} :
                   p.st[d] \notin {"none", "finished"} /\ q = Move(p, d, to)
             \/ \E d \in Drives : p.st[d] = "running" /\ q = Complete(p, d)
             \/ q = StopFeeding(p)
             \/ q = Return(p)
    <3>1. NoneLeft(q)
      BY <2>1, <2>3, GoesKeeps
    <3>. QED  BY <3>1 DEF NoneLeft
  <2>. QED  BY <1>1, <2>2, <2>3 DEF Goes
<1>4. AllReported(r)'
  BY <1>3 DEF AllReported
<1>. QED
  BY <1>1, <1>2, <1>4 DEF Over

\* What a step of the threads may send, whatever the thread.
LEMMA ThreadsSendCurrent ==
    ASSUME AllLoad, IInv, [Next]_vars, ~Gui
    PROVE  \/ UNCHANGED queue
           \/ \E e \in Event : /\ queue' = Append(queue, e)
                               /\ \/ NewResult(e) \/ NewReady(e)
                                  \/ e.type \in {"DrivesFound", "Fatal"}
<1>1. ASSUME NEW s \in Scans, ScanEnds(s)
      PROVE  \/ UNCHANGED queue
             \/ \E e \in Event : /\ queue' = Append(queue, e)
                                 /\ e.type \in {"DrivesFound", "Fatal"}
  <2>1. ASSUME NEW D \in SUBSET Drives, Send(scanChan[s], DrivesFound(D))
        PROVE  \/ UNCHANGED queue
               \/ \E e \in Event : /\ queue' = Append(queue, e)
                                   /\ e.type \in {"DrivesFound", "Fatal"}
    BY <2>1, EventsAre DEF DrivesFound, Send
  <2>2. ASSUME Send(scanChan[s], Fatal("scan"))
        PROVE  \/ UNCHANGED queue
               \/ \E e \in Event : /\ queue' = Append(queue, e)
                                   /\ e.type \in {"DrivesFound", "Fatal"}
    BY <2>2, EventsAre DEF Fatal, Send
  <2>. QED  BY <1>1, <2>1, <2>2 DEF ScanEnds
<1>. QED
  BY <1>1, RunThreads DEF RunSent

\* The threads send for the run on display only, and keep the others over.
LEMMA CurrentThreads ==
    ASSUME AllLoad, OInv, Current, [Next]_vars, ~Gui
    PROVE  Current'
<1>0. IInv /\ TypeOK /\ queue \in Seq(Event) /\ runs \in Nat /\ verifying \in BOOLEAN
  BY VerifierAssumption DEF OInv, IInv, TypeOK
<1>1. /\ UNCHANGED <<verifying, total, results, rx, runs, chan>>
      /\ \A r \in Runs : PcGoes(r) /\ \A ph \in Phases : Goes(r, ph)
  BY <1>0, StepIs DEF gui
<1>2. \A r \in Runs : PlanGoes(r)
  BY ThreadsSend
<1>3. ShownCurrent'
  BY <1>1 DEF Current, ShownCurrent, IsCurrent
<1>4. RestIsOver'
  <2>1. ASSUME NEW r \in 1..runs, chan[r] = rx, r < runs \/ ~verifying  PROVE Over(r)'
    <3>1. r \in Runs
      BY <1>0, VerifierAssumption DEF TypeOK, Runs
    <3>2. Over(r)
      BY <2>1 DEF Current, RestIsOver
    <3>. QED  BY <1>1, <1>2, <3>1, <3>2, OverStays
  <2>. QED  BY <1>1, <2>1 DEF RestIsOver
<1>5. ASSUME verifying
      PROVE  /\ runs \in Runs /\ runs >= 1 /\ chan[runs] = rx
             /\ pc[runs] # "plan" => pc'[runs] # "plan" /\ plan'[runs] = plan[runs]
             /\ pc'[runs] = "plan" => pc[runs] = "plan"
  <2>1. runs \in Runs /\ runs >= 1 /\ chan[runs] = rx
    BY <1>0, <1>5, VerifierAssumption DEF Current, TotalIsPlanned, TypeOK, Runs
  <2>2. PcGoes(runs) /\ PlanGoes(runs)
    BY <1>1, <1>2, <2>1
  <2>. QED  BY <2>1, <2>2 DEF PcGoes, PlanGoes
<1>6. TotalIsPlanned'
  BY <1>1, <1>5 DEF Current, TotalIsPlanned
<1>7. ASSUME NEW r \in 1..runs, chan[r] = rx, ~Over(r)  PROVE r = runs /\ verifying
  BY <1>0, <1>7 DEF Current, RestIsOver
<1>. PICK q, z : q = queue /\ z = queue'
  OBVIOUS
<1>8. CASE UNCHANGED queue
  <2>1. SentCurrent'
    BY <1>1, <1>8 DEF Current, SentCurrent, IsCurrent
  <2>2. ReadyOnce'
    BY <1>1, <1>5, <1>8 DEF Current, ReadyOnce, IsReady
  <2>. QED  BY <1>3, <1>4, <1>6, <2>1, <2>2 DEF Current
<1>9. ASSUME NEW e \in Event, z = Append(q, e),
             NewResult(e) \/ NewReady(e) \/ e.type \in {"DrivesFound", "Fatal"}
      PROVE  Current'
  <2>. PICK m \in Nat : m = Len(q)
    BY <1>0
  <2>1. /\ Len(z) = m + 1 /\ z[m + 1] = e
        /\ \A i \in 1..m : z[i] = q[i]
        /\ \A i \in 1..m + 1 : i \in 1..m \/ i = m + 1
    BY <1>0, <1>9
  <2>2. e.type = "Result" => verifying /\ IsCurrent(e)
    <3>1. e.type = "Result" => NewResult(e)
      BY <1>9 DEF NewReady, JobsReady
    <3>. QED  BY <1>7, <3>1 DEF NewResult, IsCurrent
  <2>3. \A i \in 1..m : q[i].type = "Result" => verifying /\ IsCurrent(q[i])
    BY DEF Current, SentCurrent
  <2>4. \A i \in 1..Len(z) : z[i].type = "Result" => verifying /\ IsCurrent(z[i])
    BY <2>1, <2>2, <2>3
  <2>5. SentCurrent'
    BY <1>1, <2>4 DEF SentCurrent, IsCurrent
  <2>6. IsReady(e) => /\ verifying /\ total = 0 /\ pc[runs] = "plan" /\ pc'[runs] # "plan"
                      /\ e.count = plan'[runs].count
    <3>1. ASSUME IsReady(e)
          PROVE  \E r \in 1..runs : /\ e = JobsReady(plan[r].count)
                                    /\ chan[r] = rx /\ pc[r] = "plan" /\ pc'[r] # "plan"
      BY <1>9, <3>1 DEF IsReady, NewResult, NewReady
    <3>2. ASSUME IsReady(e)
          PROVE  /\ verifying /\ pc[runs] = "plan" /\ pc'[runs] # "plan"
                 /\ e = JobsReady(plan[runs].count)
      BY <1>7, <3>1, <3>2 DEF Over
    <3>3. ASSUME IsReady(e)  PROVE UNCHANGED plan
      <4>1. SUFFICES ASSUME plan' # plan  PROVE FALSE
        OBVIOUS
      <4>2. PICK r \in Runs : PlanAdvances(r)
        BY <1>0, <4>1, PlanChanges DEF Gui, Click
      <4>3. UNCHANGED pc
        BY <4>2 DEF PlanAdvances
      <4>. QED  BY <3>2, <3>3, <4>3
    <3>4. verifying => (pc[runs] = "plan" => total = 0)
      BY DEF Current, TotalIsPlanned
    <3>. QED  BY <3>2, <3>3, <3>4 DEF JobsReady
  <2>7. \A i \in 1..m : IsReady(q[i]) =>
           /\ verifying /\ total = 0 /\ pc[runs] # "plan" /\ q[i].count = plan[runs].count
           /\ \A j \in 1..m : IsReady(q[j]) => j = i
    BY DEF Current, ReadyOnce
  <2>8. ASSUME NEW i \in 1..Len(z), IsReady(z[i])
        PROVE  /\ verifying /\ total = 0 /\ pc'[runs] # "plan" /\ z[i].count = plan'[runs].count
               /\ \A j \in 1..Len(z) : IsReady(z[j]) => j = i
    <3>1. CASE i \in 1..m
      <4>1. z[i] = q[i] /\ IsReady(q[i])
        BY <2>1, <2>8, <3>1
      <4>2. /\ verifying /\ total = 0 /\ pc[runs] # "plan" /\ q[i].count = plan[runs].count
            /\ \A j \in 1..m : IsReady(q[j]) => j = i
        BY <2>7, <3>1, <4>1
      <4>3. pc'[runs] # "plan" /\ plan'[runs] = plan[runs] /\ ~IsReady(e)
        BY <1>5, <2>6, <4>2
      <4>. QED  BY <2>1, <4>1, <4>2, <4>3
    <3>2. CASE i = m + 1
      <4>1. z[i] = e /\ IsReady(e)
        BY <2>1, <2>8, <3>2
      <4>2. \A j \in 1..m : ~IsReady(q[j])
        BY <2>6, <2>7, <4>1
      <4>. QED  BY <2>1, <2>6, <3>2, <4>1, <4>2
    <3>. QED  BY <2>1, <3>1, <3>2
  <2>9. ReadyOnce'
    BY <1>1, <2>8 DEF ReadyOnce, IsReady
  <2>. QED  BY <1>3, <1>4, <1>6, <2>5, <2>9 DEF Current
<1>. QED
  BY <1>0, <1>8, <1>9, ThreadsSendCurrent

\* A result of the run on display is of a job it planned.
LEMMA CurrentIsPlanned ==
    ASSUME IInv, NEW e \in Event, IsCurrent(e), Reported(e)
    PROVE  e \in JobsOf(runs, plan[runs])
<1>. PICK r, k, d, n : r = e.run /\ k = e.kind /\ d = e.drive /\ n = e.job
  OBVIOUS
<1>1. /\ r \in Runs /\ k \in Phases /\ d \in Drives /\ n \in Nat /\ n >= 1 /\ r = runs
      /\ e.type = "Result"
  BY ResultIs DEF IsCurrent
<1>2. k # "manifest"
  BY <1>1 DEF Phases
<1>3. IsDone(r, k, d, n)
  BY DEF Reported
<1>4. n <= plan[r][k][d] - work[r][k].left[d]
  BY <1>2, <1>3 DEF IsDone
<1>5. work[r][k].left[d] \in Nat /\ plan[r][k][d] \in Nat
  <2>1. work[r][k] \in Phase /\ plan[r] \in Plan
    BY <1>1 DEF IInv, TypeOK
  <2>. QED  BY <1>1, <2>1, PlanCounts DEF Phase
<1>6. 1 <= n /\ n <= plan[r][k][d]
  BY <1>1, <1>4, <1>5
<1>. QED
  BY <1>1, <1>6 DEF JobsOf

\* The GUI takes an event off the channel: the events that stay are the run's.
LEMMA CurrentReceive ==
    ASSUME OInv, Counted, ScansOK, PlansCount, Current,
           OnDrivesFound \/ OnJobsReady \/ OnResult \/ OnStop
    PROVE  Current'
<1>0. /\ IInv /\ TypeOK /\ queue \in Seq(Event) /\ runs \in Nat /\ verifying \in BOOLEAN
      /\ total \in Nat /\ done \in Nat /\ IsFiniteSet(results)
  BY VerifierAssumption DEF OInv, IInv, TypeOK, Counted
<1>. PICK q, z, h, m : q = queue /\ z = queue' /\ h = Head(queue) /\ m = Len(queue)
  OBVIOUS
<1>1. /\ q # <<>> /\ z = Tail(q)
      /\ UNCHANGED <<rx, runs, chan, pc, plan, work>>
  BY DEF OnDrivesFound, OnJobsReady, OnResult, OnStop, Receive, threads
<1>2. /\ m \in Nat /\ m >= 1 /\ h = q[1] /\ Len(z) = m - 1 /\ 1 \in 1..m
      /\ \A i \in 1..m : q[i] \in Event
  BY <1>0, <1>1
<1>3. \A i \in 1..Len(z) : z[i] = q[i + 1] /\ i + 1 \in 1..m /\ i + 1 # 1
  BY <1>0, <1>1, <1>2
<1>4. \A i \in 1..m : q[i].type = "Result" => verifying /\ IsCurrent(q[i])
  BY DEF Current, SentCurrent
<1>5. \A i \in 1..m : IsReady(q[i]) =>
         /\ verifying /\ total = 0 /\ pc[runs] # "plan" /\ q[i].count = plan[runs].count
         /\ \A j \in 1..m : IsReady(q[j]) => j = i
  BY DEF Current, ReadyOnce
<1>6. \A r \in 1..runs : chan[r] = rx /\ (r < runs \/ ~verifying) => Over(r)
  BY DEF Current, RestIsOver
<1>7. ASSUME verifying  PROVE runs \in Runs /\ runs \in 1..runs /\ chan[runs] = rx
  BY <1>0, <1>7, VerifierAssumption DEF Current, TotalIsPlanned, TypeOK, Runs
<1>8. \A r : Over(r) => Over(r)'
  BY <1>1 DEF Over, AllReported
\* The events that stay are still the run's while it goes on.
<1>9. ASSUME verifying' = verifying,
             UNCHANGED results \/ (results' = results \cup {h} /\ IsCurrent(h)),
             \/ UNCHANGED total
             \/ /\ total' = plan[runs].count /\ pc[runs] # "plan" /\ verifying
                /\ \A i \in 2..m : ~IsReady(q[i])
      PROVE  Current'
  <2>1. ShownCurrent'
    BY <1>1, <1>9 DEF Current, ShownCurrent, IsCurrent
  <2>2. SentCurrent'
    <3>1. \A i \in 1..Len(z) : z[i].type = "Result" => verifying /\ IsCurrent(z[i])
      BY <1>3, <1>4
    <3>. QED  BY <1>1, <1>9, <3>1 DEF SentCurrent, IsCurrent
  <2>3. RestIsOver'
    BY <1>1, <1>6, <1>8, <1>9 DEF RestIsOver
  <2>4. TotalIsPlanned'
    BY <1>1, <1>9 DEF Current, TotalIsPlanned
  <2>5. ReadyOnce'
    <3>1. CASE UNCHANGED total
      <4>1. ASSUME NEW i \in 1..Len(z), IsReady(z[i])
            PROVE  /\ verifying /\ total = 0 /\ pc[runs] # "plan" /\ z[i].count = plan[runs].count
                   /\ \A j \in 1..Len(z) : IsReady(z[j]) => j = i
        <5>1. i + 1 \in 1..m /\ IsReady(q[i + 1]) /\ z[i] = q[i + 1]
          BY <1>3, <4>1
        <5>2. /\ verifying /\ total = 0 /\ pc[runs] # "plan" /\ z[i].count = plan[runs].count
              /\ \A j \in 1..m : IsReady(q[j]) => j = i + 1
          BY <1>5, <5>1
        <5>3. \A j \in 1..Len(z) : IsReady(z[j]) => j + 1 = i + 1
          BY <1>3, <5>2
        <5>4. \A j \in 1..Len(z) : IsReady(z[j]) => j = i
          BY <1>2, <5>3
        <5>. QED  BY <5>2, <5>4
      <4>. QED  BY <1>1, <1>9, <3>1, <4>1 DEF ReadyOnce, IsReady
    <3>2. CASE \A i \in 2..m : ~IsReady(q[i])
      <4>1. \A i \in 1..Len(z) : ~IsReady(z[i])
        <5>1. \A i \in 1..Len(z) : i + 1 \in 2..m
          BY <1>2
        <5>. QED  BY <1>3, <3>2, <5>1
      <4>. QED  BY <4>1 DEF ReadyOnce, IsReady
    <3>. QED  BY <1>9, <3>1, <3>2
  <2>. QED  BY <2>1, <2>2, <2>3, <2>4, <2>5 DEF Current
\* The run is over when each of its jobs was reported.
<1>10. ASSUME verifying, ~verifying', pc[runs] # "plan", ShownCurrent',
              \A e \in JobsOf(runs, plan[runs]) : Reported(e),
              \A i \in 2..m : q[i].type # "Result" /\ ~IsReady(q[i])
       PROVE  Current'
  <2>1. Over(runs)
    BY <1>0, <1>7, <1>10, AllDoneIsOver
  <2>2. RestIsOver'
    <3>1. \A r \in 1..runs : chan[r] = rx => Over(r)
      BY <1>0, <1>6, <2>1
    <3>. QED  BY <1>1, <1>8, <3>1 DEF RestIsOver
  <2>3. \A i \in 1..Len(z) : z[i].type # "Result" /\ ~IsReady(z[i])
    <3>1. \A i \in 1..Len(z) : i + 1 \in 2..m
      BY <1>2
    <3>. QED  BY <1>3, <1>10, <3>1
  <2>4. SentCurrent' /\ ReadyOnce' /\ TotalIsPlanned'
    BY <1>10, <2>3 DEF SentCurrent, ReadyOnce, TotalIsPlanned, IsReady
  <2>. QED  BY <1>10, <2>2, <2>4 DEF Current
<1>11. CASE OnDrivesFound
  BY <1>9, <1>11 DEF OnDrivesFound
<1>12. CASE OnStop
  <2>1. h.type = "Fatal" \/ h.type = "Aborted"
    BY <1>12 DEF OnStop, Receive
  <2>2. h.type = "Fatal"
    BY <1>0, <1>2, <2>1 DEF IInv, AbortIsSilent
  <2>3. 1 \in ScanEvents(q)
    BY <1>2, <2>2 DEF ScanEvents
  <2>4. ~verifying
    BY <2>3 DEF ScansOK
  <2>5. verifying' = verifying /\ UNCHANGED <<total, results>>
    <3>1. ~verifying' /\ verifying' \in BOOLEAN
      BY <1>12 DEF OnStop
    <3>2. verifying' = verifying
      BY <1>0, <2>4, <3>1, Zenon
    <3>. QED  BY <1>12, <3>2 DEF OnStop
  <2>. QED  BY <1>9, <2>5
<1>13. ASSUME NEW i \in 1..m, q[i].type = "Result"
       PROVE  /\ q[i] \in JobsOf(runs, plan[runs]) /\ Reported(q[i]) /\ q[i] \notin results
              /\ \A j \in 1..m : q[j] = q[i] => j = i
  <2>1. /\ Reported(q[i]) /\ q[i] \notin results
        /\ \A j \in 1..m : q[j] = q[i] => j = i
    BY <1>13 DEF Counted, SentOnce
  <2>2. IsCurrent(q[i]) /\ q[i] \in Event
    BY <1>2, <1>4, <1>13
  <2>. QED  BY <1>0, <2>1, <2>2, CurrentIsPlanned
<1>14. \A e \in results : e \in JobsOf(runs, plan[runs]) /\ Reported(e)
  <2>1. ASSUME NEW e \in results  PROVE e \in JobsOf(runs, plan[runs]) /\ Reported(e)
    <3>1. e \in Event /\ IsCurrent(e) /\ Reported(e)
      BY <1>0 DEF TypeOK, Current, ShownCurrent, Counted, ShownOnce
    <3>. QED  BY <1>0, <3>1, CurrentIsPlanned
  <2>. QED  BY <2>1
<1>15. ASSUME verifying
       PROVE  IsFiniteSet(JobsOf(runs, plan[runs]))
              /\ Cardinality(JobsOf(runs, plan[runs])) = plan[runs].count
  BY <1>7, <1>15 DEF PlansCount, PlanCounted
<1>16. CASE OnJobsReady
  <2>1. /\ IsReady(h) /\ total' = h.count /\ verifying' = (verifying /\ h.count # 0)
        /\ UNCHANGED results
    BY <1>16 DEF OnJobsReady, Receive, IsReady
  <2>2. /\ verifying /\ total = 0 /\ pc[runs] # "plan" /\ h.count = plan[runs].count
        /\ \A j \in 1..m : IsReady(q[j]) => j = 1
    BY <1>2, <1>5, <2>1
  <2>3. \A i \in 2..m : i \in 1..m /\ i # 1
    BY <1>2
  <2>4. \A i \in 2..m : ~IsReady(q[i])
    BY <2>2, <2>3
  <2>5. CASE h.count # 0
    <3>1. verifying' = verifying
      BY <1>0, <2>1, <2>5, Zenon
    <3>. QED  BY <1>9, <2>1, <2>2, <2>4, <3>1
  <2>6. CASE h.count = 0
    <3>1. ~verifying'
      BY <2>1, <2>6
    <3>2. JobsOf(runs, plan[runs]) = {}
      BY <1>15, <2>2, <2>6, FS_EmptySet
    <3>3. \A i \in 2..m : q[i].type # "Result"
      BY <1>13, <2>3, <3>2
    <3>4. ShownCurrent'
      BY <1>1, <2>1 DEF Current, ShownCurrent, IsCurrent
    <3>. QED  BY <1>10, <2>2, <2>4, <3>1, <3>2, <3>3, <3>4
  <2>. QED  BY <2>5, <2>6
<1>17. CASE OnResult
  <2>1. /\ h.type = "Result" /\ UNCHANGED total /\ results' = results \cup {h}
        /\ verifying' = (verifying /\ ~RunComplete(total, done + 1))
    BY <1>17 DEF OnResult, Receive
  <2>2. verifying /\ IsCurrent(h)
    BY <1>2, <1>4, <2>1
  <2>3. CASE ~RunComplete(total, done + 1)
    <3>1. verifying' = verifying
      BY <1>0, <2>1, <2>3, Zenon
    <3>. QED  BY <1>9, <2>1, <2>2, <3>1
  <2>4. CASE RunComplete(total, done + 1)
    <3>. PICK J, R : J = JobsOf(runs, plan[runs]) /\ R = results \cup {h}
      OBVIOUS
    <3>1. ~verifying' /\ total > 0 /\ done + 1 >= total
      BY <2>1, <2>4 DEF RunComplete
    <3>2. total = plan[runs].count /\ pc[runs] # "plan"
      BY <1>0, <2>2, <3>1 DEF Current, TotalIsPlanned
    <3>3. h \in J /\ h \notin results /\ Reported(h)
      BY <1>2, <1>13, <2>1
    <3>4. Cardinality(R) = done + 1
      BY <1>0, <3>3, FS_AddElement DEF Counted
    <3>5. R \in SUBSET J
      BY <1>14, <3>3
    <3>6. R = J
      <4>1. IsFiniteSet(J) /\ Cardinality(J) = total
        BY <1>15, <2>2, <3>2
      <4>2. Cardinality(R) <= Cardinality(J) /\ (Cardinality(J) = Cardinality(R) => J = R)
        BY <3>5, <4>1, FS_Subset
      <4>. QED  BY <1>0, <3>1, <3>4, <4>1, <4>2
    <3>7. \A e \in J : Reported(e)
      BY <1>14, <3>3, <3>6
    <3>8. ASSUME NEW i \in 2..m  PROVE q[i].type # "Result" /\ ~IsReady(q[i])
      <4>1. i \in 1..m /\ i # 1
        BY <1>2
      <4>2. ~IsReady(q[i])
        BY <1>0, <1>5, <3>1, <4>1
      <4>3. q[i].type # "Result"
        <5>1. SUFFICES ASSUME q[i].type = "Result"  PROVE FALSE
          OBVIOUS
        <5>2. q[i] \in J /\ q[i] \notin results /\ \A j \in 1..m : q[j] = q[i] => j = i
          BY <1>13, <4>1, <5>1
        <5>3. q[i] = h
          BY <3>6, <5>2
        <5>. QED  BY <1>2, <4>1, <5>2, <5>3
      <4>. QED  BY <4>2, <4>3
    <3>9. ShownCurrent'
      BY <1>1, <2>1, <2>2 DEF Current, ShownCurrent, IsCurrent
    <3>. QED  BY <1>10, <2>2, <3>1, <3>2, <3>7, <3>8, <3>9
  <2>. QED  BY <2>3, <2>4
<1>. QED
  BY <1>11, <1>12, <1>16, <1>17

\* The user's steps: a scan or a run starts when nothing is active, an abort cuts all runs off.
LEMMA CurrentClick ==
    ASSUME OInv, Current, FrameStarts \/ Drained \/ Click
    PROVE  Current'
<1>0. /\ IInv /\ TypeOK /\ queue \in Seq(Event) /\ runs \in Nat /\ verifying \in BOOLEAN
      /\ chan \in [Runs -> Nat] /\ pc \in [Runs -> {"none", "plan", "ended"} \cup Phases]
      /\ plan \in [Runs -> Plan]
  BY VerifierAssumption DEF OInv, IInv, TypeOK
<1>1. ASSUME UNCHANGED <<verifying, total, results, queue, rx, runs, chan, pc, plan, work>>
      PROVE  Current'
  BY <1>1 DEF Current, ShownCurrent, SentCurrent, RestIsOver, TotalIsPlanned, ReadyOnce,
        IsCurrent, IsReady, Over, AllReported
<1>2. CASE FrameStarts \/ Drained \/ NoClick \/ AbortButton \/ Continue \/ DismissDialog
  BY <1>1, <1>2 DEF FrameStarts, Drained, NoClick, AbortButton, Continue, DismissDialog, threads
<1>3. ASSUME ~verifying
      PROVE  \A i \in 1..Len(queue) : queue[i].type # "Result" /\ ~IsReady(queue[i])
  BY <1>3 DEF Current, SentCurrent, ReadyOnce
<1>4. CASE StartScan
  <2>1. /\ ~verifying /\ results' = {}
        /\ UNCHANGED <<verifying, queue, rx, runs, chan, pc, plan, work>>
    BY <1>4 DEF StartScan, Idle, ResetResults
  <2>. QED
    BY <1>3, <2>1 DEF Current, ShownCurrent, SentCurrent, RestIsOver, TotalIsPlanned, ReadyOnce,
          IsCurrent, IsReady, Over, AllReported
<1>5. CASE StartVerification
  <2>. PICK n : n = runs + 1
    OBVIOUS
  <2>1. /\ ~verifying /\ verifying' /\ results' = {} /\ total' = 0 /\ runs' = n
        /\ UNCHANGED <<queue, rx, work>>
        /\ chan' = [chan EXCEPT ![n] = rx] /\ pc' = [pc EXCEPT ![n] = "plan"]
    BY <1>5 DEF StartVerification, Idle, ResetResults
  <2>2. PICK S : plan' = [plan EXCEPT ![n] = [NoPlan EXCEPT !.todo = PlanSteps(S)]]
    BY <1>5 DEF StartVerification
  <2>3. n \in Runs /\ n \in Nat /\ n >= 1 /\ runs < n /\ 1..runs \subseteq Runs \ {n}
    <3>1. n \in Runs /\ n \in Nat /\ n >= 1 /\ runs < n
      BY <1>0, <1>5, VerifierAssumption DEF StartVerification, Runs
    <3>2. ASSUME NEW r \in 1..runs  PROVE r \in Runs \ {n}
      BY <1>0, <3>1, VerifierAssumption DEF Runs
    <3>. QED  BY <3>1, <3>2
  <2>4. chan'[n] = rx
    BY <1>0, <2>1, <2>3
  <2>5. \A r \in Runs \ {n} : chan'[r] = chan[r] /\ pc'[r] = pc[r] /\ plan'[r] = plan[r]
    BY <1>0, <2>1, <2>2
  <2>6. ASSUME NEW r \in 1..n, chan'[r] = rx, r < n  PROVE Over(r)'
    <3>1. r \in 1..runs /\ r \in Runs \ {n}
      BY <1>0, <2>3, <2>6
    <3>2. chan[r] = rx
      BY <2>5, <2>6, <3>1
    <3>3. Over(r)
      BY <2>1, <3>1, <3>2 DEF Current, RestIsOver
    <3>. QED  BY <2>1, <2>5, <3>1, <3>3 DEF Over, AllReported
  <2>7. RestIsOver'
    BY <2>1, <2>6 DEF RestIsOver
  <2>8. TotalIsPlanned'
    BY <2>1, <2>3, <2>4 DEF TotalIsPlanned
  <2>9. ShownCurrent' /\ SentCurrent' /\ ReadyOnce'
    BY <1>3, <2>1 DEF ShownCurrent, SentCurrent, ReadyOnce, IsReady
  <2>. QED  BY <2>7, <2>8, <2>9 DEF Current
<1>6. CASE ConfirmAbort
  <2>1. CASE ~verifying
    BY <1>1, <1>6, <2>1 DEF ConfirmAbort, threads
  <2>2. CASE verifying
    <3>1. /\ ~verifying' /\ queue' = <<>> /\ rx' = rx + 1
          /\ UNCHANGED <<results, runs, chan>>
      BY <1>6, <2>2 DEF ConfirmAbort, threads
    <3>2. ASSUME NEW r \in 1..runs  PROVE chan[r] # rx'
      <4>1. r \in Runs
        BY <1>0, VerifierAssumption DEF TypeOK, Runs
      <4>2. rx \in Nat /\ chan[r] \in 0..rx
        BY <1>0, <4>1 DEF IInv, RunsOK, TypeOK
      <4>. QED  BY <3>1, <4>2
    <3>. QED
      BY <3>1, <3>2 DEF Current, ShownCurrent, SentCurrent, RestIsOver, TotalIsPlanned, ReadyOnce,
            IsCurrent
  <2>. QED  BY <2>1, <2>2
<1>. QED
  BY <1>2, <1>4, <1>5, <1>6 DEF Click

\* The invariant of an application whose manifests can all be loaded.
CInv == OInv /\ Counted /\ ScansOK /\ PlansCount /\ Current

\* It holds in every reachable state.
LEMMA CurrentIs ==
    ASSUME AllLoad
    PROVE  Spec => []CInv
<1>1. ASSUME Init  PROVE ScansOK /\ PlansCount /\ Current
  <2>1. ScansOK
    BY <1>1 DEF Init, ScansOK, ScanEvents
  <2>2. PlansCount
    <3>1. \A r \in Runs : plan[r] = NoPlan
      BY <1>1 DEF Init
    <3>2. ASSUME NEW r \in Runs  PROVE PlanCounted(r, NoPlan)
      BY NoPlanCounted DEF NoPlan
    <3>. QED  BY <3>1, <3>2 DEF PlansCount
  <2>3. Current
    BY <1>1 DEF Init, Current, ShownCurrent, SentCurrent, RestIsOver, TotalIsPlanned, ReadyOnce
  <2>. QED  BY <2>1, <2>2, <2>3
<1>2. ASSUME CInv, [Next]_vars  PROVE ScansOK' /\ PlansCount' /\ Current'
  <2>1. IInv /\ OInv /\ Counted /\ ScansOK /\ PlansCount /\ Current
    BY <1>2 DEF CInv, OInv
  <2>2. ScansOK'
    BY <1>2, <2>1, ScansStep
  <2>3. PlansCount'
    BY <1>2, <2>1, PlansStep
  <2>4. Current'
    <3>1. CASE ~Gui
      BY <1>2, <2>1, <3>1, CurrentThreads
    <3>2. CASE OnDrivesFound \/ OnJobsReady \/ OnResult \/ OnStop
      BY <2>1, <3>2, CurrentReceive
    <3>3. CASE FrameStarts \/ Drained \/ Click
      BY <2>1, <3>3, CurrentClick
    <3>. QED  BY <3>1, <3>2, <3>3 DEF Gui
  <2>. QED  BY <2>2, <2>3, <2>4
<1>3. (OInv /\ Counted) /\ ScansOK /\ PlansCount /\ Current <=> CInv
  BY DEF CInv
<1>. QED
  BY <1>1, <1>2, <1>3, CountIs, PTL DEF Spec

\* The results panel shows the run started last and no other, where every manifest can be
\* loaded: a run ends on screen with its last result, so none is left for the next one.
THEOREM PanelIsCurrent ==
    ASSUME AllLoad
    PROVE  Spec => []ResultsAreCurrent
<1>1. CInv => ResultsAreCurrent
  BY DEF CInv, Current, ShownCurrent, IsCurrent, ResultsAreCurrent
<1>2. Spec => []CInv
  BY CurrentIs
<1>. QED
  BY <1>1, <1>2, PTL

\* The status line, where every manifest can be loaded: a run that was not aborted is over on
\* screen only when each of its jobs was reported.  (The finding shows what happens elsewhere.)
THEOREM OverMeansDone ==
    ASSUME AllLoad
    PROVE  Spec => []FinishedIsLast
<1>1. ASSUME CInv  PROVE FinishedIsLast
  <2>1. ASSUME NEW r \in 1..runs, ~verifying, r \notin aborted  PROVE Over(r)
    BY <1>1, <2>1 DEF CInv, OInv, NotAbortedLive, Current, RestIsOver
  <2>. QED  BY <2>1 DEF FinishedIsLast, Over
<1>2. Spec => []CInv
  BY CurrentIs
<1>. QED
  BY <1>1, <1>2, PTL
=============================================================================
