----------------------------- MODULE DrivePool ------------------------------
(***************************************************************************)
(* run_drive_phase of worker/execute.rs with its threads and its channels: *)
(* the feeder (the thread of verify_drives_worker), the pool threads, the  *)
(* unbounded crossbeam job channel, the done channel, and the abort flag,  *)
(* which the GUI may raise, and lower again, at any moment.                *)
(***************************************************************************)
EXTENDS PhaseOps, Sequences

CONSTANTS
    Jobs,        \* [Drives -> Nat], the jobs of each drive in this phase
    MaxFlips     \* bound: how often the GUI changes the abort flag

ASSUME PoolAssumption == Jobs \in [Drives -> Nat] /\ MaxFlips \in Nat

VARIABLES
    cancel,      \* the abort flag
    flips,       \* changes of the abort flag so far
    feeder,      \* "feeding" (119-123), "joining" (128-130), or what the call returned
    unfed,       \* drives whose batch was not sent to the job channel
    jobChan,     \* the job channel; a batch is known by its drive
    doneChan,    \* done messages sent and not received
    joined,      \* done messages received
    pc, batch,   \* of each pool thread; batch 0: none
    left,        \* jobs of a batch without an outcome
    sent         \* events sent to the GUI, oldest first

vars == <<cancel, flips, feeder, unfed, jobChan, doneChan, joined, pc, batch, left, sent>>

Nonempty == {d \in Drives : Jobs[d] > 0}
Pool == 1..(IF Cardinality(Nonempty) < MaxWorkers THEN Cardinality(Nonempty) ELSE MaxWorkers)

Aborted == [type |-> "Aborted"]
Result(d, n) == [type |-> "Result", drive |-> d, job |-> n]
Emit(e) == sent' = Append(sent, e)

Init ==
    /\ cancel = FALSE /\ flips = 0
    /\ feeder = "feeding" /\ unfed = Nonempty
    /\ jobChan = <<>> /\ doneChan = 0 /\ joined = 0
    /\ pc = [w \in Pool |-> "recv"] /\ batch = [w \in Pool |-> 0]
    /\ left = Jobs /\ sent = <<>>

----------------------------------------------------------------------------
\* Mutant: the feeder does not look at the abort flag.
FeedBatchUnchecked ==
    /\ feeder = "feeding" /\ unfed # {}
    /\ jobChan' = Append(jobChan, First(unfed))
    /\ unfed' = unfed \ {First(unfed)}
    /\ UNCHANGED <<cancel, flips, feeder, doneChan, joined, pc, batch, left, sent>>

FeedBatch ==
    /\ feeder = "feeding" /\ unfed # {} /\ ~cancel
    /\ jobChan' = Append(jobChan, First(unfed))
    /\ unfed' = unfed \ {First(unfed)}
    /\ UNCHANGED <<cancel, flips, feeder, doneChan, joined, pc, batch, left, sent>>

\* Returns Ok without waiting: the job channel closes, the batches in it stay there.
FeederSeesAbort ==
    /\ feeder = "feeding" /\ unfed # {} /\ cancel
    /\ feeder' = "ok" /\ Emit(Aborted)
    /\ UNCHANGED <<cancel, flips, unfed, jobChan, doneChan, joined, pc, batch, left>>

CloseJobChan ==
    /\ feeder = "feeding" /\ unfed = {}
    /\ feeder' = "joining"
    /\ UNCHANGED <<cancel, flips, unfed, jobChan, doneChan, joined, pc, batch, left, sent>>

AllJoined == joined = Cardinality(Pool)

RecvDone ==
    /\ feeder = "joining" /\ ~AllJoined /\ doneChan > 0
    /\ doneChan' = doneChan - 1 /\ joined' = joined + 1
    /\ UNCHANGED <<cancel, flips, feeder, unfed, jobChan, pc, batch, left, sent>>

ReturnOk ==
    /\ feeder = "joining" /\ AllJoined
    /\ feeder' = "ok"
    /\ UNCHANGED <<cancel, flips, unfed, jobChan, doneChan, joined, pc, batch, left, sent>>

\* recv fails: no done message is left and every sender was dropped.
ReturnErr ==
    /\ feeder = "joining" /\ ~AllJoined /\ doneChan = 0
    /\ \A w \in Pool : pc[w] \in {"ended", "lost"}
    /\ feeder' = "err"
    /\ UNCHANGED <<cancel, flips, unfed, jobChan, doneChan, joined, pc, batch, left, sent>>

----------------------------------------------------------------------------
\* Mutant: the batch stays in the channel.
RecvPeeks(w) ==
    /\ pc[w] = "recv" /\ jobChan # <<>>
    /\ pc' = [pc EXCEPT ![w] = "taken"]
    /\ batch' = [batch EXCEPT ![w] = Head(jobChan)]
    /\ UNCHANGED <<cancel, flips, feeder, unfed, jobChan, doneChan, joined, left, sent>>

Recv(w) ==
    /\ pc[w] = "recv" /\ jobChan # <<>>
    /\ pc' = [pc EXCEPT ![w] = "taken"]
    /\ batch' = [batch EXCEPT ![w] = Head(jobChan)]
    /\ jobChan' = Tail(jobChan)
    /\ UNCHANGED <<cancel, flips, feeder, unfed, doneChan, joined, left, sent>>

\* Mutant: the job channel stays open when the feeder returns early.
RecvClosedLate(w) ==
    /\ pc[w] = "recv" /\ jobChan = <<>> /\ feeder = "joining"
    /\ pc' = [pc EXCEPT ![w] = "ended"]
    /\ doneChan' = doneChan + 1
    /\ UNCHANGED <<cancel, flips, feeder, unfed, jobChan, joined, batch, left, sent>>

\* recv fails: the channel is empty and its sender, the feeder's job_tx, was dropped.
RecvClosed(w) ==
    /\ pc[w] = "recv" /\ jobChan = <<>> /\ feeder # "feeding"
    /\ pc' = [pc EXCEPT ![w] = "ended"]
    /\ doneChan' = doneChan + 1
    /\ UNCHANGED <<cancel, flips, feeder, unfed, jobChan, joined, batch, left, sent>>

EnterBatch(w) ==
    /\ pc[w] = "taken"
    /\ \/ /\ cancel
          /\ pc' = [pc EXCEPT ![w] = "ended"] /\ doneChan' = doneChan + 1 /\ Emit(Aborted)
       \/ /\ ~cancel
          /\ pc' = [pc EXCEPT ![w] = "held"] /\ UNCHANGED <<doneChan, sent>>
    /\ UNCHANGED <<cancel, flips, feeder, unfed, jobChan, joined, batch, left>>

\* Mutant: the interrupted job is reported as if it had an outcome.
LoseReporting(w) ==
    /\ pc' = [pc EXCEPT ![w] = "lost"]
    /\ Emit(Result(batch[w], Jobs[batch[w]] - left[batch[w]] + 1))

\* The thread returns at once: it sends no done message.
Lose(w) == pc' = [pc EXCEPT ![w] = "lost"] /\ Emit(Aborted)

BeginJob(w) ==
    /\ pc[w] = "held"
    /\ \/ cancel /\ Lose(w)
       \/ ~cancel /\ pc' = [pc EXCEPT ![w] = "running"] /\ UNCHANGED sent
    /\ UNCHANGED <<cancel, flips, feeder, unfed, jobChan, doneChan, joined, batch, left>>

\* After the last job of the batch the thread is back at recv.
JobCompletes(w) ==
    LET d == batch[w] IN
    /\ pc[w] = "running"
    /\ left' = [left EXCEPT ![d] = @ - 1]
    /\ pc' = [pc EXCEPT ![w] = IF left[d] = 1 THEN "recv" ELSE "held"]
    /\ batch' = [batch EXCEPT ![w] = IF left[d] = 1 THEN 0 ELSE d]
    /\ Emit(Result(d, Jobs[d] - left[d] + 1))
    /\ UNCHANGED <<cancel, flips, feeder, unfed, jobChan, doneChan, joined>>

JobAborts(w) ==
    /\ pc[w] = "running" /\ cancel /\ Lose(w)
    /\ UNCHANGED <<cancel, flips, feeder, unfed, jobChan, doneChan, joined, batch, left>>

GuiFlips ==
    /\ flips < MaxFlips
    /\ cancel' = ~cancel /\ flips' = flips + 1
    /\ UNCHANGED <<feeder, unfed, jobChan, doneChan, joined, pc, batch, left, sent>>

ThreadsGone == feeder \in {"ok", "err"} /\ \A w \in Pool : pc[w] \in {"ended", "lost"}
Gone == ThreadsGone /\ UNCHANGED vars

Feeder    == FeedBatch \/ FeederSeesAbort \/ CloseJobChan \/ RecvDone \/ ReturnOk \/ ReturnErr
Thread(w) == Recv(w) \/ RecvClosed(w) \/ EnterBatch(w) \/ BeginJob(w) \/ JobCompletes(w) \/ JobAborts(w)

Next == Feeder \/ (\E w \in Pool : Thread(w)) \/ GuiFlips \/ Gone

\* The operating system schedules every thread; nothing obliges the user to abort.
Fairness == WF_vars(Feeder) /\ \A w \in Pool : WF_vars(Thread(w))

Spec == Init /\ [][Next]_vars /\ Fairness

----------------------------------------------------------------------------
(* Properties. *)

\* A batch is in one place: not fed, once in the channel, or with one thread.  This is what
\* "one drive uses at most one worker at a time" (execute.rs, doc of run_drive_phase) rests on.
OneWorkerPerDrive ==
    /\ \A v, w \in Pool : batch[v] = batch[w] /\ batch[v] # 0 => v = w
    /\ \A i, j \in 1..Len(jobChan) : jobChan[i] = jobChan[j] => i = j
    /\ \A i \in 1..Len(jobChan) : jobChan[i] \notin unfed /\ \A w \in Pool : batch[w] # jobChan[i]
    /\ \A w \in Pool : batch[w] \notin unfed

\* The result events of a drive are exactly its jobs up to the first one without an outcome,
\* each once and in the order of its manifests.
ResultsOf(d) == {i \in 1..Len(sent) : sent[i].type = "Result" /\ sent[i].drive = d}
ResultsInOrder ==
    \A d \in Drives :
        /\ Jobs[d] - left[d] \in 0..Jobs[d]
        /\ {sent[i].job : i \in ResultsOf(d)} = 1..(Jobs[d] - left[d])
        /\ \A i, j \in ResultsOf(d) : i < j => sent[i].job < sent[j].job

\* The feeder's wait ends whatever happens, and no pool thread outlives the phase for ever.
PhaseTerminates == <>ThreadsGone

----------------------------------------------------------------------------
(* The pool implements DrivePhase. *)

OwnerOf(d) == {w \in Pool : batch[w] = d}

BatchOf(d) ==
    IF Jobs[d] = 0 THEN "none"
    ELSE IF d \in unfed THEN "unfed"
    ELSE IF \E i \in 1..Len(jobChan) : jobChan[i] = d THEN "queued"
    ELSE IF OwnerOf(d) = {} THEN "finished"
    ELSE LET w == CHOOSE w \in OwnerOf(d) : TRUE
         IN  IF pc[w] = "ended" THEN "quit" ELSE pc[w]

PhaseView == [feeder |-> IF feeder = "joining" THEN "feeding" ELSE feeder,
              st     |-> [d \in Drives |-> BatchOf(d)],
              left   |-> left]

Abstract == INSTANCE DrivePhase WITH phase <- PhaseView

\* Every behaviour of the threads and channels is one of DrivePhase.
ImplementsPhase == Abstract!Spec
=============================================================================
