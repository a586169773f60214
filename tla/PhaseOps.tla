------------------------------ MODULE PhaseOps ------------------------------
(***************************************************************************)
(* The value of one work phase (SHA-256 manifests, or embedded ISOB3) of a *)
(* verification run, and the operations the coordinating thread (the       *)
(* "feeder") and the pool threads perform on it.  A phase has one batch of *)
(* jobs per drive.  The identity of the pool threads is abstracted away:   *)
(* only what happened to each batch matters.  DrivePool shows that the     *)
(* explicit threads and channels of worker/execute.rs behave like this.    *)
(***************************************************************************)
EXTENDS Naturals, FiniteSets

CONSTANTS
    NumDrives,    \* drives that may be present; drive d precedes drive d+1 in every list
    MaxWorkers    \* the "Max workers" choice of the toolbar

ASSUME PhaseAssumption == NumDrives \in Nat \ {0} /\ MaxWorkers \in Nat \ {0}

Drives == 1..NumDrives

(***************************************************************************)
(* A batch is not part of the phase (none); not yet given to the pool      *)
(* (unfed); in the job channel (queued); received by a thread that has not *)
(* looked at the abort flag (taken); between two jobs of it (held); in a   *)
(* job (running); completed (finished); or given up because the abort flag *)
(* was seen, by a thread that reported done before it ended (quit) or by   *)
(* one that returned without doing so (lost).                              *)
(***************************************************************************)
Owned   == {"taken", "held", "running"}
GivenUp == {"quit", "lost"}
BatchState == {"none", "unfed", "queued", "finished"} \cup Owned \cup GivenUp

Phase == [feeder : {"feeding", "ok", "err"},
          st     : [Drives -> BatchState],
          left   : [Drives -> Nat]]        \* jobs of the batch not yet reported

In(p, S)    == {d \in Drives : p.st[d] \in S}
Batches(p)  == Drives \ In(p, {"none"})
First(S)    == CHOOSE d \in S : \A e \in S : d <= e
Move(p, d, to) == [p EXCEPT !.st[d] = to]

\* Mutant: drives without a job are not filtered out.
NewPhaseUnfiltered(jobs) ==
    [feeder |-> "feeding", st |-> [d \in Drives |-> "unfed"], left |-> jobs]

\* A phase over the given number of jobs per drive; drives without a job are filtered out.
NewPhase(jobs) ==
    [feeder |-> "feeding",
     st     |-> [d \in Drives |-> IF jobs[d] = 0 THEN "none" ELSE "unfed"],
     left   |-> jobs]

\* How many pool threads the phase spawns.
Workers(p) == IF Cardinality(Batches(p)) < MaxWorkers THEN Cardinality(Batches(p)) ELSE MaxWorkers

----------------------------------------------------------------------------
(* The coordinating thread. *)

CanFeed(p) == p.feeder = "feeding" /\ In(p, {"unfed"}) # {}
Feed(p)    == Move(p, First(In(p, {"unfed"})), "queued")

\* The feeding loop sees the abort flag: the phase returns Ok, its threads run on.
StopFeeding(p) == [p EXCEPT !.feeder = "ok"]

\* Mutant: the feeder keeps its own sender of the done channel.
PoolEndedNoDrop(p) == In(p, Owned \cup {"queued", "lost"}) = {}

\* No thread of the pool is left: none owns a batch, and none can receive another one.
PoolEnded(p) ==
    /\ In(p, Owned) = {}
    /\ In(p, {"queued"}) = {} \/ Cardinality(In(p, GivenUp)) = Workers(p)

\* Mutant: the feeder does not wait for its threads.
CanReturnEarly(p) == p.feeder = "feeding" /\ In(p, {"unfed"}) = {}

\* Every done message was received, or the done channel closed before that.
CanReturn(p) == p.feeder = "feeding" /\ In(p, {"unfed"}) = {} /\ PoolEnded(p)
Return(p)    == [p EXCEPT !.feeder = IF In(p, {"lost"}) = {} THEN "ok" ELSE "err"]

----------------------------------------------------------------------------
(* A pool thread. *)

\* A thread that neither owns a batch nor has ended receives the oldest queued batch.
CanTake(p) == /\ In(p, {"queued"}) # {}
              /\ Cardinality(In(p, Owned \cup GivenUp)) < Workers(p)
Take(p)    == Move(p, First(In(p, {"queued"})), "taken")

\* The outcome of the job in progress is reported; the last job completes the batch.
Complete(p, d) ==
    [p EXCEPT !.st[d]   = IF p.left[d] = 1 THEN "finished" ELSE "held",
              !.left[d] = @ - 1]

\* Nothing of the phase can happen any more.
Quiet(p) == In(p, Owned) = {} /\ ~CanTake(p)
=============================================================================
