------------------------------ MODULE Verifier ------------------------------
(***************************************************************************)
(* The verifier application ISOB3GUI: the GUI thread (app/actions.rs,      *)
(* app/events.rs, app/ui), the drive scan and the verification runs it     *)
(* spawns (worker/mod.rs), the pool threads of each run's two phases       *)
(* (worker/execute.rs, as PhaseOps describes them), the event channel from *)
(* the workers to the GUI and the abort flag from the GUI to the workers.  *)
(*                                                                         *)
(* Log and Progress events carry no control and are left out; that sending *)
(* one fails once the channel was dropped is kept.                         *)
(***************************************************************************)
EXTENDS PhaseOps, Sequences

CONSTANTS
    Manifests,    \* [Drives -> Seq(Nat \cup {Unreadable})]: entries of each SHA-256 manifest
    Embedded,     \* the drives with an embedded ISOB3 target
    Unreadable,   \* a manifest that cannot be loaded
    MaxRuns,      \* bound: verification runs started
    MaxScans      \* bound: drive scans started

ASSUME VerifierAssumption ==
    /\ Unreadable \notin Nat
    /\ Manifests \in [Drives -> Seq(Nat \cup {Unreadable})]
    /\ Embedded \subseteq Drives
    /\ MaxRuns \in Nat /\ MaxScans \in Nat

Runs   == 1..MaxRuns
Scans  == 1..MaxScans
Phases == {"sha", "embedded"}

VARIABLES
    \* the App struct
    frame,        \* where the GUI thread is in a frame: "top", "drain" or "ui"; "gone": process ended
    discovering, verifying,
    drives,       \* the drives listed by the last scan
    total, done, results,
    confirmOpen,  \* abort_confirm_open
    closeAfter,   \* close_after_abort
    \* shared between the GUI and the workers
    abort,        \* abort_requested, one flag for the life of the process
    rx,           \* the number of the channel the GUI reads; a dropped one is never read
    queue,        \* the events in channel rx
    \* the worker threads
    scans, scanChan,   \* scans started; the channel a running scan sends to, 0 when it ended
    runs, chan,   \* runs started; the channel of each run
    pc,           \* the coordinating thread of a run
    plan,         \* what it still has to plan, and the jobs planned so far
    work,         \* its two phases
    \* history
    decision,     \* the last thing the user said about closing the window
    aborted       \* the runs the user aborted

gui     == <<frame, discovering, verifying, drives, total, done, results, confirmOpen, closeAfter>>
threads == <<scans, scanChan, runs, chan, pc, plan, work>>
history == <<decision, aborted>>
vars    == <<gui, abort, rx, queue, threads, history>>

----------------------------------------------------------------------------
(* Events *)

DrivesFound(D)     == [type |-> "DrivesFound", drives |-> D]
JobsReady(n)       == [type |-> "JobsReady", count |-> n]
Result(r, k, d, n) == [type |-> "Result", run |-> r, kind |-> k, drive |-> d, job |-> n]
Aborted            == [type |-> "Aborted"]
Fatal(from)        == [type |-> "Fatal", from |-> from]

Kinds == Phases \cup {"manifest"}
Event == [type : {"DrivesFound"}, drives : SUBSET Drives]
    \cup [type : {"JobsReady"}, count : Nat]
    \cup [type : {"Result"}, run : Runs, kind : Kinds, drive : Drives, job : Nat]
    \cup [type : {"Aborted"}]
    \cup [type : {"Fatal"}, from : {"scan", "run"}]

\* Mutant: all runs share one channel.
SendAnyway(c, e) == queue' = Append(queue, e)

\* A send on channel c: an event for a channel whose receiver was dropped is lost.
Send(c, e) == queue' = IF c = rx THEN Append(queue, e) ELSE queue

----------------------------------------------------------------------------
(* Jobs *)

NoJobs  == [d \in Drives |-> 0]
NoPhase == NewPhase(NoJobs)

\* Planning visits, for each selected drive in order, the drive itself (step 0) and then its
\* manifests; every visit starts with a look at the abort flag and sends something.
PlanSteps(sel) == UNION {{d} \X (0..Len(Manifests[d])) : d \in sel}
IsNext(s, todo) == \A t \in todo : s[1] < t[1] \/ (s[1] = t[1] /\ s[2] <= t[2])
NoPlan  == [todo |-> {}, sha |-> NoJobs, embedded |-> NoJobs, count |-> 0]

exited == frame = "gone"

Init ==
    /\ frame = "top" /\ discovering = FALSE /\ verifying = FALSE /\ drives = {}
    /\ total = 0 /\ done = 0 /\ results = {}
    /\ confirmOpen = FALSE /\ closeAfter = FALSE
    /\ abort = FALSE /\ rx = 1 /\ queue = <<>>
    /\ scans = 0 /\ scanChan = [s \in Scans |-> 0]
    /\ runs = 0 /\ chan = [r \in Runs |-> 0]
    /\ pc = [r \in Runs |-> "none"] /\ plan = [r \in Runs |-> NoPlan]
    /\ work = [r \in Runs |-> [ph \in Phases |-> NoPhase]]
    /\ decision = "none" /\ aborted = {}

----------------------------------------------------------------------------
(* The GUI thread: one frame. *)

\* The close request of the window manager.  While a run is active it is refused and the
\* dialog opens; otherwise eframe closes the window and main returns.
FrameStarts ==
    /\ frame = "top"
    /\ \/ frame' = "drain" /\ UNCHANGED <<confirmOpen, closeAfter, decision>>
       \/ /\ verifying /\ frame' = "drain"
          /\ confirmOpen' = TRUE /\ closeAfter' = TRUE /\ decision' = "asked"
       \/ /\ ~verifying /\ frame' = "gone" /\ decision' = "close"
          /\ UNCHANGED <<confirmOpen, closeAfter>>
    /\ UNCHANGED <<discovering, verifying, drives, total, done, results, abort, rx, queue, threads, aborted>>

Receive(type) ==
    /\ frame = "drain" /\ queue # <<>> /\ Head(queue).type = type
    /\ queue' = Tail(queue)
    /\ UNCHANGED <<frame, confirmOpen, closeAfter, abort, rx, threads, history>>

\* Mutant: the scan stays marked as running.
OnDrivesFoundStillBusy ==
    /\ Receive("DrivesFound")
    /\ drives' = Head(queue).drives
    /\ UNCHANGED <<discovering, verifying, total, done, results>>

OnDrivesFound ==
    /\ Receive("DrivesFound")
    /\ discovering' = FALSE /\ drives' = Head(queue).drives
    /\ UNCHANGED <<verifying, total, done, results>>

OnJobsReady ==
    /\ Receive("JobsReady")
    /\ total' = Head(queue).count
    /\ verifying' = (verifying /\ Head(queue).count # 0)
    /\ UNCHANGED <<discovering, drives, done, results>>

\* Mutant: the last result is awaited, and may be missed.
RunCompleteExactly(t, n) == t > 0 /\ n = t

RunComplete(t, n) == t > 0 /\ n >= t

OnResult ==
    /\ Receive("Result")
    /\ done' = done + 1 /\ results' = results \cup {Head(queue)}
    /\ verifying' = (verifying /\ ~RunComplete(total, done + 1))
    /\ UNCHANGED <<discovering, drives, total>>

\* Aborted (102-106) and Fatal (112-117) both end the run; Fatal ends a scan as well.
OnStop ==
    /\ \E type \in {"Aborted", "Fatal"} : Receive(type)
    /\ verifying' = FALSE
    /\ discovering' = (discovering /\ Head(queue).type = "Aborted")
    /\ UNCHANGED <<drives, total, done, results>>

\* The channel is empty: exit if an abort-and-close is due, else show the widgets.
Drained ==
    /\ frame = "drain" /\ queue = <<>>
    /\ frame' = IF closeAfter /\ ~verifying THEN "gone" ELSE "ui"
    /\ UNCHANGED <<discovering, verifying, drives, total, done, results, confirmOpen, closeAfter,
                   abort, rx, queue, threads, history>>

----------------------------------------------------------------------------
(* The GUI thread: what the user clicks, at most one thing a frame. *)

Widgets == frame = "ui" /\ frame' = "top"

NoClick == /\ Widgets
           /\ UNCHANGED <<discovering, verifying, drives, total, done, results, confirmOpen, closeAfter, abort, rx, queue, threads, history>>

\* Mutants: the number of results survives; the result list does.
ResetList     == total' = 0 /\ results' = {} /\ abort' = FALSE /\ UNCHANGED done
ResetCounters == total' = 0 /\ done' = 0 /\ abort' = FALSE /\ UNCHANGED results

ResetResults == total' = 0 /\ done' = 0 /\ results' = {} /\ abort' = FALSE

Idle == ~discovering /\ ~verifying

StartScan ==
    /\ Widgets /\ Idle /\ scans < MaxScans
    /\ discovering' = TRUE /\ drives' = {}
    /\ ResetResults
    /\ scans' = scans + 1 /\ scanChan' = [scanChan EXCEPT ![scans + 1] = rx]
    /\ UNCHANGED <<verifying, confirmOpen, closeAfter, rx, queue, runs, chan, pc, plan, work, history>>

\* The selection is whatever the user left ticked.  A click that only opens the password
\* prompt, because encrypted mode has no credential, is a NoClick.
StartVerification ==
    LET r == runs + 1 IN
    /\ Widgets /\ Idle /\ runs < MaxRuns
    /\ \E sel \in SUBSET drives \ {{}} :
          plan' = [plan EXCEPT ![r] = [NoPlan EXCEPT !.todo = PlanSteps(sel)]]
    /\ verifying' = TRUE
    /\ ResetResults
    /\ runs' = r /\ chan' = [chan EXCEPT ![r] = rx] /\ pc' = [pc EXCEPT ![r] = "plan"]
    /\ UNCHANGED <<discovering, drives, confirmOpen, closeAfter, rx, queue, scans, scanChan, work, history>>

AbortButton ==
    /\ Widgets /\ verifying
    /\ confirmOpen' = TRUE /\ closeAfter' = FALSE /\ decision' = "none"
    /\ UNCHANGED <<discovering, verifying, drives, total, done, results, abort, rx, queue, threads, aborted>>

\* Mutant: the channel is not replaced.
ConfirmAbortSameChannel ==
    /\ Widgets /\ confirmOpen /\ confirmOpen' = FALSE
    /\ \/ /\ verifying
          /\ abort' = TRUE /\ verifying' = FALSE
          /\ aborted' = aborted \cup {r \in Runs : chan[r] = rx}
          /\ decision' = IF closeAfter THEN "abortAndClose" ELSE "none"
       \/ ~verifying /\ UNCHANGED <<abort, verifying, history>>
    /\ UNCHANGED <<discovering, drives, total, done, results, closeAfter, rx, queue, threads>>

\* request_abort(close_after_abort): raises the flag and drops the channel.
ConfirmAbort ==
    /\ Widgets /\ confirmOpen /\ confirmOpen' = FALSE
    /\ \/ /\ verifying
          /\ abort' = TRUE /\ verifying' = FALSE
          /\ rx' = rx + 1 /\ queue' = <<>>
          /\ aborted' = aborted \cup {r \in Runs : chan[r] = rx}
          /\ decision' = IF closeAfter THEN "abortAndClose" ELSE "none"
       \/ ~verifying /\ UNCHANGED <<abort, verifying, rx, queue, history>>
    /\ UNCHANGED <<discovering, drives, total, done, results, closeAfter, threads>>

Continue ==
    /\ Widgets /\ confirmOpen /\ confirmOpen' = FALSE
    /\ closeAfter' = FALSE /\ decision' = "continue"
    /\ UNCHANGED <<discovering, verifying, drives, total, done, results, abort, rx, queue, threads, aborted>>

\* The dialog's own close button.
DismissDialog ==
    /\ Widgets /\ confirmOpen /\ confirmOpen' = FALSE /\ decision' = "dismissed"
    /\ UNCHANGED <<discovering, verifying, drives, total, done, results, closeAfter,
                   abort, rx, queue, threads, aborted>>

Click == \/ NoClick \/ StartScan \/ StartVerification \/ AbortButton
         \/ ConfirmAbort \/ Continue \/ DismissDialog
Gui   == \/ FrameStarts \/ OnDrivesFound \/ OnJobsReady \/ OnResult \/ OnStop \/ Drained \/ Click

----------------------------------------------------------------------------
(* The threads the GUI spawns.  They never touch the App struct. *)

WorkersOnly == ~exited /\ UNCHANGED <<gui, abort, rx, history>>

\* discover_drives_worker: the drives found, or the error of the enumeration.
ScanEnds(s) ==
    /\ scanChan[s] # 0
    /\ \/ \E D \in SUBSET Drives : Send(scanChan[s], DrivesFound(D))
       \/ Send(scanChan[s], Fatal("scan"))
    /\ scanChan' = [scanChan EXCEPT ![s] = 0]
    /\ UNCHANGED <<scans, runs, chan, pc, plan, work>> /\ WorkersOnly

OfRun(r) == UNCHANGED <<scans, scanChan, runs, chan>> /\ WorkersOnly

\* The run's thread returns.
EndRun(r) == pc' = [pc EXCEPT ![r] = "ended"]

(* verify_drives_worker, planning *)

PlanStops(r) ==
    /\ pc[r] = "plan" /\ plan[r].todo # {} /\ abort
    /\ Send(chan[r], Aborted) /\ EndRun(r)
    /\ UNCHANGED <<plan, work>> /\ OfRun(r)

IsUnreadable(d, k) == k > 0 /\ Manifests[d][k] = Unreadable

\* What a planning step adds to the plan; a manifest that cannot be loaded adds no job.
Planned(p, d, k) ==
    LET rest == [p EXCEPT !.todo = @ \ {<<d, k>>}] IN
    IF k = 0 THEN IF d \in Embedded THEN [rest EXCEPT !.embedded[d] = 1, !.count = @ + 1] ELSE rest
    ELSE IF IsUnreadable(d, k) THEN rest
    ELSE [rest EXCEPT !.sha[d] = @ + Manifests[d][k], !.count = @ + Manifests[d][k]]

PlanAdvances(r) ==
    /\ pc[r] = "plan" /\ ~abort /\ chan[r] = rx
    /\ \E s \in plan[r].todo :
          /\ IsNext(s, plan[r].todo)
          /\ plan' = [plan EXCEPT ![r] = Planned(@, s[1], s[2])]
          /\ IF IsUnreadable(s[1], s[2]) THEN Send(chan[r], Result(r, "manifest", s[1], s[2]))
                                         ELSE UNCHANGED queue
    /\ UNCHANGED <<pc, work>> /\ OfRun(r)

\* A planning send on a dropped channel fails: the run returns Err, and nobody hears of it.
PlanFails(r) ==
    /\ pc[r] = "plan" /\ chan[r] # rx /\ (plan[r].todo # {} => ~abort)
    /\ EndRun(r)
    /\ UNCHANGED <<queue, plan, work>> /\ OfRun(r)

StartPhase(r, ph) ==
    /\ pc' = [pc EXCEPT ![r] = ph]
    /\ work' = [work EXCEPT ![r][ph] = NewPhase(plan[r][ph])]

PlanReady(r) ==
    /\ pc[r] = "plan" /\ plan[r].todo = {} /\ chan[r] = rx
    /\ Send(chan[r], JobsReady(plan[r].count))
    /\ IF plan[r].count = 0 THEN EndRun(r) /\ UNCHANGED work ELSE StartPhase(r, "sha")
    /\ UNCHANGED plan /\ OfRun(r)

(* verify_drives_worker and run_drive_phase, the coordinating thread *)

InPhase(r, ph) == /\ pc[r] = ph
                  /\ UNCHANGED plan /\ OfRun(r)

Feeds(r, ph) ==
    /\ InPhase(r, ph) /\ CanFeed(work[r][ph])
    /\ IF abort THEN /\ work' = [work EXCEPT ![r][ph] = StopFeeding(@)]
                     /\ Send(chan[r], Aborted)
                ELSE /\ work' = [work EXCEPT ![r][ph] = Feed(@)]
                     /\ UNCHANGED queue
    /\ UNCHANGED pc

Joins(r, ph) ==
    /\ InPhase(r, ph) /\ CanReturn(work[r][ph])
    /\ work' = [work EXCEPT ![r][ph] = Return(@)]
    /\ UNCHANGED <<queue, pc>>

ShaReturned(r) ==
    /\ InPhase(r, "sha") /\ work[r]["sha"].feeder = "ok"
    /\ IF abort THEN Send(chan[r], Aborted) /\ EndRun(r) /\ UNCHANGED work
                ELSE StartPhase(r, "embedded") /\ UNCHANGED queue

EmbeddedReturned(r) ==
    /\ InPhase(r, "embedded") /\ work[r]["embedded"].feeder = "ok"
    /\ EndRun(r) /\ UNCHANGED <<queue, work>>

\* The error reaches the GUI as Fatal, if the channel is still there.
PhaseFailed(r, ph) ==
    /\ InPhase(r, ph) /\ work[r][ph].feeder = "err"
    /\ Send(chan[r], Fatal("run")) /\ EndRun(r) /\ UNCHANGED work

(* The pool threads; they may outlive the call that started them. *)

Takes(r, ph) ==
    /\ CanTake(work[r][ph])
    /\ work' = [work EXCEPT ![r][ph] = Take(@)]
    /\ UNCHANGED <<queue, pc, plan>> /\ OfRun(r)

Moves(r, ph, d, to) == work' = [work EXCEPT ![r][ph] = Move(@, d, to)]

EntersBatch(r, ph, d) ==
    /\ work[r][ph].st[d] = "taken"
    /\ IF abort THEN Moves(r, ph, d, "quit") /\ Send(chan[r], Aborted)
                ELSE Moves(r, ph, d, "held") /\ UNCHANGED queue
    /\ UNCHANGED <<pc, plan>> /\ OfRun(r)

BeginsJob(r, ph, d) ==
    /\ work[r][ph].st[d] = "held"
    /\ IF abort THEN Moves(r, ph, d, "lost") /\ Send(chan[r], Aborted)
                ELSE Moves(r, ph, d, "running") /\ UNCHANGED queue
    /\ UNCHANGED <<pc, plan>> /\ OfRun(r)

JobCompletes(r, ph, d) ==
    /\ work[r][ph].st[d] = "running"
    /\ work' = [work EXCEPT ![r][ph] = Complete(@, d)]
    /\ Send(chan[r], Result(r, ph, d, plan[r][ph][d] - work[r][ph].left[d] + 1))
    /\ UNCHANGED <<pc, plan>> /\ OfRun(r)

\* Only a SHA-256 job: an ISOB3 check that sees the flag completes, as an invalid one.
JobAborts(r, ph, d) ==
    /\ ph = "sha" /\ work[r][ph].st[d] = "running" /\ abort
    /\ Moves(r, ph, d, "lost") /\ Send(chan[r], Aborted)
    /\ UNCHANGED <<pc, plan>> /\ OfRun(r)

Coordinator(r) ==
    \/ PlanStops(r) \/ PlanAdvances(r) \/ PlanFails(r) \/ PlanReady(r)
    \/ ShaReturned(r) \/ EmbeddedReturned(r)
    \/ \E ph \in Phases : Feeds(r, ph) \/ Joins(r, ph) \/ PhaseFailed(r, ph)

PoolThread(r, ph, d) ==
    EntersBatch(r, ph, d) \/ BeginsJob(r, ph, d) \/ JobCompletes(r, ph, d) \/ JobAborts(r, ph, d)

Worker == \/ \E s \in Scans : ScanEnds(s)
          \/ \E r \in Runs : Coordinator(r)
          \/ \E r \in Runs, ph \in Phases : Takes(r, ph)
          \/ \E r \in Runs, ph \in Phases, d \in Drives : PoolThread(r, ph, d)

Gone == exited /\ UNCHANGED vars

Next == Gui \/ Worker \/ Gone

\* egui repaints at least every 100 ms and the operating system runs every thread; the user
\* is not obliged to do anything.
Fairness ==
    /\ WF_vars(Gui)
    /\ \A s \in Scans : WF_vars(ScanEnds(s))
    /\ \A r \in Runs : WF_vars(Coordinator(r))
    /\ \A r \in Runs, ph \in Phases : WF_vars(Takes(r, ph))
    /\ \A r \in Runs, ph \in Phases, d \in Drives : WF_vars(PoolThread(r, ph, d))

Spec     == Init /\ [][Next]_vars
FairSpec == Spec /\ Fairness

----------------------------------------------------------------------------
(* Properties *)

Plan == [todo : SUBSET PlanSteps(Drives), sha : [Drives -> Nat], embedded : [Drives -> 0..1], count : Nat]

TypeOK ==
    /\ frame \in {"top", "drain", "ui", "gone"}
    /\ discovering \in BOOLEAN /\ verifying \in BOOLEAN /\ drives \subseteq Drives
    /\ total \in Nat /\ done \in Nat /\ results \subseteq Event
    /\ confirmOpen \in BOOLEAN /\ closeAfter \in BOOLEAN
    /\ abort \in BOOLEAN /\ rx \in Nat \ {0} /\ queue \in Seq(Event)
    /\ scans \in 0..MaxScans /\ scanChan \in [Scans -> Nat]
    /\ runs \in 0..MaxRuns /\ chan \in [Runs -> Nat]
    /\ pc \in [Runs -> {"none", "plan", "ended"} \cup Phases]
    /\ plan \in [Runs -> Plan]
    /\ work \in [Runs -> [Phases -> Phase]]
    /\ decision \in {"none", "asked", "dismissed", "continue", "abortAndClose", "close"}
    /\ aborted \subseteq Runs

\* An abort shows up in the log once, from request_abort itself: no Aborted event of a worker,
\* and no Fatal of a run whose threads left early, is ever in a channel the GUI still reads.
\* (The WorkerEvent::Aborted arm of process_events is therefore never taken.)
AbortIsSilent ==
    \A i \in 1..Len(queue) : queue[i].type # "Aborted" /\ queue[i] # Fatal("run")

\* Nothing of a run the user aborted is shown, counted or can still arrive, whatever its
\* threads keep doing and whatever the user starts next.
NothingFromAborted ==
    [][\A e \in results' \ results : e.run \notin aborted]_vars

\* Every result event is one the GUI counts once: done is the number of distinct outcomes.
CountedOnce == done = Cardinality(results)

AllReported(r) == \A ph \in Phases, d \in Drives : work[r][ph].left[d] = 0

\* When the GUI says a run is over that the user did not abort, the run's threads are over
\* as well: its jobs are all reported and nothing is being read from a drive.
FinishedIsLast ==
    \A r \in 1..runs : ~verifying /\ r \notin aborted =>
        /\ pc[r] # "plan" /\ AllReported(r) /\ (pc[r] = "sha" => plan[r].embedded = NoJobs)

\* The results on display are the current run's.
ResultsAreCurrent == \A e \in results : e.run = runs

\* In a run that was not aborted no embedded check starts before the last SHA job is reported.
EmbeddedAfterSha ==
    \A r \in 1..runs : r \notin aborted /\ pc[r] = "embedded" => \A d \in Drives : work[r]["sha"].left[d] = 0

\* The threads of an aborted run stop: none of them starts another job.
AbortStops ==
    [][\A r \in aborted, ph \in Phases, d \in Drives :
          work'[r][ph].st[d] = "running" => work[r][ph].st[d] = "running"]_vars

\* Every scan and every run the GUI shows as active ends, whatever else the user does,
\* unless the process does.
ScanEndsForUser == discovering ~> (~discovering \/ exited)
RunEndsForUser  == verifying ~> (~verifying \/ exited)

\* No thread of a run lives for ever, the threads of aborted runs included.
ThreadsEnd ==
    \A r \in Runs : (pc[r] = "plan") ~>
        (exited \/ (pc[r] = "ended" /\ \A ph \in Phases : Quiet(work[r][ph])))
=============================================================================
