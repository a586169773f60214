----------------------------- MODULE DrivePhase -----------------------------
(***************************************************************************)
(* What run_drive_phase of worker/execute.rs promises: every batch is      *)
(* worked on by one thread, in order, and the call returns when nothing is *)
(* left to report or the abort flag was seen.  DrivePool implements it.    *)
(***************************************************************************)
EXTENDS PhaseOps, Sequences

CONSTANT Jobs     \* [Drives -> Nat], the jobs of each drive in this phase

VARIABLES
    phase,     \* the phase, a PhaseOps value
    cancel,    \* the abort flag shared with the GUI
    sent       \* the events sent to the GUI, oldest first

vars == <<phase, cancel, sent>>

Aborted == [type |-> "Aborted"]
Result(d, n) == [type |-> "Result", drive |-> d, job |-> n]

Init == phase = NewPhase(Jobs) /\ cancel = FALSE /\ sent = <<>>

Emit(e) == sent' = Append(sent, e)

FeedBatch == /\ CanFeed(phase) /\ ~cancel
             /\ phase' = Feed(phase) /\ UNCHANGED <<cancel, sent>>

FeederSeesAbort == /\ CanFeed(phase) /\ cancel
                   /\ phase' = StopFeeding(phase) /\ Emit(Aborted) /\ UNCHANGED cancel

PhaseReturns == /\ CanReturn(phase)
                /\ phase' = Return(phase) /\ UNCHANGED <<cancel, sent>>

TakeBatch == /\ CanTake(phase)
             /\ phase' = Take(phase) /\ UNCHANGED <<cancel, sent>>

EnterBatch(d) == /\ phase.st[d] = "taken"
                 /\ \/ cancel /\ phase' = Move(phase, d, "quit") /\ Emit(Aborted)
                    \/ ~cancel /\ phase' = Move(phase, d, "held") /\ UNCHANGED sent
                 /\ UNCHANGED cancel

BeginJob(d) == /\ phase.st[d] = "held"
               /\ \/ cancel /\ phase' = Move(phase, d, "lost") /\ Emit(Aborted)
                  \/ ~cancel /\ phase' = Move(phase, d, "running") /\ UNCHANGED sent
               /\ UNCHANGED cancel

JobCompletes(d) == /\ phase.st[d] = "running"
                   /\ phase' = Complete(phase, d)
                   /\ Emit(Result(d, Jobs[d] - phase.left[d] + 1))
                   /\ UNCHANGED cancel

JobAborts(d) == /\ phase.st[d] = "running" /\ cancel
                /\ phase' = Move(phase, d, "lost") /\ Emit(Aborted) /\ UNCHANGED cancel

\* The GUI raises the flag on an abort, and lowers it when the next run starts.
GuiFlips == cancel' = ~cancel /\ UNCHANGED <<phase, sent>>

Next == \/ FeedBatch \/ FeederSeesAbort \/ PhaseReturns \/ TakeBatch \/ GuiFlips
        \/ \E d \in Drives : EnterBatch(d) \/ BeginJob(d) \/ JobCompletes(d) \/ JobAborts(d)

Spec == Init /\ [][Next]_vars
=============================================================================
