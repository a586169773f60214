CONSTANTS
    NumDrives = 4
    MaxWorkers = 2
    MaxFlips = 2
    Jobs <- MCJobs
SPECIFICATION Spec
INVARIANTS OneWorkerPerDrive ResultsInOrder
PROPERTIES PhaseTerminates ImplementsPhase
