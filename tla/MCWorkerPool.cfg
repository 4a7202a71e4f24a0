\* Three workers and more jobs than workers, so that a worker takes a second job
\* while others still wait for their turn.  No symmetry: liveness is checked too.
CONSTANTS
    Workers = {w1, w2, w3}
    NumJobs = 5
    Attempts = 2
    NoWorker = NoWorker
SPECIFICATION Spec
INVARIANTS
    IInv
    CleanEnd
    NothingStoredPastFailure
    ReportNeverBlocks
PROPERTIES
    ImplementsSerialSaver
    RunEnds
