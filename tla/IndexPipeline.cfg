SPECIFICATION Spec
CONSTANTS
    Files = 4
    WindowSize = 2
    WriterWindow = 2
    Writers = {TRUE, FALSE}
INVARIANTS PipelineInv CommitInOrder WindowKept EveryFileAccounted
PROPERTIES IndexEnds
CHECK_DEADLOCK FALSE
