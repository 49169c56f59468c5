SPECIFICATION Spec
CONSTANTS
    Procs = {a, b, c}
    N = 2
    MaxArchive = 2
    Nobody = Nobody
SYMMETRY Symmetry
INVARIANTS
    
    CommittedIsWhole
    ReleasedIsSettled
    OneWriter
PROPERTIES
    OnlyRecordedNodes
