SPECIFICATION Spec
CONSTANTS
    Tasks = {t1, t2, t3}
    Paths = {p1}
    Ops <- BoundaryOps
    MaxConns = 2
    NoTask = NoTask
SYMMETRY Symmetry
INVARIANTS
    NoUseAfterClose
    ExclusiveUse
    
    
