SPECIFICATION Spec
CONSTANTS
    Upstreams = {u1, u2}
INVARIANTS
    TypeOK
    PassIsBarrier
    LogTellsState

    
    
    
