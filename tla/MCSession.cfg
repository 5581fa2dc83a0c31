SPECIFICATION Spec
CONSTANTS
    Session = {s1, s2}
    MaxFd = 6
SYMMETRY Symmetry
INVARIANTS
    TypeOK
    RouterTermedOnce
    
