SPECIFICATION Spec
CONSTANTS
    Cands = {c1, c2}
    MaxAttempts = 2
    Requests = {d1}
    MaxMishaps = 0
SYMMETRY CandSymmetry
INVARIANTS BindAdmitted
CHECK_DEADLOCK FALSE
