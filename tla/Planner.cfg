SPECIFICATION Spec
CONSTANTS
    a = a
    b = b
    A = A
    B = B
    p = p
    q = q
    BaseId = {a, b}
    Label = {A, B}
    Relation = {p, q}
    Rule <- MCRule
    MaxNodes = 4
    MaxLinks = 3
    MaxSteps = 2
    NoPlan = NoPlan
INVARIANTS
    NoDanglingLinks
    VerifiedRunsThrough

    
