SPECIFICATION Spec
CONSTANTS
    a = a
    b = b
    Nobody = Nobody
    All = All
    Opens = {a, b}
    Scenarios <- MCScenarios
    Node <- MCNode
    Instructions = {5, 14}
    Values = {5, 37}
    IrLength = 4
    MaxPacked = 5
    MaxHeld = 1
INVARIANTS
    RemembersTap
    PackedOverlayClaimed
    OverlayAccess
    NothingWithheld
