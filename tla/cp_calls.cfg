SPECIFICATION Spec
CONSTANTS
    Buffers = 3
    DeferredMax = 2
    OutputMax = 1
    MaxCommands = 6
    Styles = {"never", "auto", "manual", "stream"}
    Kinds = {"plain", "big", "read", "ir", "unclaimed"}
INVARIANTS
    RecordsSound
    AnswersInStep
    NothingForgotten
PROPERTIES
    ImplementsQueue
