SPECIFICATION Spec
CONSTANTS
    Phases <- DemoPhases
    NULL = NULL
    MaxFaults = 2
INVARIANTS
    CounterJoins
    
    
    CrashWindow
PROPERTIES
    EveryStepProgresses
    Terminates
CHECK_DEADLOCK FALSE
