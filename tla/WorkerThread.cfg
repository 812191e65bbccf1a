\* CHECK_DEADLOCK FALSE: after the destructor nothing happens any more.
SPECIFICATION Spec
CONSTANTS
    Callers = {rpc, admin, main}
    Nobody = Nobody
    rpc = rpc
    admin = admin
    main = main
INVARIANTS
    SleepersWait
    StoppedIsOutOfLoop
PROPERTY
    CallsReturn
CHECK_DEADLOCK FALSE
