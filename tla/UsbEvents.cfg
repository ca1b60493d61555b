SPECIFICATION FairEventsSpec
CONSTANTS
    App = app
    Handler = handler
    Others = {preview}
    Nobody = nobody
    MaxCalls = 4
\* On a camera opened again, nobody handles events for a thread that stops a
\* stream: everybody may end up waiting.
CHECK_DEADLOCK FALSE
INVARIANTS
    SleepersServed
    ClosedNotPolled
PROPERTIES
    WaitsEnd
