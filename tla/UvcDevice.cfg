SPECIFICATION DeviceSpec
CONSTANTS
    Kinds = {status, button}
    MaxConnects = 3
\* The application may have made its last call.
CHECK_DEADLOCK FALSE
INVARIANTS
    CallbackInTime
    RefsCounted
    Unwound
