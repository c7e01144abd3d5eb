SPECIFICATION Spec
CONSTANTS
    a = a
    b = b
    Calls <- MCCalls
    Events <- MCEvents
    Cancellable <- MCCancellable
    Handlers = {h1, h2, h3}
    NoRequest = NoRequest
CHECK_DEADLOCK FALSE
INVARIANTS
    ServesUntilStopped
