CONSTANTS
    r = r
    s = s
    w = w
    Users = {r, w}
    RingSize = 2
    SeqMod = 1
    MaxLen = 1
    Payload <- MCPayload
    Faulty = {r}
    Signalled = {r}
    Calls <- ProgressCalls
SPECIFICATION Spec
INVARIANTS NoLostWriterWakeup
